--------------------------- MODULE DramatiqProofs ---------------------------
(***************************************************************************)
(* Theorems about DramatiqPipeline, for any jobs, workers and processes:   *)
(* messages do not multiply, none is lost, no process is left behind.      *)
(***************************************************************************)
EXTENDS DramatiqPipeline, FiniteSetTheorems, TLAPS

(* Types.                                                                  *)
Process == [at : {"none", "started", "converting", "publishing", "saving", "ending", "done",
                  "vanished"},
            job : Jobs \union {NoJob}, copy : Row \union {NoRow}, retry : BOOLEAN,
            own : {"none", "queued", "claimed", "delivered"}]
Actor == [at : {"free", "watching", "republish", "republished", "acknowledge"},
          job : Jobs \union {NoJob}, child : Children \union {NoChild}]
History == [delivered : SUBSET Jobs, failed : SUBSET Jobs, removed : SUBSET Jobs,
            unpublished : SUBSET Jobs, orphaned : Nat, resent : Nat]

Shapes ==
  /\ row \in [Jobs -> Row \union {NoRow}]
  /\ api \in [Jobs -> {"new", "saved", "answered"}]
  /\ parserQueue \in [Jobs -> Nat] /\ dispatchQueue \in [Jobs -> Nat]
  /\ parent \in [Parents -> Actor]
  /\ child \in [Children -> Process]
  /\ sender \in [Senders -> [at : {"free", "claimed", "delivered", "completed"}, job : Jobs \union {NoJob}]]
  /\ faults \in 0..MaxFaults
  /\ past \in History

(* A process has a job, a row from its start to its second save, and a     *)
(* settled one once it has converted.                                      *)
ProcessIsSound(process) ==
  /\ process.at # "none" => process.job \in Jobs
  /\ process.at \in {"converting", "publishing", "saving"} => process.copy \in Row
  /\ process.at \in {"publishing", "saving"} =>
       process.copy.status \in {"DISPATCH_QUEUED", "RETRYABLE_FAILURE"}

(* An actor with a message has its job; one that watches has a process of  *)
(* that job.                                                               *)
ActorIsSound(actor) ==
  /\ actor.at = "free" <=> actor.job = NoJob
  /\ actor.at = "watching" <=> actor.child # NoChild
  /\ actor.at = "watching" =>
       child[actor.child].at # "none" /\ child[actor.child].job = actor.job

(* No two actors watch one process.                                        *)
WatchedByOne ==
  \A p, q \in Parents : parent[p].child # NoChild /\ parent[p].child = parent[q].child => p = q

(* The inductive invariant of who works on what.                           *)
LinkInv ==
  /\ Shapes /\ WatchedByOne
  /\ \A k \in Children : ProcessIsSound(child[k])
  /\ \A p \in Parents : ActorIsSound(parent[p])
  /\ \A d \in Senders : sender[d].at = "free" <=> sender[d].job = NoJob

(* No actor and no message for a request that is not answered; an accepted *)
(* job lacks its row only if it was removed.                               *)
RequestIsSound(j) ==
  /\ api[j] # "answered" => parserQueue[j] = 0 /\ Holders(j) = {}
  /\ api[j] # "new" /\ row[j] = NoRow => j \in past.removed

(* The messages of a job: those nobody holds and those still to be sent or *)
(* delivered again.                                                        *)
Open(j) == {p \in Holders(j) : parent[p].at # "republished"}
TokenInv ==
  \A j \in Jobs :
    /\ RequestIsSound(j)
    /\ parserQueue[j] + Cardinality(Open(j)) <= 1 + past.resent

(* Only the death of a worker that watches leaves a process to nobody.     *)
NoOrphans ==
  past.orphaned = 0 =>
    \A k \in Children : child[k].at # "none" => \E p \in Parents : parent[p].child = k

(* A process, a message or an actor that leads to a parse of the job.      *)
Returns(process) ==
  \/ process.at \in {"started", "converting", "vanished"}
  \/ process.at \in {"ending", "done"} /\ process.retry
Watches(p, j) == parent[p].at = "watching" /\ parent[p].job = j
WillParse(j) ==
  \/ parserQueue[j] > 0
  \/ \E p \in Parents : parent[p].at = "republish" /\ parent[p].job = j
  \/ \E p \in Parents : Watches(p, j) /\ Returns(child[parent[p].child])

(* The row says that its job is to be parsed.                              *)
InParser(j) == row[j] # NoRow /\ row[j].status \in {"PARSER_QUEUED", "PARSING", "RETRYING"}

(* A row in the parser's hands: see ParsingIsWorkedOn.                     *)
WorkInv ==
  past.orphaned = 0 =>
    \A j \in Jobs : InParser(j) => WillParse(j) \/ api[j] = "saved" \/ j \in past.unpublished

(* A message or an actor that leads to a delivery.                         *)
WillDeliver(j) ==
  \/ dispatchQueue[j] > 0
  \/ \E d \in Senders : sender[d].at = "claimed" /\ sender[d].job = j
  \/ \E p \in Parents : Watches(p, j) /\ child[parent[p].child].at = "publishing"

(* An accepted job leads on, or is settled: see NothingIsLost.             *)
LossInv ==
  \A j \in Jobs : api[j] = "answered" => Settled(j) \/ WillParse(j) \/ WillDeliver(j)

----------------------------------------------------------------------------
(* Records *)

(* A row with another status.                                              *)
LEMMA RowChanges ==
  ASSUME NEW old \in Row, NEW status \in Statuses
  PROVE  /\ [old EXCEPT !.status = status] \in Row
         /\ [old EXCEPT !.status = status].status = status
BY DEF Row

(* A row with another status, of another or no process.                    *)
LEMMA RowMoves ==
  ASSUME NEW old \in Row, NEW status \in Statuses, NEW pid \in Children \union {NoChild}
  PROVE  LET new == [old EXCEPT !.status = status, !.pid = pid]
         IN  new \in Row /\ new.status = status
BY DEF Row

(* A row with one more failure.                                            *)
LEMMA RowFails ==
  ASSUME NEW old \in Row, NEW status \in Statuses, old.failures + 1 <= MaxFailures
  PROVE  LET new == [old EXCEPT !.failures = old.failures + 1, !.pid = NoChild, !.status = status]
         IN  new \in Row /\ new.status = status
<1>1. old.failures + 1 \in 0..MaxFailures
  BY DramatiqBounds DEF Row
<1> QED BY <1>1 DEF Row

(* What becomes of history.                                                *)
LEMMA HistoryGrows ==
  ASSUME NEW old \in History, NEW j \in Jobs
  PROVE  /\ [old EXCEPT !.delivered = @ \union {j}] \in History
         /\ [old EXCEPT !.failed = @ \union {j}] \in History
         /\ [old EXCEPT !.removed = @ \union {j}] \in History
         /\ [old EXCEPT !.unpublished = @ \union {j}] \in History
BY DEF History

(* A process that goes on.                                                 *)
LEMMA ProcessGoes ==
  ASSUME NEW old \in Process, NEW at
  PROVE  [old EXCEPT !.at = at] = [at |-> at, job |-> old.job, copy |-> old.copy,
                                   retry |-> old.retry, own |-> old.own]
BY DEF Process

(* A change of one process.                                                *)
LEMMA ProcessChanges ==
  ASSUME LinkInv, NEW k \in Children, NEW new \in Process, ProcessIsSound(new),
         child' = [child EXCEPT ![k] = new], UNCHANGED parent,
         (\E p \in Parents : parent[p].child = k) => new.at # "none" /\ new.job = child[k].job
  PROVE  /\ child' \in [Children -> Process] /\ WatchedByOne'
         /\ \A l \in Children : ProcessIsSound(child'[l])
         /\ \A p \in Parents : ActorIsSound(parent[p])'
BY DEF LinkInv, Shapes, WatchedByOne, ActorIsSound, Actor

(* A change of one actor, which ends watching or does not begin to.        *)
LEMMA ActorChanges ==
  ASSUME LinkInv, NEW p \in Parents, NEW new \in Actor, parent' = [parent EXCEPT ![p] = new],
         new.at = "free" <=> new.job = NoJob, new.at # "watching", new.child = NoChild,
         \A k \in Children : child'[k] = child[k] \/ parent[p].child = k,
         child' \in [Children -> Process]
  PROVE  /\ parent' \in [Parents -> Actor] /\ WatchedByOne'
         /\ \A q \in Parents : ActorIsSound(parent[q])'
<1>1. parent' \in [Parents -> Actor] /\ WatchedByOne'
  BY DEF LinkInv, Shapes, WatchedByOne
<1>2. ASSUME NEW q \in Parents PROVE ActorIsSound(parent[q])'
  <2>1. CASE q = p
    BY <2>1 DEF LinkInv, Shapes, ActorIsSound
  <2>2. CASE q # p
    <3>1. parent'[q] = parent[q] /\ ActorIsSound(parent[q])
      BY <2>2 DEF LinkInv, Shapes
    <3>2. parent[q].at = "watching" =>
            parent[q].child \in Children /\ child'[parent[q].child] = child[parent[q].child]
      BY <2>2, <3>1 DEF LinkInv, Shapes, WatchedByOne, ActorIsSound, Actor
    <3> QED BY <3>1, <3>2 DEF ActorIsSound
  <2> QED BY <2>1, <2>2
<1> QED BY <1>1, <1>2

----------------------------------------------------------------------------
(* Who works on what, action by action *)

(* Types and links hold at the start.                                      *)
LEMMA LinksStart == Init => LinkInv
BY DramatiqBounds, AbsenceIsNothing
   DEF Init, LinkInv, Shapes, WatchedByOne, ProcessIsSound, ActorIsSound, Actor, Process, History,
       FreeParent, FreeSender, NoProcess

(* A request saves, publishes, or cannot.                                  *)
LEMMA ApiLinks ==
  ASSUME LinkInv, NEW j \in Jobs, Api(j) \/ ParserJobUnsent(j)
  PROVE  LinkInv'
<1>1. CASE SaveUpload(j)
  BY <1>1, DramatiqBounds DEF SaveUpload, LinkInv, Shapes, WatchedByOne, ActorIsSound, Row, Statuses
<1>2. CASE EnqueueParserJob(j)
  BY <1>2 DEF EnqueueParserJob, LinkInv, Shapes, WatchedByOne, ActorIsSound
<1>3. CASE ParserJobUnsent(j)
  <2>1. row' \in [Jobs -> Row \union {NoRow}]
    BY <1>3, DramatiqBounds DEF ParserJobUnsent, LinkInv, Shapes, Row, Statuses
  <2>2. past' \in History
    BY <1>3, HistoryGrows DEF ParserJobUnsent, LinkInv, Shapes
  <2>3. faults' \in 0..MaxFaults
    BY <1>3, DramatiqBounds DEF ParserJobUnsent, LinkInv, Shapes, Fault
  <2> QED BY <1>3, <2>1, <2>2, <2>3
          DEF ParserJobUnsent, LinkInv, Shapes, WatchedByOne, ActorIsSound
<1> QED BY <1>1, <1>2, <1>3 DEF Api

(* A removal ends the process that the row names.                          *)
LEMMA RemovalLinks ==
  ASSUME LinkInv, NEW j \in Jobs, RemoveJob(j)
  PROVE  LinkInv'
<1>1. row' \in [Jobs -> Row \union {NoRow}]
  BY DEF RemoveJob, LinkInv, Shapes
<1>2. past' \in History
  BY HistoryGrows DEF RemoveJob, LinkInv, Shapes
<1>3. faults' \in 0..MaxFaults
  BY DramatiqBounds DEF RemoveJob, LinkInv, Shapes, Fault
<1>4. ASSUME NEW k \in Children
      PROVE  /\ child'[k] \in Process /\ ProcessIsSound(child'[k]) /\ child'[k].job = child[k].job
             /\ child'[k].at = "none" <=> child[k].at = "none"
  <2>1. child'[k] = child[k] \/ (Alive(k) /\ child'[k] = [child[k] EXCEPT !.at = "vanished"])
    BY DEF RemoveJob
  <2>2. child[k] \in Process /\ ProcessIsSound(child[k])
    BY DEF LinkInv, Shapes
  <2> QED BY <2>1, <2>2, ProcessGoes DEF ProcessIsSound, Process, Alive
<1>5. child' \in [Children -> Process]
  BY <1>4 DEF RemoveJob
<1>6. UNCHANGED <<api, parserQueue, dispatchQueue, parent, sender>>
  BY DEF RemoveJob
<1> QED BY <1>1, <1>2, <1>3, <1>4, <1>5, <1>6
        DEF LinkInv, Shapes, WatchedByOne, ActorIsSound, Actor

(* The process of an actor is there and is the actor's alone.              *)
LEMMA Watching ==
  ASSUME LinkInv, NEW p \in Parents, parent[p].at # "free"
  PROVE  /\ parent[p].job \in Jobs
         /\ parent[p].at = "watching" =>
              /\ parent[p].child \in Children /\ child[parent[p].child].at # "none"
              /\ child[parent[p].child].job = parent[p].job
BY DEF LinkInv, Shapes, ActorIsSound, Actor

(* An empty slot, and an actor without a message.                          *)
LEMMA FreeSlots == NoProcess \in Process /\ ProcessIsSound(NoProcess) /\ FreeParent \in Actor
BY DEF NoProcess, Process, ProcessIsSound, FreeParent, Actor

(* An actor takes a message and starts a process.                          *)
LEMMA ReceiveLinks ==
  ASSUME LinkInv, NEW p \in Parents, Receive(p)
  PROVE  LinkInv'
<1>1. PICK j \in Jobs, k \in Children :
        /\ parserQueue[j] > 0 /\ child[k].at = "none"
        /\ parserQueue' = [parserQueue EXCEPT ![j] = @ - 1]
        /\ parent' = [parent EXCEPT ![p] = [at |-> "watching", job |-> j, child |-> k]]
        /\ child' = [child EXCEPT ![k] = [NoProcess EXCEPT !.at = "started", !.job = j]]
  BY DEF Receive
<1> DEFINE new == [NoProcess EXCEPT !.at = "started", !.job = j]
<1>2. new \in Process /\ ProcessIsSound(new) /\ new.at = "started" /\ new.job = j
  BY DEF NoProcess, Process, ProcessIsSound
<1>3. child' = [child EXCEPT ![k] = new]
  BY <1>1
<1> HIDE DEF new
<1>4. \A q \in Parents : parent[q].child # k
  BY <1>1, AbsenceIsNothing DEF LinkInv, Shapes, ActorIsSound, Actor
<1>5. child' \in [Children -> Process] /\ \A l \in Children : ProcessIsSound(child'[l])
  BY <1>2, <1>3 DEF LinkInv, Shapes
<1>6. parent' \in [Parents -> Actor] /\ WatchedByOne'
  BY <1>1, <1>4, AbsenceIsNothing DEF LinkInv, Shapes, Actor, WatchedByOne
<1>7. ASSUME NEW q \in Parents PROVE ActorIsSound(parent[q])'
  <2>1. CASE q = p
    BY <1>1, <1>2, <1>3, <2>1, AbsenceIsNothing DEF LinkInv, Shapes, ActorIsSound
  <2>2. CASE q # p
    <3>1. parent'[q] = parent[q] /\ ActorIsSound(parent[q])
      BY <1>1, <2>2 DEF LinkInv, Shapes
    <3>2. parent[q].at = "watching" => child'[parent[q].child] = child[parent[q].child]
      BY <1>3, <1>4, <3>1 DEF LinkInv, Shapes, ActorIsSound, Actor
    <3> QED BY <3>1, <3>2 DEF ActorIsSound
  <2> QED BY <2>1, <2>2
<1>8. parserQueue' \in [Jobs -> Nat]
  BY <1>1 DEF LinkInv, Shapes
<1>9. UNCHANGED <<row, api, dispatchQueue, sender, faults, past>>
  BY DEF Receive
<1> QED BY <1>5, <1>6, <1>7, <1>8, <1>9 DEF LinkInv, Shapes

(* What an actor does to its message, its process and itself: it is left   *)
(* without a process, and a message may come back or be sent.              *)
ActorLeaves(p, new) ==
  /\ parent' = [parent EXCEPT ![p] = new]
  /\ new \in Actor /\ new.at # "watching" /\ new.child = NoChild
  /\ new.at = "free" <=> new.job = NoJob
  /\ \/ UNCHANGED parserQueue
     \/ parserQueue' = [parserQueue EXCEPT ![parent[p].job] = @ + 1]
  /\ \/ UNCHANGED child
     \/ child' = [child EXCEPT ![parent[p].child] = NoProcess]

(* An actor that leaves its process keeps the links.                       *)
LEMMA ActorLinks ==
  ASSUME LinkInv, NEW p \in Parents, parent[p].at # "free", NEW new, ActorLeaves(p, new),
         UNCHANGED <<row, api, dispatchQueue, sender>>,
         faults' \in 0..MaxFaults, past' \in History
  PROVE  LinkInv'
<1>1. child' \in [Children -> Process] /\ \A l \in Children : ProcessIsSound(child'[l])
  BY FreeSlots DEF ActorLeaves, LinkInv, Shapes
<1>2. \A k \in Children : child'[k] = child[k] \/ parent[p].child = k
  BY DEF ActorLeaves, LinkInv, Shapes
<1>3. /\ parent' \in [Parents -> Actor] /\ WatchedByOne'
      /\ \A q \in Parents : ActorIsSound(parent[q])'
  BY <1>1, <1>2, ActorChanges DEF ActorLeaves
<1>4. parserQueue' \in [Jobs -> Nat]
  BY DEF ActorLeaves, LinkInv, Shapes
<1> QED BY <1>1, <1>3, <1>4 DEF LinkInv, Shapes

(* How the actions of an actor after the first leave it.                   *)
Retries(p) == [at |-> "republish", job |-> parent[p].job, child |-> NoChild]
Sent(p) == [at |-> "republished", job |-> parent[p].job, child |-> NoChild]
Finishes(p) == [at |-> "acknowledge", job |-> parent[p].job, child |-> NoChild]

(* The process that is terminated is gone; an actor that does not watch    *)
(* terminates none.                                                        *)
LEMMA TerminatedIsGone ==
  ASSUME LinkInv, NEW p \in Parents
  PROVE  IF parent[p].at = "watching"
         THEN /\ Terminated(parent[p].child) = [child EXCEPT ![parent[p].child] = NoProcess]
              /\ parent[p].child \in Children
         ELSE Terminated(parent[p].child) = child
<1>1. child = [k \in Children |-> child[k]]
  BY DEF LinkInv, Shapes
<1>2. CASE parent[p].at = "watching"
  BY <1>1, <1>2, Watching DEF Terminated, LinkInv, Shapes
<1>3. CASE parent[p].at # "watching"
  <2>1. parent[p].child \notin Children
    BY <1>3, AbsenceIsNothing DEF LinkInv, Shapes, ActorIsSound, Actor
  <2>2. \A k \in Children : k # parent[p].child
    BY <2>1
  <2> QED BY <1>1, <1>3, <2>2 DEF Terminated
<1> QED BY <1>2, <1>3

(* What history says of an actor that ended.                               *)
LEMMA EndIsNoted ==
  ASSUME LinkInv, NEW p \in Parents, TimeLimit(p) \/ ParentDies(p)
  PROVE  /\ past' \in History
         /\ past'.removed = past.removed /\ past'.delivered = past.delivered
         /\ past'.failed = past.failed /\ past'.unpublished = past.unpublished
         /\ past'.resent = past.resent + (IF parent[p].at = "republished" THEN 1 ELSE 0)
         /\ past'.orphaned = past.orphaned +
              (IF ParentDies(p) /\ parent[p].at = "watching" THEN 1 ELSE 0)
<1>1. past \in History
  BY DEF LinkInv, Shapes
<1>2. PICK r \in Nat :
        r = Resent(p) /\ r = past.resent + (IF parent[p].at = "republished" THEN 1 ELSE 0)
  BY <1>1 DEF Resent, History
<1>3. CASE TimeLimit(p) /\ ~ParentDies(p)
  <2>1. past' = [past EXCEPT !.resent = r]
    BY <1>2, <1>3 DEF TimeLimit
  <2> QED BY <1>1, <1>2, <1>3, <2>1 DEF History
<1>4. CASE ParentDies(p)
  <2>1. PICK n \in Nat :
          n = past.orphaned + (IF parent[p].at = "watching" THEN 1 ELSE 0)
    BY <1>1 DEF History
  <2>2. past' = [past EXCEPT !.resent = r, !.orphaned = n]
    <3>1. past.orphaned + 0 = past.orphaned
      BY <1>1 DEF History
    <3> QED BY <1>2, <1>4, <2>1, <3>1 DEF ParentDies
  <2> QED BY <1>1, <1>2, <1>4, <2>1, <2>2 DEF History
<1> QED BY <1>3, <1>4

(* Every action of an actor but the first leaves it so.                    *)
LEMMA Leavings ==
  ASSUME LinkInv, NEW p \in Parents,
         TakeResult(p) \/ Republish(p) \/ Acknowledge(p) \/ TimeLimit(p) \/ ParentDies(p)
  PROVE  /\ parent[p].at # "free"
         /\ \E new \in {FreeParent, Retries(p), Sent(p), Finishes(p)} : ActorLeaves(p, new)
         /\ UNCHANGED <<row, api, dispatchQueue, sender>>
         /\ faults' \in 0..MaxFaults /\ past' \in History
<1>1. parent[p] \in Actor
  BY DEF LinkInv, Shapes
<1>2. \A new \in {FreeParent, Retries(p), Sent(p), Finishes(p)} :
        /\ parent[p].at # "free" => new \in Actor /\ (new.at = "free" <=> new.job = NoJob)
        /\ new.at # "watching" /\ new.child = NoChild
  BY <1>1, Watching, AbsenceIsNothing DEF FreeParent, Retries, Sent, Finishes, Actor
<1>3. CASE TakeResult(p)
  BY <1>2, <1>3 DEF TakeResult, ActorLeaves, Raised, Retries, Finishes, LinkInv, Shapes
<1>4. CASE Republish(p)
  <2>1. [parent[p] EXCEPT !.at = "republished"] = Sent(p)
    BY <1>1, <1>4 DEF Republish, LinkInv, ActorIsSound, Actor, Sent
  <2> QED BY <1>2, <1>4, <2>1 DEF Republish, ActorLeaves, Republished, LinkInv, Shapes
<1>5. CASE Acknowledge(p)
  BY <1>2, <1>5 DEF Acknowledge, ActorLeaves, LinkInv, Shapes
<1>6. CASE TimeLimit(p)
  <2>1. UNCHANGED child \/ child' = [child EXCEPT ![parent[p].child] = NoProcess]
    BY <1>6, TerminatedIsGone DEF TimeLimit
  <2>2. faults' \in 0..MaxFaults
    BY <1>6, DramatiqBounds DEF TimeLimit, Fault, LinkInv, Shapes
  <2>3. past' \in History
    BY <1>6, EndIsNoted
  <2> QED BY <1>2, <1>6, <2>1, <2>2, <2>3 DEF TimeLimit, ActorLeaves, Raised, LinkInv, Shapes
<1>7. CASE ParentDies(p)
  <2>1. faults' \in 0..MaxFaults
    BY <1>7, DramatiqBounds DEF ParentDies, Fault, LinkInv, Shapes
  <2>2. past' \in History
    BY <1>7, EndIsNoted
  <2> QED BY <1>2, <1>7, <2>1, <2>2 DEF ParentDies, ActorLeaves
<1> QED BY <1>3, <1>4, <1>5, <1>6, <1>7

----------------------------------------------------------------------------
(* The child processes *)

(* What Settled says, now and in the next state.                           *)
LEMMA IsSettled ==
  ASSUME NEW j
  PROVE  /\ Settled(j) <=> \/ j \in past.delivered \/ j \in past.failed
                           \/ j \in past.removed \/ j \in past.unpublished
         /\ Settled(j)' <=> \/ j \in past'.delivered \/ j \in past'.failed
                            \/ j \in past'.removed \/ j \in past'.unpublished
BY DEF Settled

(* A process goes on, or ends unseen; only the row of its job changes, and *)
(* nothing is forgotten.                                                   *)
ChildGoes(k, j, new) ==
  /\ child' = [child EXCEPT ![k] = new]
  /\ new \in Process /\ ProcessIsSound(new)
  /\ IF new.at = "none" THEN Orphan(k) ELSE new.job = j
  /\ UNCHANGED <<api, parserQueue, parent, sender>>
  /\ \/ UNCHANGED row
     \/ \E r \in Row : row' = [row EXCEPT ![j] = r]
  /\ \/ UNCHANGED dispatchQueue
     \/ dispatchQueue' = [dispatchQueue EXCEPT ![j] = @ + 1]
  /\ faults' \in 0..MaxFaults
  /\ past' \in History /\ UNCHANGED <<past.orphaned, past.resent>>
  /\ past'.removed = past.removed /\ past.delivered \subseteq past'.delivered
  /\ past.failed \subseteq past'.failed /\ past.unpublished \subseteq past'.unpublished

(* It leads to a parse as long as the row says so.                         *)
KeepsParsing(k, j, new) ==
  \/ Returns(new)
  \/ ~InParser(j)'
  \/ row'[j] = row[j] /\ (Returns(child[k]) => Orphan(k))

(* It leads to a delivery until a message does, or the job is settled.     *)
Leads(process) == Returns(process) \/ process.at = "publishing"
KeepsDelivering(k, j, new) ==
  Leads(child[k]) =>
    \/ Leads(new) \/ Orphan(k)
    \/ api[j] # "new" => Settled(j)' \/ dispatchQueue'[j] > 0

(* A step of a process, with all that the invariants need of it.           *)
ChildMoves(k, j) ==
  /\ child[k].at # "none" /\ child[k].job = j
  /\ \E new : ChildGoes(k, j, new) /\ KeepsParsing(k, j, new) /\ KeepsDelivering(k, j, new)

(* What every action of a process starts from.                             *)
LEMMA ChildTypes ==
  ASSUME LinkInv, NEW k \in Children
  PROVE  /\ child[k] \in Process /\ ProcessIsSound(child[k])
         /\ child[k].at # "none" =>
              child[k].job \in Jobs /\ row[child[k].job] \in Row \union {NoRow}
         /\ past \in History /\ faults \in 0..MaxFaults
BY DEF LinkInv, Shapes, ProcessIsSound

(* The process finds its job removed, or begins to convert.                *)
LEMMA StartMoves ==
  ASSUME LinkInv, TokenInv, NEW k \in Children, NEW j \in Jobs, child[k].job = j, Start(k)
  PROVE  ChildMoves(k, j)
<1>1. child[k].at = "started" /\ child[k] \in Process
  BY ChildTypes DEF Start
<1>2. CASE row[j] = NoRow
  <2> DEFINE new == [child[k] EXCEPT !.at = "ending"]
  <2>1. child' = [child EXCEPT ![k] = new] /\ UNCHANGED row
    BY <1>2 DEF Start, JobOf, LinkInv, Shapes
  <2>2. new \in Process /\ ProcessIsSound(new) /\ new.at = "ending" /\ new.job = j
    BY <1>1 DEF Process, ProcessIsSound
  <2> HIDE DEF new
  <2>3. ChildGoes(k, j, new)
    BY <2>1, <2>2, ChildTypes DEF ChildGoes, Start, outside
  <2>4. KeepsParsing(k, j, new)
    BY <1>2, <2>1 DEF KeepsParsing, InParser
  <2>5. UNCHANGED past /\ (api[j] # "new" => j \in past.removed)
    BY <1>2 DEF TokenInv, RequestIsSound, Start
  <2>6. KeepsDelivering(k, j, new)
    BY <2>5, IsSettled DEF KeepsDelivering
  <2> QED BY <1>1, <2>3, <2>4, <2>6 DEF ChildMoves
<1>3. CASE row[j] # NoRow
  <2> DEFINE running == [row[j] EXCEPT !.status = "PARSING", !.pid = k]
             new == [child[k] EXCEPT !.at = "converting", !.copy = running]
  <2>1. child' = [child EXCEPT ![k] = new] /\ row' = [row EXCEPT ![j] = running]
    BY <1>3 DEF Start, JobOf, LinkInv, Shapes
  <2>2. running \in Row
    BY <1>1, <1>3, ChildTypes, RowMoves DEF Statuses
  <2> HIDE DEF running
  <2>3. new \in Process /\ ProcessIsSound(new) /\ new.at = "converting" /\ new.job = j
    BY <1>1, <2>2 DEF Process, ProcessIsSound
  <2> HIDE DEF new
  <2>4. ChildGoes(k, j, new)
    BY <2>1, <2>2, <2>3, ChildTypes DEF ChildGoes, Start, outside
  <2>5. KeepsParsing(k, j, new) /\ KeepsDelivering(k, j, new)
    BY <2>3 DEF KeepsParsing, KeepsDelivering, Returns, Leads
  <2> QED BY <1>1, <2>4, <2>5 DEF ChildMoves
<1> QED BY <1>2, <1>3

(* The row a process reads once more is one.                               *)
LEMMA LatestJobIsRow ==
  ASSUME LinkInv, NEW k \in Children, child[k].at = "converting"
  PROVE  LatestJob(k) \in Row
BY ChildTypes DEF LatestJob, JobOf, ProcessIsSound

(* A failed conversion asks for a retry, or fails the job.                 *)
LEMMA ConversionFailsMoves ==
  ASSUME LinkInv, NEW k \in Children, NEW j \in Jobs, child[k].job = j, ConversionFails(k)
  PROVE  ChildMoves(k, j)
<1> DEFINE again == LatestJob(k).failures + 1 <= MaxRetries
           status == IF again THEN "RETRYING" ELSE "FAILED"
           failed == [LatestJob(k) EXCEPT !.failures = LatestJob(k).failures + 1,
                                          !.pid = NoChild, !.status = status]
           new == [child[k] EXCEPT !.at = "ending", !.copy = NoRow, !.retry = again]
<1>1. child[k].at = "converting" /\ child[k] \in Process
  BY ChildTypes DEF ConversionFails
<1>2. child' = [child EXCEPT ![k] = new] /\ row' = [row EXCEPT ![j] = failed]
  BY DEF ConversionFails, JobOf
<1>3. past' = IF again THEN past ELSE [past EXCEPT !.failed = @ \union {j}]
  BY DEF ConversionFails, JobOf
<1>4. again \in BOOLEAN /\ (status = "FAILED" \/ again) /\ status \in Statuses
  BY DEF Statuses
<1> HIDE DEF again, status
<1>5. LatestJob(k) \in Row /\ LatestJob(k).failures + 1 <= MaxFailures
  BY <1>1, LatestJobIsRow DEF ConversionFails
<1>6. failed \in Row /\ failed.status = status
  BY <1>4, <1>5, RowFails
<1>7. /\ new \in Process /\ ProcessIsSound(new) /\ new.at = "ending" /\ new.job = j
      /\ new.retry = again
  BY <1>1, <1>4 DEF Process, ProcessIsSound
<1> HIDE DEF failed, new
<1>8. /\ past' \in History /\ UNCHANGED <<past.orphaned, past.resent>> /\ past'.removed = past.removed
      /\ past'.delivered = past.delivered /\ past'.unpublished = past.unpublished
      /\ past.failed \subseteq past'.failed /\ (again \/ j \in past'.failed)
  BY <1>1, <1>3, ChildTypes, HistoryGrows DEF History
<1>9. ChildGoes(k, j, new)
  BY <1>1, <1>2, <1>6, <1>7, <1>8, ChildTypes DEF ChildGoes, ConversionFails, outside
<1>10. row'[j] = failed
  BY <1>2 DEF LinkInv, Shapes
<1>11. KeepsParsing(k, j, new)
  <2>1. CASE again
    BY <1>7, <2>1 DEF KeepsParsing, Returns
  <2>2. CASE status = "FAILED"
    BY <1>6, <1>10, <2>2 DEF KeepsParsing, InParser
  <2> QED BY <1>4, <2>1, <2>2
<1>12. KeepsDelivering(k, j, new)
  BY <1>7, <1>8, IsSettled DEF KeepsDelivering, Leads, Returns
<1> QED BY <1>1, <1>9, <1>11, <1>12 DEF ChildMoves

(* A conversion that succeeds goes on to publish.                          *)
LEMMA ConvertMoves ==
  ASSUME LinkInv, NEW k \in Children, NEW j \in Jobs, child[k].job = j, Convert(k)
  PROVE  ChildMoves(k, j)
<1> DEFINE queued == [LatestJob(k) EXCEPT !.status = "DISPATCH_QUEUED", !.pid = NoChild]
           new == [child[k] EXCEPT !.at = "publishing", !.copy = queued, !.own = "queued"]
<1>1. child[k].at = "converting" /\ child[k] \in Process
  BY ChildTypes DEF Convert
<1>2. child' = [child EXCEPT ![k] = new] /\ row' = [row EXCEPT ![j] = queued]
  BY DEF Convert, JobOf
<1>3. queued \in Row /\ queued.status = "DISPATCH_QUEUED"
  <2>1. LatestJob(k) \in Row
    BY <1>1, LatestJobIsRow
  <2>2. "DISPATCH_QUEUED" \in Statuses
    BY DEF Statuses
  <2> QED BY <2>1, <2>2, RowMoves
<1> HIDE DEF queued
<1>4. new \in Process /\ ProcessIsSound(new) /\ new.at = "publishing" /\ new.job = j
  BY <1>1, <1>3 DEF Process, ProcessIsSound
<1> HIDE DEF new
<1>5. ChildGoes(k, j, new)
  BY <1>1, <1>2, <1>3, <1>4, ChildTypes DEF ChildGoes, Convert, outside
<1>6. KeepsParsing(k, j, new) /\ KeepsDelivering(k, j, new)
  <2>1. row'[j] = queued
    BY <1>2 DEF LinkInv, Shapes
  <2> QED BY <1>3, <1>4, <2>1 DEF KeepsParsing, KeepsDelivering, Leads, InParser
<1> QED BY <1>1, <1>5, <1>6 DEF ChildMoves

(* The dispatch message is sent.                                           *)
LEMMA EnqueueDispatchJobMoves ==
  ASSUME LinkInv, NEW k \in Children, NEW j \in Jobs, child[k].job = j, EnqueueDispatchJob(k)
  PROVE  ChildMoves(k, j)
<1> DEFINE new == [child[k] EXCEPT !.at = "saving"]
<1>1. child[k].at = "publishing" /\ child[k] \in Process
  BY ChildTypes DEF EnqueueDispatchJob
<1>2. child' = [child EXCEPT ![k] = new]
  BY DEF EnqueueDispatchJob, LinkInv, Shapes
<1>3. new \in Process /\ ProcessIsSound(new) /\ new.at = "saving" /\ new.job = j
  BY <1>1, ChildTypes DEF Process, ProcessIsSound
<1> HIDE DEF new
<1>4. ChildGoes(k, j, new)
  BY <1>1, <1>2, <1>3, ChildTypes DEF ChildGoes, EnqueueDispatchJob, outside, JobOf
<1>5. dispatchQueue'[j] > 0
  BY <1>1 DEF EnqueueDispatchJob, JobOf, LinkInv, Shapes
<1>6. KeepsParsing(k, j, new) /\ KeepsDelivering(k, j, new)
  BY <1>1, <1>5 DEF KeepsParsing, KeepsDelivering, EnqueueDispatchJob, Returns
<1> QED BY <1>1, <1>4, <1>6 DEF ChildMoves

(* The dispatch message could not be sent: the history says so.            *)
LEMMA DispatchJobUnsentMoves ==
  ASSUME LinkInv, NEW k \in Children, NEW j \in Jobs, child[k].job = j, DispatchJobUnsent(k)
  PROVE  ChildMoves(k, j)
<1> DEFINE failed == [child[k].copy EXCEPT !.status = "RETRYABLE_FAILURE"]
           new == [child[k] EXCEPT !.at = "saving", !.copy = failed]
<1>1. child[k].at = "publishing" /\ child[k] \in Process /\ child[k].copy \in Row
  BY ChildTypes DEF DispatchJobUnsent, ProcessIsSound
<1>2. child' = [child EXCEPT ![k] = new] /\ row' = [row EXCEPT ![j] = failed]
  BY DEF DispatchJobUnsent, JobOf
<1>3. failed \in Row /\ failed.status = "RETRYABLE_FAILURE"
  BY <1>1, RowChanges DEF Statuses
<1> HIDE DEF failed
<1>4. new \in Process /\ ProcessIsSound(new) /\ new.at = "saving" /\ new.job = j
  BY <1>1, <1>3 DEF Process, ProcessIsSound
<1> HIDE DEF new
<1>5. past' = [past EXCEPT !.unpublished = @ \union {j}] /\ past \in History
  BY ChildTypes DEF DispatchJobUnsent, JobOf
<1>6. /\ past' \in History /\ UNCHANGED <<past.orphaned, past.resent>> /\ past'.removed = past.removed
      /\ past'.delivered = past.delivered /\ past'.failed = past.failed
      /\ past'.unpublished = past.unpublished \union {j}
  BY <1>1, <1>5, HistoryGrows DEF History
<1>7. faults' \in 0..MaxFaults
  BY ChildTypes, DramatiqBounds DEF DispatchJobUnsent, Fault
<1>8. ChildGoes(k, j, new)
  BY <1>1, <1>2, <1>3, <1>4, <1>6, <1>7 DEF ChildGoes, DispatchJobUnsent, outside
<1>9. row'[j] = failed
  BY <1>2 DEF LinkInv, Shapes
<1>10. KeepsParsing(k, j, new) /\ KeepsDelivering(k, j, new)
  BY <1>3, <1>6, <1>9, IsSettled DEF KeepsParsing, KeepsDelivering, InParser
<1> QED BY <1>1, <1>8, <1>10 DEF ChildMoves

(* The second save keeps the row out of the parser's hands.                *)
LEMMA SaveAgainMoves ==
  ASSUME LinkInv, NEW k \in Children, NEW j \in Jobs, child[k].job = j, SaveAgain(k)
  PROVE  ChildMoves(k, j)
<1> DEFINE new == [child[k] EXCEPT !.at = "ending", !.copy = NoRow]
<1>1. /\ child[k].at = "saving" /\ child[k] \in Process /\ child[k].copy \in Row
      /\ child[k].copy.status \in {"DISPATCH_QUEUED", "RETRYABLE_FAILURE"}
  BY ChildTypes DEF SaveAgain, ProcessIsSound
<1>2. child' = [child EXCEPT ![k] = new] /\ row' = [row EXCEPT ![j] = child[k].copy]
  BY DEF SaveAgain, JobOf
<1>3. new \in Process /\ ProcessIsSound(new) /\ new.at = "ending" /\ new.job = j
  BY <1>1 DEF Process, ProcessIsSound
<1> HIDE DEF new
<1>4. ChildGoes(k, j, new)
  BY <1>1, <1>2, <1>3, ChildTypes DEF ChildGoes, SaveAgain, outside
<1>5. KeepsParsing(k, j, new) /\ KeepsDelivering(k, j, new)
  <2>1. row'[j] = child[k].copy
    BY <1>2 DEF LinkInv, Shapes
  <2> QED BY <1>1, <2>1 DEF KeepsParsing, KeepsDelivering, Leads, Returns, InParser
<1> QED BY <1>1, <1>4, <1>5 DEF ChildMoves

(* A dispatcher thread of the process changes its own place, the row, or   *)
(* what has been delivered.                                                *)
LEMMA OwnThreadMoves ==
  ASSUME LinkInv, NEW k \in Children, NEW j \in Jobs, child[k].job = j,
         OwnThread(k) \/ OwnDeliveryFails(k)
  PROVE  ChildMoves(k, j)
<1> DEFINE Outcomes == {"DISPATCHING", "COMPLETED", "DISPATCH_QUEUED", "FAILED"}
<1>1. child[k].at = "ending" /\ child[k] \in Process /\ row[j] \in Row \union {NoRow}
  BY ChildTypes DEF OwnThread, OwnClaim, OwnDeliver, OwnComplete, OwnDeliveryFails
<1>2. PICK own \in {"none", "queued", "claimed", "delivered"} : child' = [child EXCEPT ![k].own = own]
  BY DEF OwnThread, OwnClaim, OwnDeliver, OwnComplete, OwnDeliveryFails
<1> DEFINE new == [child[k] EXCEPT !.own = own]
<1>3. child' = [child EXCEPT ![k] = new]
  BY <1>2 DEF LinkInv, Shapes
<1>4. /\ new \in Process /\ ProcessIsSound(new) /\ new.at = "ending" /\ new.job = j
      /\ new.retry = child[k].retry
  BY <1>1 DEF Process, ProcessIsSound
<1> HIDE DEF new
<1>5. UNCHANGED row \/ \E r \in Row : /\ row' = [row EXCEPT ![j] = r]
                                      /\ r.status \in Outcomes
  <2>1. CASE UNCHANGED row
    BY <2>1
  <2>2. ASSUME NEW status \in Outcomes, row[j] # NoRow,
               row' = [row EXCEPT ![j].status = status]
        PROVE  \E r \in Row : row' = [row EXCEPT ![j] = r] /\ r.status = status
    <3> DEFINE r == [row[j] EXCEPT !.status = status]
    <3>1. r \in Row /\ r.status = status
      <4>1. row[j] \in Row /\ status \in Statuses
        BY <1>1, <2>2 DEF Statuses
      <4> QED BY <4>1, RowChanges
    <3>2. row' = [row EXCEPT ![j] = r]
      BY <2>2 DEF LinkInv, Shapes
    <3> QED BY <3>1, <3>2
  <2>3. UNCHANGED row \/ \E status \in Outcomes :
                           row[j] # NoRow /\ row' = [row EXCEPT ![j].status = status]
    BY DEF OwnThread, OwnClaim, OwnDeliver, OwnComplete, OwnDeliveryFails, JobOf
  <2> QED BY <2>2, <2>3
<1>6. UNCHANGED <<api, parserQueue, parent, sender, dispatchQueue>> /\ faults' \in 0..MaxFaults
  BY ChildTypes, DramatiqBounds
     DEF OwnThread, OwnClaim, OwnDeliver, OwnComplete, OwnDeliveryFails, outside, Fault
<1>7. past' = past \/ past' = [past EXCEPT !.delivered = @ \union {j}]
  BY DEF OwnThread, OwnClaim, OwnDeliver, OwnComplete, OwnDeliveryFails, JobOf
<1>8. /\ past' \in History /\ UNCHANGED <<past.orphaned, past.resent>> /\ past'.removed = past.removed
      /\ past.delivered \subseteq past'.delivered /\ past'.failed = past.failed
      /\ past'.unpublished = past.unpublished
  <2>1. past \in History
    BY ChildTypes
  <2>2. CASE past' = past
    BY <2>1, <2>2
  <2>3. CASE past' = [past EXCEPT !.delivered = @ \union {j}]
    BY <1>1, <2>1, <2>3, ChildTypes, HistoryGrows DEF History
  <2> QED BY <1>7, <2>2, <2>3
<1>9. ChildGoes(k, j, new)
  BY <1>3, <1>4, <1>5, <1>6, <1>8, ChildTypes DEF ChildGoes
<1>10. row'[j] = row[j] \/ row'[j].status \in Outcomes
  BY <1>5 DEF LinkInv, Shapes
<1>11. KeepsParsing(k, j, new) /\ KeepsDelivering(k, j, new)
  BY <1>1, <1>4, <1>10 DEF KeepsParsing, KeepsDelivering, Leads, Returns, InParser
<1> QED BY <1>1, <1>9, <1>11 DEF ChildMoves

(* A process ends, with a result for its actor, without one, or unseen.    *)
LEMMA EndMoves ==
  ASSUME LinkInv, NEW k \in Children, NEW j \in Jobs, child[k].job = j,
         End(k) \/ Reap(k) \/ ChildDies(k)
  PROVE  ChildMoves(k, j)
<1>1. child[k].at # "none" /\ child[k] \in Process
  BY ChildTypes DEF End, Reap, ChildDies, Alive
<1>2. UNCHANGED <<api, parserQueue, parent, sender, row, dispatchQueue, past>>
  BY DEF End, Reap, ChildDies, outside
<1>3. faults' \in 0..MaxFaults
  BY ChildTypes, DramatiqBounds DEF End, Reap, ChildDies, Fault
<1>4. ASSUME NEW new, child' = [child EXCEPT ![k] = new], new \in Process, ProcessIsSound(new),
             IF new.at = "none" THEN Orphan(k) ELSE new.job = j,
             Orphan(k) \/ (Returns(child[k]) => Returns(new)),
             Orphan(k) \/ (Leads(child[k]) => Leads(new))
      PROVE  ChildMoves(k, j)
  <2>1. ChildGoes(k, j, new)
    BY <1>2, <1>3, <1>4, ChildTypes DEF ChildGoes
  <2>2. KeepsParsing(k, j, new) /\ KeepsDelivering(k, j, new)
    BY <1>2, <1>4 DEF KeepsParsing, KeepsDelivering
  <2> QED BY <1>1, <2>1, <2>2 DEF ChildMoves
<1>5. CASE Orphan(k) /\ child' = [child EXCEPT ![k] = NoProcess]
  BY <1>4, <1>5, FreeSlots DEF NoProcess
<1>6. CASE End(k) /\ ~Orphan(k)
  <2> DEFINE new == [child[k] EXCEPT !.at = "done", !.own = "none"]
  <2>1. child' = [child EXCEPT ![k] = new]
    BY <1>6 DEF End, LinkInv, Shapes
  <2>2. /\ new \in Process /\ ProcessIsSound(new) /\ new.at = "done" /\ new.job = j
        /\ new.retry = child[k].retry /\ child[k].at = "ending"
    BY <1>1, <1>6, ChildTypes DEF Process, ProcessIsSound, End
  <2> HIDE DEF new
  <2> QED BY <1>4, <2>1, <2>2 DEF Returns, Leads
<1>7. CASE ChildDies(k) /\ ~Orphan(k)
  <2> DEFINE new == [child[k] EXCEPT !.at = "vanished"]
  <2>1. child' = [child EXCEPT ![k] = new]
    BY <1>7 DEF ChildDies, LinkInv, Shapes
  <2>2. new \in Process /\ ProcessIsSound(new) /\ new.at = "vanished" /\ new.job = j
    BY <1>1, ChildTypes DEF Process, ProcessIsSound
  <2> HIDE DEF new
  <2> QED BY <1>4, <2>1, <2>2 DEF Returns, Leads
<1>8. Orphan(k) => child' = [child EXCEPT ![k] = NoProcess]
  BY DEF End, Reap, ChildDies, LinkInv, Shapes
<1> QED BY <1>5, <1>6, <1>7, <1>8 DEF Reap

(* Every step of a process, its threads and its death.                     *)
LEMMA ChildSteps ==
  ASSUME LinkInv, TokenInv, NEW k \in Children,
         \/ Child(k) \/ OwnThread(k) \/ OwnDeliveryFails(k)
         \/ DispatchJobUnsent(k) \/ ChildDies(k)
  PROVE  \E j \in Jobs : ChildMoves(k, j)
<1>1. child[k].at # "none"
  BY DEF Child, Start, ConversionFails, Convert, EnqueueDispatchJob, SaveAgain, End, Reap,
         OwnThread, OwnClaim, OwnDeliver, OwnComplete, OwnDeliveryFails, DispatchJobUnsent, ChildDies, Alive
<1>2. PICK j \in Jobs : child[k].job = j
  BY <1>1, ChildTypes
<1> QED BY <1>2, StartMoves, ConversionFailsMoves, ConvertMoves, EnqueueDispatchJobMoves,
           DispatchJobUnsentMoves, SaveAgainMoves, OwnThreadMoves, EndMoves DEF Child

(* The links stay.                                                         *)
LEMMA ChildLinks ==
  ASSUME LinkInv, NEW k \in Children, NEW j \in Jobs, ChildMoves(k, j)
  PROVE  LinkInv'
<1>1. PICK new : ChildGoes(k, j, new)
  BY DEF ChildMoves
<1>2. /\ child' \in [Children -> Process] /\ WatchedByOne'
      /\ \A l \in Children : ProcessIsSound(child'[l])
      /\ \A p \in Parents : ActorIsSound(parent[p])'
  <2>1. (\E p \in Parents : parent[p].child = k) => new.at # "none" /\ new.job = child[k].job
    BY <1>1 DEF ChildGoes, Orphan, ChildMoves
  <2> QED BY <1>1, <2>1, ProcessChanges DEF ChildGoes
<1>3. row' \in [Jobs -> Row \union {NoRow}] /\ dispatchQueue' \in [Jobs -> Nat]
  BY <1>1 DEF ChildGoes, LinkInv, Shapes
<1> QED BY <1>1, <1>2, <1>3 DEF ChildGoes, LinkInv, Shapes

----------------------------------------------------------------------------
(* The dispatch actors *)

(* An actor changes the row of its job to a status of dispatching, and the *)
(* job stays with a message or an actor until it is delivered.             *)
SenderMoves(d, j) ==
  /\ UNCHANGED <<api, parserQueue, parent, child>>
  /\ \E status \in {"free", "claimed", "delivered", "completed"} :
       sender' = [sender EXCEPT ![d] =
                    [at |-> status, job |-> IF status = "free" THEN NoJob ELSE j]]
  /\ dispatchQueue' \in [Jobs -> Nat]
  /\ \A i \in Jobs \ {j} : dispatchQueue'[i] = dispatchQueue[i]
  /\ sender[d].at # "free" => sender[d].job = j
  /\ \/ UNCHANGED row
     \/ \E r \in Row : /\ row' = [row EXCEPT ![j] = r] /\ row[j] # NoRow
                       /\ r.status \in {"DISPATCHING", "COMPLETED", "DISPATCH_QUEUED"}
  /\ faults' \in 0..MaxFaults
  /\ past' \in History /\ UNCHANGED <<past.orphaned, past.resent>> /\ past'.removed = past.removed
  /\ past.delivered \subseteq past'.delivered
  /\ past'.failed = past.failed /\ past'.unpublished = past.unpublished
  /\ dispatchQueue[j] > 0 \/ sender[d].at = "claimed" =>
       \/ dispatchQueue'[j] > 0 \/ sender'[d].at = "claimed"
       \/ j \in past'.delivered \/ row[j] = NoRow

(* A row with a status of dispatching.                                     *)
LEMMA RowIsDispatched ==
  ASSUME LinkInv, NEW j \in Jobs, row[j] # NoRow,
         NEW status \in {"DISPATCHING", "COMPLETED", "DISPATCH_QUEUED"},
         row' = [row EXCEPT ![j].status = status]
  PROVE  \E r \in Row : row' = [row EXCEPT ![j] = r] /\ r.status = status
<1> DEFINE r == [row[j] EXCEPT !.status = status]
<1>1. r \in Row /\ r.status = status
  <2>1. row[j] \in Row /\ status \in Statuses
    BY DEF Statuses, LinkInv, Shapes
  <2> QED BY <2>1, RowChanges
<1>2. row' = [row EXCEPT ![j] = r]
  BY DEF LinkInv, Shapes
<1> QED BY <1>1, <1>2

(* An actor takes a message, or drops that of a removed job.               *)
LEMMA TakeItemMoves ==
  ASSUME LinkInv, NEW d \in Senders, TakeItem(d)
  PROVE  \E j \in Jobs : SenderMoves(d, j)
<1>1. PICK j \in Jobs :
        /\ dispatchQueue[j] > 0 /\ dispatchQueue' = [dispatchQueue EXCEPT ![j] = @ - 1]
        /\ IF row[j] = NoRow THEN UNCHANGED <<row, sender>>
           ELSE /\ row' = [row EXCEPT ![j].status = "DISPATCHING"]
                /\ sender' = [sender EXCEPT ![d] = [at |-> "claimed", job |-> j]]
  BY DEF TakeItem
<1>2. UNCHANGED <<api, parserQueue, parent, child, faults, past>> /\ sender[d].at = "free"
  BY DEF TakeItem, around
<1>3. dispatchQueue' \in [Jobs -> Nat] /\ \A i \in Jobs \ {j} : dispatchQueue'[i] = dispatchQueue[i]
  BY <1>1 DEF LinkInv, Shapes
<1>4. past \in History /\ faults \in 0..MaxFaults
  BY DEF LinkInv, Shapes
<1>5. CASE row[j] = NoRow
  <2>1. sender' = [sender EXCEPT ![d] = [at |-> "free", job |-> NoJob]]
    BY <1>1, <1>2, <1>5 DEF LinkInv, Shapes
  <2> QED BY <1>1, <1>2, <1>3, <1>4, <1>5, <2>1 DEF SenderMoves
<1>6. CASE row[j] # NoRow
  <2>1. \E r \in Row : row' = [row EXCEPT ![j] = r] /\ r.status = "DISPATCHING"
    BY <1>1, <1>6, RowIsDispatched
  <2>2. sender'[d].at = "claimed"
    BY <1>1, <1>6 DEF LinkInv, Shapes
  <2> QED BY <1>1, <1>2, <1>3, <1>4, <1>6, <2>1, <2>2 DEF SenderMoves
<1> QED BY <1>5, <1>6

(* An actor delivers, completes, fails or dies.                            *)
LEMMA DeliveryMoves ==
  ASSUME LinkInv, NEW d \in Senders,
         Deliver(d) \/ Complete(d) \/ AcknowledgeItem(d) \/ DeliveryFails(d) \/ SenderDies(d)
  PROVE  \E j \in Jobs : SenderMoves(d, j)
<1>1. PICK j \in Jobs : sender[d].job = j /\ sender[d].at # "free"
  BY DEF LinkInv, Shapes, Deliver, Complete, AcknowledgeItem, DeliveryFails, SenderDies
<1>2. /\ UNCHANGED <<api, parserQueue, parent, child>> /\ past \in History
      /\ dispatchQueue \in [Jobs -> Nat]
      /\ sender[d] \in [at : {"free", "claimed", "delivered", "completed"}, job : Jobs \union {NoJob}]
  BY DEF Deliver, Complete, AcknowledgeItem, DeliveryFails, SenderDies, around, LinkInv, Shapes
<1>3. faults' \in 0..MaxFaults
  BY DramatiqBounds DEF Deliver, Complete, AcknowledgeItem, DeliveryFails, SenderDies, Fault, LinkInv, Shapes
<1>4. CASE Deliver(d)
  <2>1. sender' = [sender EXCEPT ![d] = [at |-> "delivered", job |-> j]]
    <3>1. [sender[d] EXCEPT !.at = "delivered"] = [at |-> "delivered", job |-> j]
      BY <1>1, <1>2
    <3>2. sender' = [sender EXCEPT ![d] = [sender[d] EXCEPT !.at = "delivered"]]
      BY <1>4 DEF Deliver, LinkInv, Shapes
    <3> QED BY <3>1, <3>2
  <2>2. /\ past' \in History /\ UNCHANGED <<past.orphaned, past.resent>> /\ past'.removed = past.removed
        /\ past'.delivered = past.delivered \union {j} /\ past'.failed = past.failed
        /\ past'.unpublished = past.unpublished
    BY <1>1, <1>2, <1>4, HistoryGrows DEF Deliver, History
  <2> QED BY <1>1, <1>2, <1>3, <1>4, <2>1, <2>2 DEF SenderMoves, Deliver
<1>5. CASE Complete(d)
  <2>1. UNCHANGED row \/ \E r \in Row : /\ row' = [row EXCEPT ![j] = r] /\ row[j] # NoRow
                                        /\ r.status = "COMPLETED"
    BY <1>1, <1>5, RowIsDispatched DEF Complete
  <2>2. sender' = [sender EXCEPT ![d] = [at |-> "completed", job |-> j]]
    <3>1. [sender[d] EXCEPT !.at = "completed"] = [at |-> "completed", job |-> j]
      BY <1>1, <1>2
    <3>2. sender' = [sender EXCEPT ![d] = [sender[d] EXCEPT !.at = "completed"]]
      BY <1>5 DEF Complete, LinkInv, Shapes
    <3> QED BY <3>1, <3>2
  <2> QED BY <1>1, <1>2, <1>3, <1>5, <2>1, <2>2 DEF SenderMoves, Complete
<1>6. CASE DeliveryFails(d)
  <2>1. UNCHANGED row \/ \E r \in Row : /\ row' = [row EXCEPT ![j] = r] /\ row[j] # NoRow
                                        /\ r.status = "DISPATCH_QUEUED"
    BY <1>1, <1>6, RowIsDispatched DEF DeliveryFails
  <2>2. /\ dispatchQueue' \in [Jobs -> Nat] /\ dispatchQueue'[j] > 0
        /\ \A i \in Jobs \ {j} : dispatchQueue'[i] = dispatchQueue[i]
    BY <1>1, <1>2, <1>6 DEF DeliveryFails
  <2> QED BY <1>1, <1>2, <1>3, <1>6, <2>1, <2>2 DEF SenderMoves, DeliveryFails, FreeSender
<1>7. CASE SenderDies(d)
  <2>1. /\ dispatchQueue' \in [Jobs -> Nat] /\ dispatchQueue'[j] > 0
        /\ \A i \in Jobs \ {j} : dispatchQueue'[i] = dispatchQueue[i]
    BY <1>1, <1>2, <1>7 DEF SenderDies
  <2> QED BY <1>1, <1>2, <1>3, <1>7, <2>1 DEF SenderMoves, SenderDies, FreeSender
<1>8. CASE AcknowledgeItem(d)
  BY <1>1, <1>2, <1>3, <1>8 DEF SenderMoves, AcknowledgeItem, FreeSender
<1> QED BY <1>4, <1>5, <1>6, <1>7, <1>8

(* The links stay.                                                         *)
LEMMA SenderLinks ==
  ASSUME LinkInv, NEW d \in Senders, NEW j \in Jobs, SenderMoves(d, j)
  PROVE  LinkInv'
<1>1. row' \in [Jobs -> Row \union {NoRow}]
  BY DEF SenderMoves, LinkInv, Shapes
<1>2. /\ sender' \in [Senders -> [at : {"free", "claimed", "delivered", "completed"}, job : Jobs \union {NoJob}]]
      /\ \A e \in Senders : sender'[e].at = "free" <=> sender'[e].job = NoJob
  BY AbsenceIsNothing DEF SenderMoves, LinkInv, Shapes
<1>3. UNCHANGED <<parent, child, api, parserQueue>>
  BY DEF SenderMoves
<1> QED BY <1>1, <1>2, <1>3 DEF SenderMoves, LinkInv, Shapes, WatchedByOne, ActorIsSound

----------------------------------------------------------------------------
(* The links hold in every state *)

(* Every step is one of these.                                             *)
LEMMA StepKinds ==
  ASSUME LinkInv, TokenInv, Next
  PROVE  \/ \E j \in Jobs : Api(j) \/ ParserJobUnsent(j)
         \/ \E j \in Jobs : RemoveJob(j)
         \/ \E p \in Parents : Receive(p)
         \/ \E p \in Parents : TakeResult(p) \/ Republish(p) \/ Acknowledge(p)
                               \/ TimeLimit(p) \/ ParentDies(p)
         \/ \E k \in Children, j \in Jobs : ChildMoves(k, j)
         \/ \E d \in Senders, j \in Jobs : SenderMoves(d, j)
BY ChildSteps, TakeItemMoves, DeliveryMoves DEF Next, Parent, Sender, Faults

(* Every step keeps the links.                                             *)
LEMMA LinksStay ==
  ASSUME LinkInv, TokenInv, [Next]_vars
  PROVE  LinkInv'
<1>1. CASE Next
  <2>1. ASSUME NEW p \in Parents, TakeResult(p) \/ Republish(p) \/ Acknowledge(p)
                                  \/ TimeLimit(p) \/ ParentDies(p)
        PROVE  LinkInv'
    BY <2>1, Leavings, ActorLinks
  <2> QED BY <1>1, <2>1, StepKinds, ApiLinks, RemovalLinks, ReceiveLinks, ChildLinks, SenderLinks
<1>2. CASE UNCHANGED vars
  BY <1>2 DEF vars, LinkInv, Shapes, WatchedByOne, ActorIsSound
<1> QED BY <1>1, <1>2

----------------------------------------------------------------------------
(* Messages do not multiply *)

(* The actors with a message of a job can be counted.                      *)
LEMMA OpenIsFinite ==
  ASSUME NEW j \in Jobs
  PROVE  IsFiniteSet(Open(j)) /\ Cardinality(Open(j)) \in Nat
BY ParentsAreFinite, FS_Subset, FS_CardinalityType DEF Open, Holders

(* Steps that leave messages and actors alone.                             *)
LEMMA TokensKept ==
  ASSUME TokenInv, UNCHANGED <<api, parserQueue, parent>>, UNCHANGED <<past.orphaned, past.resent>>,
         past.removed \subseteq past'.removed,
         \A j \in Jobs : row'[j] = NoRow => row[j] = NoRow \/ j \in past'.removed
  PROVE  TokenInv'
BY DEF TokenInv, RequestIsSound, Open, Holders

(* An actor takes the message it holds from the queue.                     *)
LEMMA ReceiveTokens ==
  ASSUME LinkInv, TokenInv, NEW p \in Parents, Receive(p)
  PROVE  TokenInv'
<1>1. PICK j \in Jobs, k \in Children :
        /\ parserQueue[j] > 0 /\ parserQueue' = [parserQueue EXCEPT ![j] = @ - 1]
        /\ parent' = [parent EXCEPT ![p] = [at |-> "watching", job |-> j, child |-> k]]
  BY DEF Receive
<1>2. UNCHANGED <<row, api, past>> /\ parent[p].job = NoJob
  BY DEF Receive, LinkInv, Shapes, ActorIsSound
<1>3. ASSUME NEW i \in Jobs, i # j
      PROVE  Open(i)' = Open(i) /\ Holders(i)' = Holders(i) /\ parserQueue'[i] = parserQueue[i]
  BY <1>1, <1>2, <1>3, AbsenceIsNothing DEF Open, Holders, LinkInv, Shapes
<1>4. Open(j)' = Open(j) \union {p} /\ p \notin Open(j)
  BY <1>1, <1>2, AbsenceIsNothing DEF Open, Holders, LinkInv, Shapes
<1>5. Cardinality(Open(j)') = Cardinality(Open(j)) + 1
  BY <1>4, OpenIsFinite, FS_AddElement
<1>6. parserQueue'[j] = parserQueue[j] - 1 /\ parserQueue[j] \in Nat
  BY <1>1 DEF LinkInv, Shapes
<1>7. api[j] = "answered"
  BY <1>1, <1>6 DEF TokenInv, RequestIsSound
<1>8. ASSUME NEW i \in Jobs
      PROVE  /\ RequestIsSound(i)'
             /\ parserQueue'[i] + Cardinality(Open(i)') <= 1 + past'.resent
  <2>1. CASE i = j
    BY <1>2, <1>5, <1>6, <1>7, <2>1, OpenIsFinite
       DEF TokenInv, RequestIsSound, LinkInv, Shapes, History
  <2>2. CASE i # j
    BY <1>2, <1>3, <2>2 DEF TokenInv, RequestIsSound
  <2> QED BY <2>1, <2>2
<1> QED BY <1>8 DEF TokenInv

(* An actor that leaves gives up the message it has, or has given it up    *)
(* before, or the history says that there are two.                         *)
LEMMA LeavingTokens ==
  ASSUME LinkInv, TokenInv, NEW p \in Parents, NEW j \in Jobs, parent[p].job = j,
         TakeResult(p) \/ Republish(p) \/ Acknowledge(p) \/ TimeLimit(p) \/ ParentDies(p)
  PROVE  TokenInv'
<1>1. PICK new \in {FreeParent, Retries(p), Sent(p), Finishes(p)} : ActorLeaves(p, new)
  BY Leavings
<1>2. /\ parent[p].at # "free" /\ UNCHANGED <<row, api>> /\ j # NoJob
      /\ parent' = [parent EXCEPT ![p] = new] /\ new.job \in {j, NoJob}
  <2>1. parent' = [parent EXCEPT ![p] = new]
    BY <1>1 DEF ActorLeaves
  <2>2. new.job \in {j, NoJob}
    BY <1>1 DEF FreeParent, Retries, Sent, Finishes
  <2> QED BY <2>1, <2>2, Leavings, AbsenceIsNothing
<1>3. /\ past'.removed = past.removed /\ past.resent \in Nat
      /\ past'.resent = past.resent +
           (IF (TimeLimit(p) \/ ParentDies(p)) /\ parent[p].at = "republished" THEN 1 ELSE 0)
  <2>1. past \in History
    BY DEF LinkInv, Shapes
  <2>2. CASE TimeLimit(p) \/ ParentDies(p)
    <3>1. /\ past'.removed = past.removed
          /\ past'.resent = past.resent + (IF parent[p].at = "republished" THEN 1 ELSE 0)
      BY <2>2, EndIsNoted
    <3>2. past.resent \in Nat
      BY <2>1 DEF History
    <3> QED BY <2>2, <3>1, <3>2
  <2>3. CASE ~(TimeLimit(p) \/ ParentDies(p))
    BY <2>1, <2>3 DEF TakeResult, Republish, Acknowledge, History
  <2> QED BY <2>2, <2>3
<1>4. ASSUME NEW i \in Jobs, i # j
      PROVE  Open(i)' = Open(i) /\ Holders(i)' = Holders(i) /\ parserQueue'[i] = parserQueue[i]
  <2>1. Holders(i)' = Holders(i) /\ Open(i)' = Open(i)
    BY <1>2, <1>4, AbsenceIsNothing DEF Open, Holders, LinkInv, Shapes
  <2>2. parserQueue'[i] = parserQueue[i]
    BY <1>1, <1>4 DEF ActorLeaves, LinkInv, Shapes
  <2> QED BY <2>1, <2>2
<1>5. Open(j)' = IF new.at \in {"republish", "acknowledge"} THEN Open(j) \union {p} ELSE Open(j) \ {p}
  <2>1. \A q \in Parents : q # p => parent'[q] = parent[q]
    BY <1>2 DEF LinkInv, Shapes
  <2>2. parent'[p] = new
    BY <1>2 DEF LinkInv, Shapes
  <2>3. new.job = j /\ new.at # "republished" <=> new.at \in {"republish", "acknowledge"}
    BY <1>2 DEF FreeParent, Retries, Sent, Finishes
  <2> QED BY <2>1, <2>2, <2>3 DEF Open, Holders
<1>6. p \in Holders(j) /\ (p \in Open(j) <=> parent[p].at # "republished")
  BY DEF Open, Holders
<1>7. /\ parserQueue[j] \in Nat
      /\ parserQueue'[j] = parserQueue[j] \/ parserQueue'[j] = parserQueue[j] + 1
  BY <1>1 DEF ActorLeaves, LinkInv, Shapes
<1>8. new.at \in {"republish", "acknowledge"} => p \in Open(j) /\ parserQueue'[j] = parserQueue[j]
  <2>1. parent'[p] = new
    BY <1>2 DEF LinkInv, Shapes
  <2>2. CASE TakeResult(p)
    BY <1>6, <2>1, <2>2 DEF TakeResult, FreeParent, LinkInv, Shapes
  <2>3. CASE Republish(p) \/ Acknowledge(p) \/ TimeLimit(p) \/ ParentDies(p)
    BY <2>1, <2>3
       DEF Republish, Acknowledge, TimeLimit, ParentDies, FreeParent, LinkInv, Shapes, Actor
  <2> QED BY <2>2, <2>3
<1>9. parserQueue'[j] = parserQueue[j] + 1 => p \in Open(j) \/ past'.resent = past.resent + 1
  BY <1>3, <1>6, <1>7 DEF TakeResult, Republish, Acknowledge
<1>10. parserQueue'[j] + Cardinality(Open(j)') <= 1 + past'.resent
  <2>1. parserQueue[j] + Cardinality(Open(j)) <= 1 + past.resent
    BY DEF TokenInv
  <2>2. p \in Open(j) => Cardinality(Open(j) \ {p}) = Cardinality(Open(j)) - 1
    BY OpenIsFinite, FS_RemoveElement
  <2>3. p \notin Open(j) => Open(j) \ {p} = Open(j)
    OBVIOUS
  <2>4. p \in Open(j) => Open(j) \union {p} = Open(j)
    OBVIOUS
  <2>5. Cardinality(Open(j)') = IF new.at \in {"republish", "acknowledge"} \/ p \notin Open(j)
                                THEN Cardinality(Open(j)) ELSE Cardinality(Open(j)) - 1
    BY <1>5, <1>8, <2>2, <2>3, <2>4
  <2>6. parserQueue'[j] = parserQueue[j] \/ new.at \notin {"republish", "acknowledge"}
    BY <1>8
  <2> QED BY <1>3, <1>7, <1>8, <1>9, <2>1, <2>5, <2>6, OpenIsFinite
<1>11. api[j] = "answered"
  BY <1>6 DEF TokenInv, RequestIsSound, LinkInv, Shapes
<1>12. ASSUME NEW i \in Jobs
       PROVE  RequestIsSound(i)' /\ parserQueue'[i] + Cardinality(Open(i)') <= 1 + past'.resent
  <2>1. CASE i = j
    BY <1>2, <1>3, <1>10, <1>11, <2>1 DEF TokenInv, RequestIsSound
  <2>2. CASE i # j
    BY <1>2, <1>3, <1>4, <2>2, OpenIsFinite DEF TokenInv, RequestIsSound, LinkInv, Shapes
  <2> QED BY <2>1, <2>2
<1> QED BY <1>12 DEF TokenInv

(* A request that publishes has no message yet.                            *)
LEMMA ApiTokens ==
  ASSUME LinkInv, TokenInv, NEW j \in Jobs, Api(j) \/ ParserJobUnsent(j)
  PROVE  TokenInv'
<1>1. UNCHANGED <<past.orphaned, past.resent>> /\ past'.removed = past.removed /\ past.resent \in Nat
  BY DEF Api, SaveUpload, EnqueueParserJob, ParserJobUnsent, LinkInv, Shapes, History
<1>2. UNCHANGED parent
  BY DEF Api, SaveUpload, EnqueueParserJob, ParserJobUnsent
<1>3. \A i \in Jobs : Open(i)' = Open(i) /\ Holders(i)' = Holders(i)
  BY <1>2 DEF Open, Holders
<1>4. ASSUME NEW i \in Jobs, i # j
      PROVE  UNCHANGED <<row[i], api[i], parserQueue[i]>>
  BY <1>4 DEF Api, SaveUpload, EnqueueParserJob, ParserJobUnsent, LinkInv, Shapes
<1>5. Holders(j) = {} /\ parserQueue[j] = 0 /\ Cardinality(Open(j)) = 0
  <2>1. Holders(j) = {} /\ parserQueue[j] = 0
    BY DEF Api, SaveUpload, EnqueueParserJob, ParserJobUnsent, TokenInv, RequestIsSound
  <2> QED BY <2>1, FS_EmptySet DEF Open
<1>6. /\ parserQueue'[j] \in {0, 1} /\ (api'[j] # "answered" => parserQueue'[j] = 0)
      /\ row'[j] = NoRow => row[j] = NoRow /\ api[j] # "new"
  <2>1. CASE SaveUpload(j)
    BY <1>5, <2>1, DramatiqBounds, AbsenceIsNothing DEF SaveUpload, Row, Statuses, LinkInv, Shapes
  <2>2. CASE EnqueueParserJob(j)
    BY <1>5, <2>2 DEF EnqueueParserJob, LinkInv, Shapes
  <2>3. CASE ParserJobUnsent(j)
    BY <1>5, <2>3, DramatiqBounds, AbsenceIsNothing
       DEF ParserJobUnsent, Row, Statuses, LinkInv, Shapes
  <2> QED BY <2>1, <2>2, <2>3 DEF Api
<1>7. ASSUME NEW i \in Jobs
      PROVE  RequestIsSound(i)' /\ parserQueue'[i] + Cardinality(Open(i)') <= 1 + past'.resent
  <2>1. CASE i = j
    BY <1>1, <1>3, <1>5, <1>6, <2>1 DEF TokenInv, RequestIsSound
  <2>2. CASE i # j
    BY <1>1, <1>3, <1>4, <2>2 DEF TokenInv, RequestIsSound
  <2> QED BY <2>1, <2>2
<1> QED BY <1>7 DEF TokenInv

(* No messages at the start.                                               *)
LEMMA TokensStart == Init => TokenInv
<1> SUFFICES ASSUME Init, NEW j \in Jobs
             PROVE  RequestIsSound(j) /\ parserQueue[j] + Cardinality(Open(j)) <= 1 + past.resent
  BY DEF TokenInv
<1>1. Holders(j) = {} /\ Open(j) = {}
  BY AbsenceIsNothing DEF Init, Holders, Open, FreeParent
<1> QED BY <1>1, FS_EmptySet DEF Init, RequestIsSound

(* Every step keeps the count.                                             *)
LEMMA TokensStay ==
  ASSUME LinkInv, TokenInv, [Next]_vars
  PROVE  TokenInv'
<1>1. ASSUME NEW j \in Jobs, RemoveJob(j)
      PROVE  TokenInv'
  <2>1. UNCHANGED <<past.orphaned, past.resent>> /\ past'.removed = past.removed \union {j}
    BY <1>1 DEF RemoveJob, LinkInv, Shapes, History
  <2>2. \A i \in Jobs : row'[i] = NoRow => row[i] = NoRow \/ i \in past'.removed
    BY <1>1, <2>1 DEF RemoveJob, LinkInv, Shapes
  <2> QED BY <1>1, <2>1, <2>2, TokensKept DEF RemoveJob
<1>2. ASSUME NEW k \in Children, NEW j \in Jobs, ChildMoves(k, j)
      PROVE  TokenInv'
  <2>1. PICK new : ChildGoes(k, j, new)
    BY <1>2 DEF ChildMoves
  <2>2. \A i \in Jobs : row'[i] = NoRow => row[i] = NoRow
    BY <2>1, AbsenceIsNothing DEF ChildGoes, LinkInv, Shapes
  <2> QED BY <2>1, <2>2, TokensKept DEF ChildGoes
<1>3. ASSUME NEW d \in Senders, NEW j \in Jobs, SenderMoves(d, j)
      PROVE  TokenInv'
  <2>1. \A i \in Jobs : row'[i] = NoRow => row[i] = NoRow
    BY <1>3, AbsenceIsNothing DEF SenderMoves, LinkInv, Shapes
  <2> QED BY <1>3, <2>1, TokensKept DEF SenderMoves
<1>4. ASSUME NEW p \in Parents, TakeResult(p) \/ Republish(p) \/ Acknowledge(p)
                                \/ TimeLimit(p) \/ ParentDies(p)
      PROVE  TokenInv'
  <2>1. parent[p].job \in Jobs
    BY <1>4, Leavings, Watching
  <2> QED BY <1>4, <2>1, LeavingTokens
<1>5. CASE UNCHANGED vars
  BY <1>5 DEF vars, TokenInv, RequestIsSound, Open, Holders
<1> QED BY <1>1, <1>2, <1>3, <1>4, <1>5, ApiTokens, ReceiveTokens, StepKinds

----------------------------------------------------------------------------
(* Nobody is left behind *)

(* No processes at the start.                                              *)
LEMMA OrphansStart == Init => NoOrphans
BY DEF Init, NoOrphans, NoProcess

(* A process that begins is watched; an actor that leaves one has seen it  *)
(* end, or ended it, or died.                                              *)
LEMMA OrphansStay ==
  ASSUME LinkInv, TokenInv, NoOrphans, [Next]_vars
  PROVE  NoOrphans'
<1>1. past.orphaned \in Nat /\ past \in History
  BY DEF LinkInv, Shapes, History
<1>2. ASSUME NEW j \in Jobs, Api(j) \/ ParserJobUnsent(j)
      PROVE  NoOrphans'
  <2>1. UNCHANGED <<past.orphaned, past.resent>> /\ UNCHANGED <<parent, child>>
    BY <1>1, <1>2 DEF Api, SaveUpload, EnqueueParserJob, ParserJobUnsent, History
  <2> QED BY <2>1 DEF NoOrphans
<1>3. ASSUME NEW j \in Jobs, RemoveJob(j)
      PROVE  NoOrphans'
  <2>1. UNCHANGED <<past.orphaned, past.resent>> /\ UNCHANGED parent
    BY <1>1, <1>3 DEF RemoveJob, History
  <2>2. \A k \in Children : child[k].at = "none" => child'[k].at = "none"
    BY <1>3 DEF RemoveJob, Alive
  <2> QED BY <2>1, <2>2 DEF NoOrphans
<1>4. ASSUME NEW p \in Parents, Receive(p)
      PROVE  NoOrphans'
  <2>1. PICK j \in Jobs, k \in Children :
          /\ parent' = [parent EXCEPT ![p] = [at |-> "watching", job |-> j, child |-> k]]
          /\ child' = [child EXCEPT ![k] = [NoProcess EXCEPT !.at = "started", !.job = j]]
    BY <1>4 DEF Receive
  <2>2. UNCHANGED past /\ parent[p].child = NoChild
    BY <1>4 DEF Receive, LinkInv, Shapes, ActorIsSound
  <2>3. parent'[p].child = k /\ \A q \in Parents : q # p => parent'[q] = parent[q]
    BY <2>1 DEF LinkInv, Shapes
  <2>4. \A l \in Children : l # k => child'[l] = child[l]
    BY <2>1 DEF LinkInv, Shapes
  <2> QED BY <2>2, <2>3, <2>4, AbsenceIsNothing DEF NoOrphans
<1>5. ASSUME NEW p \in Parents, TakeResult(p) \/ Republish(p) \/ Acknowledge(p)
                                \/ TimeLimit(p) \/ ParentDies(p)
      PROVE  NoOrphans'
  <2>1. CASE ParentDies(p) /\ parent[p].at = "watching"
    BY <1>1, <2>1, EndIsNoted DEF NoOrphans
  <2>2. CASE ~(ParentDies(p) /\ parent[p].at = "watching")
    <3>1. past'.orphaned = past.orphaned
      BY <1>1, <1>5, <2>2, EndIsNoted DEF TakeResult, Republish, Acknowledge
    <3>2. \A q \in Parents : q # p => parent'[q] = parent[q]
      BY <1>5, Leavings DEF ActorLeaves, LinkInv, Shapes
    <3>3. PICK new : ActorLeaves(p, new)
      BY <1>5, Leavings
    <3>4. parent[p].at = "watching" => child'[parent[p].child].at = "none"
      <4>1. CASE TakeResult(p)
        BY <4>1, Watching DEF TakeResult, NoProcess, LinkInv, Shapes
      <4>2. CASE TimeLimit(p)
        <5> SUFFICES ASSUME parent[p].at = "watching"
                     PROVE  child'[parent[p].child].at = "none"
          OBVIOUS
        <5>1. /\ child' = [child EXCEPT ![parent[p].child] = NoProcess]
              /\ parent[p].child \in Children
          BY <4>2, TerminatedIsGone DEF TimeLimit
        <5> QED BY <5>1 DEF NoProcess, LinkInv, Shapes
      <4> QED BY <1>5, <2>2, <4>1, <4>2 DEF Republish, Acknowledge
    <3>5. parent[p].child = NoChild \/ parent[p].at = "watching"
      BY DEF LinkInv, ActorIsSound
    <3>6. \A k \in Children : child'[k].at # "none" => child[k].at # "none"
      BY <3>3, FreeSlots DEF ActorLeaves, LinkInv, Shapes, NoProcess
    <3> QED BY <3>1, <3>2, <3>4, <3>5, <3>6, AbsenceIsNothing DEF NoOrphans
  <2> QED BY <2>1, <2>2
<1>6. ASSUME NEW k \in Children, NEW j \in Jobs, ChildMoves(k, j)
      PROVE  NoOrphans'
  <2>1. PICK new : ChildGoes(k, j, new)
    BY <1>6 DEF ChildMoves
  <2>2. \A l \in Children : child'[l].at # "none" => child[l].at # "none"
    BY <1>6, <2>1 DEF ChildGoes, ChildMoves, LinkInv, Shapes
  <2> QED BY <2>1, <2>2 DEF NoOrphans, ChildGoes
<1>7. ASSUME NEW d \in Senders, NEW j \in Jobs, SenderMoves(d, j)
      PROVE  NoOrphans'
  BY <1>7 DEF NoOrphans, SenderMoves
<1>8. CASE UNCHANGED vars
  BY <1>8 DEF vars, NoOrphans
<1> QED BY <1>2, <1>3, <1>4, <1>5, <1>6, <1>7, <1>8, StepKinds

----------------------------------------------------------------------------
(* No job is dropped *)

(* A message or an actor that leads to a parse or a delivery.              *)
Carried(j) ==
  \/ parserQueue[j] > 0 \/ dispatchQueue[j] > 0
  \/ \E p \in Parents : parent[p].at = "republish" /\ parent[p].job = j
  \/ \E p \in Parents : Watches(p, j) /\ Leads(child[parent[p].child])
  \/ \E d \in Senders : sender[d].at = "claimed" /\ sender[d].job = j

(* Leading to a parse, or to a delivery.                                   *)
LEMMA CarriedBy ==
  ASSUME NEW j
  PROVE  /\ Carried(j) <=> WillParse(j) \/ WillDeliver(j)
         /\ Carried(j)' <=> WillParse(j)' \/ WillDeliver(j)'
BY DEF Carried, WillParse, WillDeliver, Leads

(* What happens to other jobs' messages and actors.                        *)
OthersStay(j) ==
  /\ parserQueue'[j] = parserQueue[j] /\ dispatchQueue'[j] = dispatchQueue[j]
  /\ \A p \in Parents : parent[p].job = j =>
       /\ parent'[p] = parent[p]
       /\ parent[p].at = "watching" => child'[parent[p].child] = child[parent[p].child]
  /\ \A d \in Senders : sender[d].job = j => sender'[d] = sender[d]

(* Whom a step leaves alone leads on.                                      *)
LEMMA OthersLead ==
  ASSUME NEW j, OthersStay(j)
  PROVE  (WillParse(j) => WillParse(j)') /\ (Carried(j) => Carried(j)')
BY DEF OthersStay, WillParse, Carried, Watches

(* The actors of a job that is not the process's watch other processes.    *)
LEMMA OtherProcesses ==
  ASSUME LinkInv, NEW k \in Children, child[k].at # "none",
         NEW p \in Parents, parent[p].at = "watching", parent[p].job # child[k].job
  PROVE  parent[p].child \in Children /\ parent[p].child # k
BY Watching


(* A request saves its job, publishes it, or notes that it could not.      *)
LEMMA ApiCarries ==
  ASSUME LinkInv, WorkInv, LossInv, NEW j \in Jobs, Api(j) \/ ParserJobUnsent(j)
  PROVE  WorkInv' /\ LossInv'
<1>1. /\ past \in History /\ UNCHANGED <<past.orphaned, past.resent>> /\ past'.removed = past.removed
      /\ past'.delivered = past.delivered /\ past'.failed = past.failed
      /\ past.unpublished \subseteq past'.unpublished
  BY DEF Api, SaveUpload, EnqueueParserJob, ParserJobUnsent, LinkInv, Shapes, History
<1>2. UNCHANGED <<parent, child, sender, dispatchQueue>>
  BY DEF Api, SaveUpload, EnqueueParserJob, ParserJobUnsent
<1>3. ASSUME NEW i \in Jobs, i # j
      PROVE  UNCHANGED <<row[i], api[i]>> /\ OthersStay(i)
  BY <1>2, <1>3 DEF Api, SaveUpload, EnqueueParserJob, ParserJobUnsent, LinkInv, Shapes, OthersStay
<1>4. api'[j] = "saved" \/ parserQueue'[j] > 0 \/ j \in past'.unpublished
  BY DEF Api, SaveUpload, EnqueueParserJob, ParserJobUnsent, LinkInv, Shapes, History
<1>5. WorkInv'
  <2> SUFFICES ASSUME past'.orphaned = 0, NEW i \in Jobs, InParser(i)'
               PROVE  WillParse(i)' \/ api'[i] = "saved" \/ i \in past'.unpublished
    BY DEF WorkInv
  <2>1. CASE i = j
    BY <1>4, <2>1 DEF WillParse
  <2>2. CASE i # j
    BY <1>1, <1>3, <2>2, OthersLead DEF WorkInv, InParser
  <2> QED BY <2>1, <2>2
<1>6. LossInv'
  <2> SUFFICES ASSUME NEW i \in Jobs, api'[i] = "answered"
               PROVE  Settled(i)' \/ Carried(i)'
    BY CarriedBy DEF LossInv
  <2>1. CASE i = j
    BY <1>4, <2>1, IsSettled DEF Carried
  <2>2. CASE i # j
    BY <1>1, <1>3, <2>2, OthersLead, CarriedBy, IsSettled DEF LossInv
  <2> QED BY <2>1, <2>2
<1> QED BY <1>5, <1>6

(* A removal settles its job and touches no process of another.            *)
LEMMA RemovalCarries ==
  ASSUME LinkInv, WorkInv, LossInv, NEW j \in Jobs, RemoveJob(j)
  PROVE  WorkInv' /\ LossInv'
<1>1. /\ UNCHANGED <<past.orphaned, past.resent>> /\ past'.removed = past.removed \union {j}
      /\ past'.delivered = past.delivered /\ past'.failed = past.failed
      /\ past'.unpublished = past.unpublished
  BY DEF RemoveJob, LinkInv, Shapes, History
<1>2. UNCHANGED <<api, parserQueue, dispatchQueue, parent, sender>>
  BY DEF RemoveJob
<1>3. row'[j] = NoRow /\ \A i \in Jobs \ {j} : row'[i] = row[i]
  BY DEF RemoveJob, LinkInv, Shapes
<1>4. ASSUME NEW i \in Jobs, i # j
      PROVE  OthersStay(i)
  <2>1. \A k \in Children : child[k].job # j => child'[k] = child[k]
    BY DEF RemoveJob, JobOf
  <2>2. ASSUME NEW p \in Parents, parent[p].job = i, parent[p].at = "watching"
        PROVE  child'[parent[p].child] = child[parent[p].child]
    BY <1>4, <2>1, <2>2, Watching
  <2> QED BY <1>2, <2>2 DEF OthersStay
<1>5. WorkInv'
  <2> SUFFICES ASSUME past'.orphaned = 0, NEW i \in Jobs, InParser(i)'
               PROVE  WillParse(i)' \/ api'[i] = "saved" \/ i \in past'.unpublished
    BY DEF WorkInv
  <2>1. i # j /\ InParser(i)
    BY <1>3 DEF InParser
  <2> QED BY <1>1, <1>2, <1>4, <2>1, OthersLead DEF WorkInv
<1>6. LossInv'
  <2> SUFFICES ASSUME NEW i \in Jobs, api'[i] = "answered"
               PROVE  Settled(i)' \/ Carried(i)'
    BY CarriedBy DEF LossInv
  <2>1. CASE i = j
    BY <1>1, <2>1, IsSettled
  <2>2. CASE i # j
    BY <1>1, <1>2, <1>4, <2>2, OthersLead, CarriedBy, IsSettled DEF LossInv
  <2> QED BY <2>1, <2>2
<1> QED BY <1>5, <1>6

(* Where nothing happens to rows, requests and history, whoever leads on   *)
(* keeps both invariants.                                                  *)
LEMMA LeadingCarries ==
  ASSUME WorkInv, LossInv, UNCHANGED <<row, api>>,
         past'.orphaned = 0 => past.orphaned = 0, past'.removed = past.removed,
         past'.delivered = past.delivered, past'.failed = past.failed,
         past'.unpublished = past.unpublished,
         \A i \in Jobs : (WillParse(i) => WillParse(i)') /\ (Carried(i) => Carried(i)')
  PROVE  WorkInv' /\ LossInv'
<1>1. WorkInv'
  BY DEF WorkInv, InParser
<1>2. ASSUME NEW i \in Jobs, api'[i] = "answered"
      PROVE  Settled(i)' \/ Carried(i)'
  BY <1>2, CarriedBy, IsSettled DEF LossInv
<1> QED BY <1>1, <1>2, CarriedBy DEF LossInv

(* A message becomes an actor that watches a new process.                  *)
LEMMA ReceiveCarries ==
  ASSUME LinkInv, WorkInv, LossInv, NEW p \in Parents, Receive(p)
  PROVE  WorkInv' /\ LossInv'
<1>1. PICK j \in Jobs, k \in Children :
        /\ parserQueue[j] > 0 /\ child[k].at = "none"
        /\ parserQueue' = [parserQueue EXCEPT ![j] = @ - 1]
        /\ parent' = [parent EXCEPT ![p] = [at |-> "watching", job |-> j, child |-> k]]
        /\ child' = [child EXCEPT ![k] = [NoProcess EXCEPT !.at = "started", !.job = j]]
  BY DEF Receive
<1>2. UNCHANGED <<row, api, dispatchQueue, sender, past>> /\ parent[p].job = NoJob
  BY DEF Receive, LinkInv, Shapes, ActorIsSound
<1>3. WillParse(j)'
  <2>1. parent'[p] = [at |-> "watching", job |-> j, child |-> k]
    BY <1>1 DEF LinkInv, Shapes
  <2>2. child'[k].at = "started"
    BY <1>1 DEF LinkInv, Shapes, NoProcess
  <2> QED BY <2>1, <2>2 DEF WillParse, Watches, Returns
<1>4. ASSUME NEW i \in Jobs, i # j
      PROVE  OthersStay(i)
  <2>1. \A q \in Parents : parent[q].job = i => parent'[q] = parent[q]
    BY <1>1, <1>2, AbsenceIsNothing DEF LinkInv, Shapes
  <2>2. ASSUME NEW q \in Parents, parent[q].at = "watching"
        PROVE  child'[parent[q].child] = child[parent[q].child]
    BY <1>1, <2>2, Watching DEF LinkInv, Shapes
  <2>3. parserQueue'[i] = parserQueue[i]
    BY <1>1, <1>4 DEF LinkInv, Shapes
  <2> QED BY <1>2, <2>1, <2>2, <2>3 DEF OthersStay
<1>5. \A i \in Jobs : (WillParse(i) => WillParse(i)') /\ (Carried(i) => Carried(i)')
  BY <1>3, <1>4, OthersLead, CarriedBy
<1> QED BY <1>2, <1>5, LeadingCarries

(* An actor that leaves its process sends a retry or raises, unless the    *)
(* process has ended with nothing left to parse.                           *)
LEMMA LeavingCarries ==
  ASSUME LinkInv, WorkInv, LossInv, NEW p \in Parents, NEW j \in Jobs, parent[p].job = j,
         TakeResult(p) \/ Republish(p) \/ Acknowledge(p) \/ TimeLimit(p) \/ ParentDies(p)
  PROVE  WorkInv' /\ LossInv'
<1>1. PICK new : ActorLeaves(p, new)
  BY Leavings
<1>2. parent[p].at # "free" /\ UNCHANGED <<row, api, dispatchQueue, sender>>
  BY Leavings
<1>3. /\ past'.orphaned = 0 => past.orphaned = 0
      /\ past'.removed = past.removed /\ past'.delivered = past.delivered
      /\ past'.failed = past.failed /\ past'.unpublished = past.unpublished
  <2>1. past \in History /\ past.orphaned \in Nat
    BY DEF LinkInv, Shapes, History
  <2> QED BY <2>1, EndIsNoted DEF TakeResult, Republish, Acknowledge, History
<1>4. ASSUME NEW q \in Parents, q # p
      PROVE  /\ parent'[q] = parent[q]
             /\ parent[q].at = "watching" => child'[parent[q].child] = child[parent[q].child]
  <2>1. parent'[q] = parent[q]
    BY <1>1, <1>4 DEF ActorLeaves, LinkInv, Shapes
  <2>2. ASSUME parent[q].at = "watching"
        PROVE  child'[parent[q].child] = child[parent[q].child]
    <3>1. parent[q].child \in Children /\ parent[q].child # NoChild
      BY <2>2, Watching, AbsenceIsNothing
    <3>2. parent[q].child # parent[p].child
      BY <1>4, <3>1 DEF LinkInv, WatchedByOne
    <3> QED BY <1>1, <3>1, <3>2 DEF ActorLeaves, LinkInv, Shapes
  <2> QED BY <2>1, <2>2
<1>5. ASSUME NEW i \in Jobs, i # j
      PROVE  OthersStay(i)
  <2>1. parserQueue'[i] = parserQueue[i]
    BY <1>1, <1>2, <1>5 DEF ActorLeaves, LinkInv, Shapes
  <2> QED BY <1>2, <1>4, <1>5, <2>1 DEF OthersStay
<1>6. parserQueue[j] \in Nat /\ parserQueue'[j] \in {parserQueue[j], parserQueue[j] + 1}
  BY <1>1, <1>2 DEF ActorLeaves, LinkInv, Shapes
<1>7. \/ parserQueue'[j] > 0
      \/ parent'[p].at = "republish" /\ parent'[p].job = j
      \/ parent[p].at \in {"acknowledge", "republished"}
      \/ parent[p].at = "watching" /\ ~Leads(child[parent[p].child])
  <2>1. CASE TakeResult(p)
    <3>1. CASE child[parent[p].child].at = "done" /\ child[parent[p].child].retry
      BY <2>1, <3>1 DEF TakeResult, LinkInv, Shapes
    <3>2. CASE child[parent[p].child].at = "done" /\ ~child[parent[p].child].retry
      BY <2>1, <3>2 DEF TakeResult, Leads, Returns
    <3>3. CASE child[parent[p].child].at = "vanished"
      BY <1>2, <1>6, <2>1, <3>3 DEF TakeResult, Raised, LinkInv, Shapes
    <3> QED BY <2>1, <3>1, <3>2, <3>3 DEF TakeResult
  <2>2. CASE Republish(p) \/ TimeLimit(p) \/ ParentDies(p)
    BY <1>2, <1>6, <2>2 DEF Republish, Republished, TimeLimit, Raised, ParentDies, LinkInv, Shapes
  <2>3. CASE Acknowledge(p)
    BY <2>3 DEF Acknowledge
  <2> QED BY <2>1, <2>2, <2>3
<1>8. (WillParse(j) => WillParse(j)') /\ (Carried(j) => Carried(j)')
  <2>1. CASE parserQueue'[j] > 0 \/ (parent'[p].at = "republish" /\ parent'[p].job = j)
    BY <2>1 DEF WillParse, Carried
  <2>2. CASE \/ parent[p].at \in {"acknowledge", "republished"}
             \/ parent[p].at = "watching" /\ ~Leads(child[parent[p].child])
    <3>1. parserQueue[j] > 0 => parserQueue'[j] > 0
      BY <1>6
    <3> QED BY <1>2, <1>4, <2>2, <3>1 DEF WillParse, Carried, Watches, Leads
  <2> QED BY <1>7, <2>1, <2>2
<1>9. \A i \in Jobs : (WillParse(i) => WillParse(i)') /\ (Carried(i) => Carried(i)')
  BY <1>5, <1>8, OthersLead
<1> QED BY <1>2, <1>3, <1>9, LeadingCarries

(* A process leads on until its row, its history or a message does.        *)
LEMMA ChildCarries ==
  ASSUME LinkInv, TokenInv, NoOrphans, WorkInv, LossInv,
         NEW k \in Children, NEW j \in Jobs, ChildMoves(k, j)
  PROVE  WorkInv' /\ LossInv'
<1>1. PICK new : ChildGoes(k, j, new) /\ KeepsParsing(k, j, new) /\ KeepsDelivering(k, j, new)
  BY DEF ChildMoves
<1>2. child[k].at # "none" /\ child[k].job = j
  BY DEF ChildMoves
<1>3. /\ child'[k] = new /\ \A l \in Children : l # k => child'[l] = child[l]
      /\ UNCHANGED <<api, parserQueue, parent, sender>>
      /\ \A i \in Jobs : i # j => row'[i] = row[i] /\ dispatchQueue'[i] = dispatchQueue[i]
      /\ dispatchQueue'[j] \in {dispatchQueue[j], dispatchQueue[j] + 1}
      /\ dispatchQueue[j] \in Nat
  BY <1>1 DEF ChildGoes, LinkInv, Shapes
<1>4. ASSUME NEW i \in Jobs, i # j
      PROVE  OthersStay(i)
  <2>1. \A p \in Parents : parent[p].job = i /\ parent[p].at = "watching" =>
          child'[parent[p].child] = child[parent[p].child]
    BY <1>2, <1>3, <1>4, OtherProcesses
  <2> QED BY <1>3, <1>4, <2>1 DEF OthersStay
<1>5. ASSUME NEW p \in Parents, Watches(p, j)
      PROVE  /\ parent[p].child = k => ~Orphan(k)
             /\ parent[p].child # k => child'[parent[p].child] = child[parent[p].child]
  BY <1>3, <1>5, Watching DEF Watches, Orphan
<1>6. WorkInv'
  <2> SUFFICES ASSUME past'.orphaned = 0, NEW i \in Jobs, InParser(i)'
               PROVE  WillParse(i)' \/ api'[i] = "saved" \/ i \in past'.unpublished
    BY DEF WorkInv
  <2>1. past.orphaned = 0 /\ past.unpublished \subseteq past'.unpublished
    BY <1>1 DEF ChildGoes
  <2>2. CASE i # j
    BY <1>3, <1>4, <2>1, <2>2, OthersLead DEF WorkInv, InParser
  <2>3. CASE i = j /\ Returns(new)
    <3>1. PICK p \in Parents : parent[p].child = k
      BY <1>2, <2>1 DEF NoOrphans
    <3>2. parent[p].at = "watching"
      BY <3>1, AbsenceIsNothing DEF LinkInv, ActorIsSound
    <3>3. parent[p].job = j
      BY <1>2, <3>1, <3>2, Watching
    <3> QED BY <1>3, <2>3, <3>1, <3>2, <3>3 DEF WillParse, Watches
  <2>4. CASE i = j /\ row'[j] = row[j] /\ (Returns(child[k]) => Orphan(k))
    <3>1. WillParse(j) => WillParse(j)'
      <4>1. ASSUME NEW p \in Parents, Watches(p, j), Returns(child[parent[p].child])
            PROVE  Returns(child'[parent[p].child])
        BY <1>5, <2>4, <4>1
      <4> QED BY <1>3, <4>1 DEF WillParse, Watches
    <3> QED BY <1>3, <2>1, <2>4, <3>1 DEF WorkInv, InParser
  <2> QED BY <1>1, <2>2, <2>3, <2>4 DEF KeepsParsing
<1>7. LossInv'
  <2> SUFFICES ASSUME NEW i \in Jobs, api'[i] = "answered"
               PROVE  Settled(i)' \/ Carried(i)'
    BY CarriedBy DEF LossInv
  <2>1. Settled(i) => Settled(i)'
    BY <1>1, IsSettled DEF ChildGoes
  <2>2. CASE i # j
    BY <1>3, <1>4, <2>1, <2>2, OthersLead, CarriedBy DEF LossInv
  <2>3. CASE i = j
    <3>1. ASSUME NEW p \in Parents, Watches(p, j), Leads(child[parent[p].child]),
                 parent[p].child = k
          PROVE  Settled(j)' \/ Carried(j)'
      <4>1. Leads(child[k]) /\ ~Orphan(k) /\ Watches(p, j)'
        BY <1>3, <1>5, <3>1 DEF Watches
      <4>2. Leads(new) \/ Settled(j)' \/ dispatchQueue'[j] > 0
        BY <1>1, <1>3, <2>3, <4>1 DEF KeepsDelivering
      <4> QED BY <1>3, <3>1, <4>1, <4>2 DEF Carried, Watches
    <3>2. ASSUME NEW p \in Parents, Watches(p, j), Leads(child[parent[p].child]),
                 parent[p].child # k
          PROVE  Carried(j)'
      BY <1>3, <1>5, <3>2 DEF Carried, Watches
    <3>3. Carried(j) => Settled(j)' \/ Carried(j)'
      <4>1. dispatchQueue[j] > 0 => dispatchQueue'[j] > 0
        BY <1>3
      <4> QED BY <1>3, <3>1, <3>2, <4>1 DEF Carried
    <3> QED BY <1>3, <2>1, <2>3, <3>3, CarriedBy DEF LossInv
  <2> QED BY <2>2, <2>3
<1> QED BY <1>6, <1>7

(* A message of the dispatch queue or its actor stays until the job is     *)
(* delivered, or its row is gone, which only a removal does.               *)
LEMMA SenderCarries ==
  ASSUME LinkInv, TokenInv, WorkInv, LossInv,
         NEW d \in Senders, NEW j \in Jobs, SenderMoves(d, j)
  PROVE  WorkInv' /\ LossInv'
<1>1. /\ UNCHANGED <<api, parserQueue, parent, child>> /\ UNCHANGED <<past.orphaned, past.resent>>
      /\ past'.unpublished = past.unpublished
      /\ \A i \in Jobs : i # j => row'[i] = row[i] /\ dispatchQueue'[i] = dispatchQueue[i]
      /\ \A e \in Senders : e # d => sender'[e] = sender[e]
      /\ row'[j] = row[j] \/ row'[j].status \in {"DISPATCHING", "COMPLETED", "DISPATCH_QUEUED"}
  BY DEF SenderMoves, LinkInv, Shapes
<1>2. \A i \in Jobs : (WillParse(i) => WillParse(i)') /\ (Settled(i) => Settled(i)')
  <2>1. \A i \in Jobs : Settled(i) => Settled(i)'
    BY IsSettled DEF SenderMoves
  <2> QED BY <1>1, <2>1 DEF WillParse, Watches
<1>3. WorkInv'
  BY <1>1, <1>2 DEF WorkInv, InParser
<1>4. LossInv'
  <2> SUFFICES ASSUME NEW i \in Jobs, api'[i] = "answered"
               PROVE  Settled(i)' \/ Carried(i)'
    BY CarriedBy DEF LossInv
  <2>1. CASE i # j
    <3>1. \A e \in Senders : sender[e].at = "claimed" /\ sender[e].job = i => e # d
      BY <2>1 DEF SenderMoves
    <3>2. Carried(i) => Carried(i)'
      BY <1>1, <2>1, <3>1 DEF Carried, Watches
    <3> QED BY <1>1, <1>2, <3>2, CarriedBy DEF LossInv
  <2>2. CASE i = j
    <3>1. CASE dispatchQueue[j] > 0 \/ sender[d].at = "claimed"
      <4>1. CASE dispatchQueue'[j] > 0
        BY <2>2, <4>1 DEF Carried
      <4>2. CASE sender'[d].at = "claimed"
        <5>1. sender'[d].job = j
          BY <4>2 DEF SenderMoves, LinkInv, Shapes
        <5> QED BY <2>2, <4>2, <5>1 DEF Carried
      <4>3. CASE j \in past'.delivered
        BY <2>2, <4>3, IsSettled
      <4>4. CASE row[j] = NoRow
        BY <1>1, <1>2, <2>2, <4>4, IsSettled DEF TokenInv, RequestIsSound
      <4> QED BY <3>1, <4>1, <4>2, <4>3, <4>4 DEF SenderMoves
    <3>2. CASE ~(dispatchQueue[j] > 0 \/ sender[d].at = "claimed")
      BY <1>1, <1>2, <2>2, <3>2, CarriedBy DEF LossInv, Carried, Watches
    <3> QED BY <3>1, <3>2
  <2> QED BY <2>1, <2>2
<1> QED BY <1>3, <1>4

----------------------------------------------------------------------------
(* The theorems *)

(* The inductive invariant: links, messages, processes, then what they     *)
(* lead to.                                                                *)
PipelineInv == LinkInv /\ TokenInv /\ NoOrphans /\ WorkInv /\ LossInv

(* It holds at the start.                                                  *)
LEMMA PipelineStarts == Init => PipelineInv
<1> SUFFICES ASSUME Init PROVE PipelineInv
  OBVIOUS
<1>1. WorkInv /\ LossInv
  BY DEF Init, WorkInv, LossInv, InParser
<1> QED BY <1>1, LinksStart, TokensStart, OrphansStart DEF PipelineInv

(* Every step keeps it.                                                    *)
LEMMA PipelineStays == PipelineInv /\ [Next]_vars => PipelineInv'
<1> SUFFICES ASSUME PipelineInv, [Next]_vars PROVE PipelineInv'
  OBVIOUS
<1> USE DEF PipelineInv
<1>1. LinkInv' /\ TokenInv' /\ NoOrphans'
  BY LinksStay, TokensStay, OrphansStay
<1>2. WorkInv' /\ LossInv'
  <2>1. CASE UNCHANGED vars
    BY <2>1, CarriedBy, IsSettled
       DEF vars, WorkInv, LossInv, InParser, WillParse, WillDeliver, Watches
  <2>2. ASSUME NEW p \in Parents, TakeResult(p) \/ Republish(p) \/ Acknowledge(p)
                                  \/ TimeLimit(p) \/ ParentDies(p)
        PROVE  WorkInv' /\ LossInv'
    <3>1. parent[p].job \in Jobs
      BY <2>2, Leavings, Watching
    <3> QED BY <2>2, <3>1, LeavingCarries
  <2>3. CASE Next
    BY <2>2, <2>3, StepKinds, ApiCarries, RemovalCarries, ReceiveCarries, ChildCarries,
       SenderCarries
  <2> QED BY <2>1, <2>3
<1> QED BY <1>1, <1>2

(* The inductive invariant holds in every state.                           *)
THEOREM PipelineHolds == Spec => []PipelineInv
BY PipelineStarts, PipelineStays, PTL DEF Spec

(* Types, and messages do not multiply: a job has one parser message, and  *)
(* one for each actor that ended between sending a retry and its           *)
(* acknowledgement.                                                        *)
THEOREM DramatiqTypes == Spec => []DTypeOK
<1>1. PipelineInv => DTypeOK
  <2> SUFFICES ASSUME PipelineInv PROVE DTypeOK
    OBVIOUS
  <2>1. LinkInv /\ TokenInv
    BY DEF PipelineInv
  <2>2. \A j \in Jobs :
          parserQueue[j] + Cardinality({p \in Holders(j) : parent[p].at # "republished"})
            <= 1 + past.resent
    BY <2>1 DEF TokenInv, Open
  <2> QED BY <2>1, <2>2 DEF DTypeOK, LinkInv, Shapes, Actor, Process
<1> QED BY <1>1, PipelineHolds, PTL

(* A row in the parser's hands has a message, an actor or a process that   *)
(* sees to it, as long as no worker died that watched its process.         *)
THEOREM ParsingIsAlwaysWorkedOn == Spec => []ParsingIsWorkedOn
<1>1. PipelineInv => ParsingIsWorkedOn
  <2> SUFFICES ASSUME PipelineInv, past.orphaned = 0, NEW j \in Jobs, InParser(j)
               PROVE  InParsing(j) \/ api[j] = "saved" \/ j \in past.unpublished
    BY DEF ParsingIsWorkedOn, InParser
  <2>1. WillParse(j) => InParsing(j)
    BY DEF WillParse, Watches, InParsing, Holders
  <2> QED BY <2>1 DEF PipelineInv, WorkInv
<1> QED BY <1>1, PipelineHolds, PTL

(* An accepted document is delivered, failed, removed or unsent, or is     *)
(* still on its way, whatever died.                                        *)
THEOREM NothingIsEverLost == Spec => []NothingIsLost
<1>1. PipelineInv => NothingIsLost
  <2> SUFFICES ASSUME PipelineInv, NEW j \in Jobs, api[j] = "answered"
               PROVE  Settled(j) \/ InParsing(j) \/ InDispatch(j)
    BY DEF NothingIsLost
  <2>1. Carried(j) => InParsing(j) \/ InDispatch(j)
    BY DEF Carried, Watches, InParsing, InDispatch, Holders
  <2> QED BY <2>1, CarriedBy DEF PipelineInv, LossInv
<1> QED BY <1>1, PipelineHolds, PTL

(* Two processes of one job would be watched by two actors with two        *)
(* messages: there is one as long as nobody ended right after sending a    *)
(* retry, and nobody died watching.                                        *)
THEOREM OneParseAlways == Spec => []OneParseAtATime
<1>1. PipelineInv => OneParseAtATime
  <2> SUFFICES ASSUME PipelineInv, past.orphaned = 0, past.resent = 0, NEW k \in Children, NEW l \in Children,
                      Alive(k), Alive(l), JobOf(k) = JobOf(l), k # l
               PROVE  FALSE
    BY DEF OneParseAtATime
  <2> DEFINE j == JobOf(k)
  <2>1. LinkInv /\ TokenInv /\ NoOrphans
    BY DEF PipelineInv
  <2>2. child[k].at # "none" /\ child[l].at # "none" /\ j \in Jobs
    BY <2>1, ChildTypes DEF Alive, JobOf
  <2>3. PICK p \in Parents : parent[p].child = k
    BY <2>1, <2>2 DEF NoOrphans
  <2>4. PICK q \in Parents : parent[q].child = l
    BY <2>1, <2>2 DEF NoOrphans
  <2>5. parent[p].at = "watching" /\ parent[q].at = "watching"
    BY <2>1, <2>3, <2>4, AbsenceIsNothing DEF LinkInv, ActorIsSound
  <2>6. parent[p].job = j /\ parent[q].job = j
    BY <2>1, <2>3, <2>4, <2>5, Watching DEF JobOf
  <2>7. {p, q} \subseteq Open(j) /\ p # q
    BY <2>3, <2>4, <2>5, <2>6 DEF Open, Holders
  <2>8. Cardinality({p, q}) <= Cardinality(Open(j))
    BY <2>2, <2>7, OpenIsFinite, FS_Subset
  <2>9. Cardinality({p, q}) = 2
    <3>1. {p, q} = {p} \union {q} /\ IsFiniteSet({p}) /\ Cardinality({p}) = 1 /\ q \notin {p}
      BY <2>7, FS_Singleton
    <3>2. Cardinality({p} \union {q}) = Cardinality({p}) + 1
      BY <3>1, FS_AddElement
    <3> QED BY <3>1, <3>2
  <2>10. parserQueue[j] \in Nat /\ parserQueue[j] + Cardinality(Open(j)) <= 1
    BY <2>1, <2>2 DEF TokenInv, LinkInv, Shapes
  <2> HIDE DEF j
  <2> QED BY <2>2, <2>8, <2>9, <2>10, OpenIsFinite
<1> QED BY <1>1, PipelineHolds, PTL

----------------------------------------------------------------------------
(* The backend implements AtLeastOnce *)

(* A message, an actor or a process is about the job.                      *)
Has(j) == InParsing(j) \/ InDispatch(j)

(* A step is about this job: it brings no other into anybody's hands, nor  *)
(* out of them, and does not give this one to anybody anew.                *)
HandsOn(j) ==
  /\ Has(j)' => Has(j)
  /\ \A i \in Jobs \ {j} : Has(i)' <=> Has(i)

(* What the abstract jobs in hand are after such a step.                   *)
LEMMA HandsMove ==
  ASSUME NEW j \in Jobs, HandsOn(j)
  PROVE  /\ InHand' \in {InHand, InHand \ {j}}
         /\ (Has(j) => Has(j)') => InHand' = InHand
<1>1. \A i : i \in InHand <=> i \in Jobs /\ Has(i)
  BY DEF InHand, Has
<1>2. \A i : i \in InHand' <=> i \in Jobs /\ Has(i)'
  BY DEF InHand, Has
<1>3. CASE Has(j)' <=> Has(j)
  <2>1. \A i : i \in InHand' <=> i \in InHand
    BY <1>1, <1>2, <1>3 DEF HandsOn
  <2> QED BY <2>1
<1>4. CASE Has(j) /\ ~Has(j)'
  <2>1. \A i : i \in InHand' <=> i \in InHand \ {j}
    BY <1>1, <1>2, <1>4 DEF HandsOn
  <2> QED BY <1>4, <2>1
<1> QED BY <1>3, <1>4 DEF HandsOn

(* Nothing new is told of any job.                                         *)
TellsNothing ==
  /\ past'.delivered = past.delivered /\ past'.failed = past.failed
  /\ past'.removed = past.removed /\ past'.unpublished = past.unpublished

(* Then the abstract verdicts stay.                                        *)
LEMMA VerdictsStay ==
  ASSUME TellsNothing
  PROVE  Verdicts' = Verdicts
BY DEF TellsNothing, Verdicts

(* One verdict more of one job.                                            *)
LEMMA VerdictIsTold ==
  ASSUME past \in History, NEW j \in Jobs, NEW v \in {"delivered", "failed", "removed", "unpublished"},
         past' = [past EXCEPT ![v] = past[v] \union {j}]
  PROVE  Verdicts' = [Verdicts EXCEPT ![j] = @ \union {v}]
<1>1. \A u \in {"delivered", "failed", "removed", "unpublished"} :
        past'[u] = IF u = v THEN past[u] \union {j} ELSE past[u]
  BY DEF History
<1>2. \A i \in Jobs : Verdicts'[i] = IF i = j THEN Verdicts[i] \union {v} ELSE Verdicts[i]
  BY <1>1 DEF Verdicts
<1>3. /\ Verdicts' = [i \in Jobs |-> Verdicts'[i]]
      /\ Verdicts = [i \in Jobs |-> Verdicts[i]]
  BY DEF Verdicts
<1> QED BY <1>2, <1>3

(* A job has a verdict if and only if it is settled.                       *)
LEMMA SettledHasVerdict ==
  ASSUME NEW j \in Jobs
  PROVE  Settled(j) <=> Verdicts[j] # {}
BY DEF Settled, Verdicts

(* A request saves its job unseen, and publishes it or cannot.             *)
LEMMA ApiIsSeen ==
  ASSUME LinkInv, NEW j \in Jobs, Api(j) \/ ParserJobUnsent(j)
  PROVE  \/ Promise!Accept(j) \/ Promise!TurnAway(j)
         \/ UNCHANGED <<Answered, InHand, Verdicts>>
<1>1. UNCHANGED <<dispatchQueue, parent, child, sender>>
  BY DEF Api, SaveUpload, EnqueueParserJob, ParserJobUnsent
<1>2. api \in [Jobs -> {"new", "saved", "answered"}] /\ parserQueue \in [Jobs -> Nat] /\ past \in History
  BY DEF LinkInv, Shapes
<1>3. UNCHANGED parserQueue => InHand' = InHand
  BY <1>1 DEF InHand, InParsing, InDispatch, Holders, JobOf, Alive
<1>4. CASE SaveUpload(j)
  <2>1. Answered' = Answered
    BY <1>2, <1>4 DEF SaveUpload, Answered
  <2>2. Verdicts' = Verdicts
    BY <1>4, VerdictsStay DEF SaveUpload, TellsNothing
  <2> QED BY <1>3, <1>4, <2>1, <2>2 DEF SaveUpload
<1>5. ASSUME api[j] = "saved", api' = [api EXCEPT ![j] = "answered"]
      PROVE  j \notin Answered /\ Answered' = Answered \union {j}
  BY <1>2, <1>5 DEF Answered
<1>6. CASE EnqueueParserJob(j)
  <2>1. \A i \in Jobs : parserQueue'[i] > 0 <=> parserQueue[i] > 0 \/ i = j
    BY <1>2, <1>6 DEF EnqueueParserJob
  <2>2. \A i \in Jobs : i \in InHand' <=> i \in InHand \/ i = j
    BY <1>1, <2>1 DEF InHand, InParsing, InDispatch, Holders, JobOf, Alive
  <2>3. InHand' = InHand \union {j}
    BY <2>2 DEF InHand
  <2>4. Verdicts' = Verdicts
    BY <1>6, VerdictsStay DEF EnqueueParserJob, TellsNothing
  <2> QED BY <1>5, <1>6, <2>3, <2>4 DEF EnqueueParserJob, Promise!Accept
<1>7. CASE ParserJobUnsent(j)
  <2>1. past' = [past EXCEPT !["unpublished"] = past["unpublished"] \union {j}]
    BY <1>7 DEF ParserJobUnsent
  <2>2. Verdicts' = [Verdicts EXCEPT ![j] = @ \union {"unpublished"}]
    BY <1>2, <2>1, VerdictIsTold
  <2> QED BY <1>3, <1>5, <1>7, <2>2 DEF ParserJobUnsent, Promise!TurnAway, Promise!Told
<1> QED BY <1>4, <1>6, <1>7 DEF Api

(* A removal takes at most the removed job out of hand, and tells of it.   *)
LEMMA RemovalIsSeen ==
  ASSUME LinkInv, NEW j \in Jobs, RemoveJob(j)
  PROVE  Promise!Remove(j)
<1>1. UNCHANGED <<api, parserQueue, dispatchQueue, parent, sender>> /\ past \in History
  BY DEF RemoveJob, LinkInv, Shapes
<1>2. ASSUME NEW k \in Children
      PROVE  /\ child'[k].job = child[k].job
             /\ child'[k] = child[k] \/ (child[k].job = j /\ Alive(k))
  BY DEF RemoveJob, JobOf, LinkInv, Shapes, Process
<1>3. ASSUME NEW k \in Children
      PROVE  /\ JobOf(k)' = JobOf(k) /\ (Alive(k)' => Alive(k))
             /\ JobOf(k) # j => (Alive(k)' <=> Alive(k))
  BY <1>2 DEF JobOf, Alive
<1>4. HandsOn(j)
  BY <1>1, <1>3 DEF HandsOn, Has, InParsing, InDispatch, Holders
<1>5. InHand' \in {InHand, InHand \ {j}}
  BY <1>4, HandsMove
<1>6. past' = [past EXCEPT !["removed"] = past["removed"] \union {j}]
  BY DEF RemoveJob
<1>7. Verdicts' = [Verdicts EXCEPT ![j] = @ \union {"removed"}]
  BY <1>1, <1>6, VerdictIsTold
<1>8. Answered' = Answered
  BY <1>1 DEF Answered
<1> QED BY <1>5, <1>7, <1>8 DEF Promise!Remove, Promise!Told

(* A step that tells nothing leaves the jobs in hand as they are, or puts  *)
(* down one that has its verdict, as NothingIsLost says of the next state. *)
LEMMA QuietStepIsSeen ==
  ASSUME NEW j \in Jobs, HandsOn(j), TellsNothing, UNCHANGED api,
         NothingIsLost', InHand \subseteq Answered
  PROVE  Promise!PutDown(j) \/ UNCHANGED <<Answered, InHand, Verdicts>>
<1>1. Verdicts' = Verdicts /\ Answered' = Answered
  BY VerdictsStay DEF Answered
<1>2. CASE Has(j) => Has(j)'
  BY <1>1, <1>2, HandsMove
<1>3. CASE Has(j) /\ ~Has(j)'
  <2>1. api[j] = "answered"
    BY <1>3 DEF InHand, Has, Answered
  <2>2. Settled(j)'
    BY <1>3, <2>1 DEF NothingIsLost, Has
  <2>3. Settled(j)
    BY <2>2, IsSettled DEF TellsNothing
  <2>4. InHand' = InHand \ {j}
    <3>1. \A i \in Jobs : i \in InHand' <=> i \in InHand \ {j}
      BY <1>3 DEF InHand, Has, HandsOn
    <3> QED BY <3>1 DEF InHand
  <2> QED BY <1>1, <2>3, <2>4, SettledHasVerdict DEF Promise!PutDown
<1> QED BY <1>2, <1>3

(* A step that tells a verdict of a job in hand and leaves it there.       *)
LEMMA TellingStepIsSeen ==
  ASSUME past \in History, NEW j \in Jobs, HandsOn(j), Has(j), Has(j)', UNCHANGED api,
         NEW v \in {"delivered", "failed", "unpublished"},
         past' = [past EXCEPT ![v] = past[v] \union {j}]
  PROVE  Promise!Decide(j, v)
<1>1. Verdicts' = [Verdicts EXCEPT ![j] = @ \union {v}]
  BY VerdictIsTold
<1>2. InHand' = InHand /\ j \in InHand
  BY HandsMove DEF InHand, Has
<1>3. Answered' = Answered
  BY DEF Answered
<1> QED BY <1>1, <1>2, <1>3 DEF Promise!Decide, Promise!Told

(* A step of a parser actor is about the job of its message.               *)
LEMMA ActorHands ==
  ASSUME LinkInv, NEW p \in Parents,
         TakeResult(p) \/ Republish(p) \/ Acknowledge(p) \/ TimeLimit(p) \/ ParentDies(p)
  PROVE  \E j \in Jobs : HandsOn(j) /\ TellsNothing
<1>1. PICK j \in Jobs : parent[p].job = j /\ parent[p].at # "free"
  BY Leavings, Watching
<1>2. PICK new \in {FreeParent, Retries(p), Sent(p), Finishes(p)} : ActorLeaves(p, new)
  BY Leavings
<1>3. UNCHANGED <<dispatchQueue, sender>>
  BY Leavings
<1>4. new.job \in {NoJob, j}
  BY <1>1 DEF FreeParent, Retries, Sent, Finishes
<1>5. \A q \in Parents : parent'[q].job = parent[q].job \/ (q = p /\ new = parent'[q])
  BY <1>2 DEF ActorLeaves, LinkInv, Shapes
<1>6. ASSUME NEW i \in Jobs \ {j}
      PROVE  Has(i)' <=> Has(i)
  <2>1. Holders(i)' = Holders(i)
    BY <1>1, <1>4, <1>5, AbsenceIsNothing DEF Holders
  <2>2. parserQueue'[i] = parserQueue[i]
    BY <1>1, <1>2 DEF ActorLeaves, LinkInv, Shapes
  <2>3. ASSUME NEW k \in Children
        PROVE  (JobOf(k) = i /\ Alive(k))' <=> JobOf(k) = i /\ Alive(k)
    <3>1. CASE child'[k] = child[k]
      BY <3>1 DEF JobOf, Alive
    <3>2. CASE child'[k] # child[k]
      <4>1. child'[k] = NoProcess /\ k = parent[p].child
        BY <1>2, <3>2 DEF ActorLeaves, LinkInv, Shapes
      <4>2. child[k].job = j
        BY <1>1, <4>1, Watching, AbsenceIsNothing DEF LinkInv, ActorIsSound
      <4> QED BY <4>1, <4>2 DEF NoProcess, JobOf, Alive
    <3> QED BY <3>1, <3>2
  <2> QED BY <1>3, <2>1, <2>2, <2>3 DEF Has, InParsing, InDispatch
<1>7. Has(j)
  BY <1>1 DEF Has, InParsing, Holders
<1>8. TellsNothing
  BY DEF TakeResult, Republish, Acknowledge, TimeLimit, ParentDies, TellsNothing, LinkInv, Shapes, History
<1> QED BY <1>1, <1>6, <1>7, <1>8 DEF HandsOn

(* An actor that takes a message is about its job, too.                    *)
LEMMA ReceiveHands ==
  ASSUME LinkInv, NEW p \in Parents, Receive(p)
  PROVE  \E j \in Jobs : HandsOn(j) /\ TellsNothing
<1>1. PICK j \in Jobs, k \in Children :
        /\ parserQueue[j] > 0 /\ child[k].at = "none"
        /\ parserQueue' = [parserQueue EXCEPT ![j] = @ - 1]
        /\ parent' = [parent EXCEPT ![p] = [at |-> "watching", job |-> j, child |-> k]]
        /\ child' = [child EXCEPT ![k] = [NoProcess EXCEPT !.at = "started", !.job = j]]
  BY DEF Receive
<1>2. UNCHANGED <<dispatchQueue, sender, past>> /\ parent[p].job = NoJob
  BY DEF Receive, LinkInv, ActorIsSound
<1>3. ASSUME NEW i \in Jobs \ {j}
      PROVE  Has(i)' <=> Has(i)
  <2>1. \A q \in Parents : q # p => parent'[q] = parent[q]
    BY <1>1 DEF LinkInv, Shapes
  <2>2. parent'[p].job = j
    BY <1>1 DEF LinkInv, Shapes
  <2>3. Holders(i)' = Holders(i)
    BY <1>2, <2>1, <2>2, AbsenceIsNothing DEF Holders
  <2>4. parserQueue'[i] = parserQueue[i]
    BY <1>1 DEF LinkInv, Shapes
  <2>5. \A l \in Children : child'[l] = child[l] \/ (child'[l].job = j /\ child[l].at = "none")
    BY <1>1 DEF NoProcess, LinkInv, Shapes
  <2>6. ASSUME NEW l \in Children
        PROVE  (JobOf(l) = i /\ Alive(l))' <=> JobOf(l) = i /\ Alive(l)
    BY <2>5 DEF JobOf, Alive
  <2> QED BY <1>2, <2>3, <2>4, <2>6 DEF Has, InParsing, InDispatch
<1>4. Has(j)
  BY <1>1 DEF Has, InParsing
<1> QED BY <1>2, <1>3, <1>4 DEF HandsOn, TellsNothing

(* Whatever a process does, it does for its job; it lives until its end.   *)
LEMMA ChildHands ==
  ASSUME LinkInv, TokenInv, NEW k \in Children,
         \/ Child(k) \/ OwnThread(k) \/ OwnDeliveryFails(k)
         \/ DispatchJobUnsent(k) \/ ChildDies(k)
  PROVE  \E j \in Jobs : j = JobOf(k) /\ HandsOn(j)
<1>1. PICK j \in Jobs : ChildMoves(k, j)
  BY ChildSteps
<1>2. child[k].job = j
  BY <1>1 DEF ChildMoves
<1>3. PICK new : ChildGoes(k, j, new)
  BY <1>1 DEF ChildMoves
<1>4. UNCHANGED <<parserQueue, parent, sender>> /\ \A i \in Jobs \ {j} : dispatchQueue'[i] = dispatchQueue[i]
  BY <1>3 DEF ChildGoes, LinkInv, Shapes
<1>5. /\ child'[k] = new /\ (new.at = "none" \/ new.job = j)
      /\ \A l \in Children \ {k} : child'[l] = child[l]
  BY <1>3 DEF ChildGoes, LinkInv, Shapes
<1>6. ASSUME NEW i \in Jobs \ {j}
      PROVE  Has(i)' <=> Has(i)
  <2>1. ASSUME NEW l \in Children
        PROVE  (JobOf(l) = i /\ Alive(l))' <=> JobOf(l) = i /\ Alive(l)
    BY <1>2, <1>5 DEF JobOf, Alive
  <2> QED BY <1>4, <2>1 DEF Has, InParsing, InDispatch, Holders
<1>7. Has(j)' => Has(j)
  <2>1. CASE Alive(k)
    BY <1>2, <2>1 DEF Has, InParsing, JobOf
  <2>2. CASE ~Alive(k)
    <3>1. Reap(k)
      BY <2>2 DEF Alive, Child, Start, ConversionFails, Convert, EnqueueDispatchJob, SaveAgain,
         End, OwnThread, OwnClaim, OwnDeliver, OwnComplete, OwnDeliveryFails, DispatchJobUnsent, ChildDies
    <3>2. child'[k] = NoProcess /\ UNCHANGED dispatchQueue
      BY <3>1 DEF Reap, LinkInv, Shapes
    <3>3. ASSUME NEW l \in Children, (JobOf(l) = j /\ Alive(l))'
          PROVE  JobOf(l) = j /\ Alive(l)
      BY <1>5, <3>2, <3>3 DEF JobOf, Alive, NoProcess
    <3> QED BY <1>4, <3>2, <3>3 DEF Has, InParsing, InDispatch, Holders
  <2> QED BY <2>1, <2>2
<1> QED BY <1>2, <1>6, <1>7 DEF HandsOn, JobOf

(* What a process tells, it tells while it lives.                          *)
LEMMA ChildTells ==
  ASSUME LinkInv, NEW k \in Children, child[k].job \in Jobs,
         \/ Child(k) \/ OwnThread(k) \/ OwnDeliveryFails(k)
         \/ DispatchJobUnsent(k) \/ ChildDies(k)
  PROVE  \/ TellsNothing
         \/ /\ Alive(k) /\ Alive(k)' /\ JobOf(k)' = JobOf(k)
            /\ \E v \in {"delivered", "failed", "unpublished"} :
                 past' = [past EXCEPT ![v] = past[v] \union {JobOf(k)}]
<1>1. UNCHANGED past \/ ConversionFails(k) \/ OwnDeliver(k) \/ DispatchJobUnsent(k)
  BY DEF Child, Start, Convert, EnqueueDispatchJob, SaveAgain, End, Reap, OwnThread, OwnClaim,
         OwnComplete, OwnDeliveryFails, ChildDies
<1>2. child[k] \in Process
  BY ChildTypes
<1>3. CASE UNCHANGED past
  BY <1>3 DEF TellsNothing
<1>4. ASSUME ConversionFails(k) \/ OwnDeliver(k) \/ DispatchJobUnsent(k)
      PROVE  Alive(k) /\ Alive(k)' /\ JobOf(k)' = JobOf(k)
  BY <1>2, <1>4 DEF ConversionFails, OwnDeliver, DispatchJobUnsent, Alive, JobOf, LinkInv, Shapes, Process
<1>5. CASE ConversionFails(k) /\ ~UNCHANGED past
  <2>1. past' = [past EXCEPT !["failed"] = past["failed"] \union {JobOf(k)}]
    BY <1>5 DEF ConversionFails
  <2> QED BY <1>4, <1>5, <2>1
<1>6. CASE OwnDeliver(k)
  <2>1. past' = [past EXCEPT !["delivered"] = past["delivered"] \union {JobOf(k)}]
    BY <1>6 DEF OwnDeliver
  <2> QED BY <1>4, <1>6, <2>1
<1>7. CASE DispatchJobUnsent(k)
  <2>1. past' = [past EXCEPT !["unpublished"] = past["unpublished"] \union {JobOf(k)}]
    BY <1>7 DEF DispatchJobUnsent
  <2> QED BY <1>4, <1>7, <2>1
<1> QED BY <1>1, <1>3, <1>5, <1>6, <1>7

(* A dispatch actor is about the job of its message.                       *)
LEMMA SenderIsSeen ==
  ASSUME LinkInv, InHand \subseteq Answered, NothingIsLost', NEW d \in Senders,
         TakeItem(d) \/ Deliver(d) \/ Complete(d) \/ AcknowledgeItem(d) \/ DeliveryFails(d) \/ SenderDies(d)
  PROVE  \/ \E j \in Jobs : Promise!PutDown(j) \/ Promise!Decide(j, "delivered")
         \/ UNCHANGED <<Answered, InHand, Verdicts>>
<1>1. UNCHANGED <<api, parserQueue, parent, child>> /\ past \in History
  BY DEF TakeItem, Deliver, Complete, AcknowledgeItem, DeliveryFails, SenderDies, around, LinkInv, Shapes
<1>2. PICK j \in Jobs :
        /\ dispatchQueue[j] > 0 \/ sender[d].job = j
        /\ sender[d].job = j \/ sender[d].job = NoJob
        /\ \A i \in Jobs \ {j} : dispatchQueue'[i] = dispatchQueue[i]
        /\ \A e \in Senders \ {d} : sender'[e] = sender[e]
        /\ sender'[d].job = j \/ sender'[d].job = NoJob
        /\ Deliver(d) => sender[d].job = j /\ sender'[d].job = j
  <2>1. CASE TakeItem(d)
    <3>1. PICK j \in Jobs :
            /\ dispatchQueue[j] > 0 /\ dispatchQueue' = [dispatchQueue EXCEPT ![j] = @ - 1]
            /\ IF row[j] = NoRow THEN UNCHANGED <<row, sender>>
               ELSE sender' = [sender EXCEPT ![d] = [at |-> "claimed", job |-> j]]
      BY <2>1 DEF TakeItem
    <3>2. sender[d].at = "free" /\ sender[d].job = NoJob
      BY <2>1 DEF TakeItem, LinkInv
    <3>3. sender'[d].job = j \/ sender'[d].job = NoJob
      BY <3>1, <3>2 DEF LinkInv, Shapes
    <3> QED BY <3>1, <3>2, <3>3, <2>1 DEF LinkInv, Shapes, Deliver
  <2>2. CASE Deliver(d) \/ Complete(d) \/ AcknowledgeItem(d) \/ DeliveryFails(d) \/ SenderDies(d)
    <3>1. PICK j \in Jobs : sender[d].job = j /\ sender[d].at # "free"
      BY <2>2 DEF LinkInv, Shapes, Deliver, Complete, AcknowledgeItem, DeliveryFails, SenderDies
    <3>2. \A e \in Senders \ {d} : sender'[e] = sender[e]
      BY <2>2 DEF Deliver, Complete, AcknowledgeItem, DeliveryFails, SenderDies, LinkInv, Shapes
    <3>3. \A i \in Jobs \ {j} : dispatchQueue'[i] = dispatchQueue[i]
      BY <2>2, <3>1 DEF Deliver, Complete, AcknowledgeItem, DeliveryFails, SenderDies, LinkInv, Shapes
    <3>4. Deliver(d) => sender'[d].job = j
      BY <3>1 DEF Deliver, LinkInv, Shapes
    <3>5. ~Deliver(d) => sender'[d].job = NoJob \/ sender'[d].job = j
      BY <2>2, <3>1
         DEF Complete, AcknowledgeItem, DeliveryFails, SenderDies, FreeSender, LinkInv, Shapes
    <3> QED BY <3>1, <3>2, <3>3, <3>4, <3>5
  <2> QED BY <2>1, <2>2
<1>3. ASSUME NEW i \in Jobs \ {j}
      PROVE  Has(i)' <=> Has(i)
  <2>1. InParsing(i)' <=> InParsing(i)
    BY <1>1 DEF InParsing, Holders, JobOf, Alive
  <2>2. InDispatch(i)' <=> InDispatch(i)
    BY <1>2, AbsenceIsNothing DEF InDispatch
  <2> QED BY <2>1, <2>2 DEF Has
<1>4. Has(j)
  BY <1>2 DEF Has, InDispatch
<1>5. HandsOn(j)
  BY <1>3, <1>4 DEF HandsOn
<1>6. CASE Deliver(d)
  <2>1. past' = [past EXCEPT !["delivered"] = past["delivered"] \union {j}]
    BY <1>2, <1>6 DEF Deliver
  <2>2. Has(j)'
    BY <1>2, <1>6 DEF Has, InDispatch
  <2>3. Promise!Decide(j, "delivered")
    BY <1>1, <1>4, <1>5, <2>1, <2>2, TellingStepIsSeen
  <2> QED BY <2>3
<1>7. CASE ~Deliver(d)
  <2>1. TellsNothing
    BY <1>7 DEF TakeItem, Complete, AcknowledgeItem, DeliveryFails, SenderDies, around, TellsNothing
  <2>2. Promise!PutDown(j) \/ UNCHANGED <<Answered, InHand, Verdicts>>
    BY <1>1, <1>5, <2>1, QuietStepIsSeen
  <2> QED BY <2>2
<1> QED BY <1>6, <1>7

(* Every step is a step of AtLeastOnce, or leaves what it speaks of alone. *)
LEMMA StepIsSeen ==
  PipelineInv /\ InHand \subseteq Answered /\ NothingIsLost' /\ [Next]_vars
    => [Promise!ANext]_(Promise!avars)
<1> SUFFICES ASSUME PipelineInv, InHand \subseteq Answered, NothingIsLost', [Next]_vars
             PROVE  Promise!ANext \/ UNCHANGED <<Answered, InHand, Verdicts>>
  BY DEF Promise!avars
<1>1. LinkInv /\ TokenInv /\ past \in History
  BY DEF PipelineInv, LinkInv, Shapes
<1>2. CASE UNCHANGED vars
  BY <1>2 DEF vars, Answered, InHand, InParsing, InDispatch, Holders, JobOf, Alive, Verdicts
<1>3. ASSUME NEW j \in Jobs, Api(j) \/ ParserJobUnsent(j) \/ RemoveJob(j)
      PROVE  Promise!ANext \/ UNCHANGED <<Answered, InHand, Verdicts>>
  BY <1>1, <1>3, ApiIsSeen, RemovalIsSeen DEF Promise!ANext
<1>4. ASSUME NEW p \in Parents, Parent(p) \/ TimeLimit(p) \/ ParentDies(p)
      PROVE  Promise!ANext \/ UNCHANGED <<Answered, InHand, Verdicts>>
  <2>1. PICK j \in Jobs : HandsOn(j) /\ TellsNothing
    BY <1>1, <1>4, ActorHands, ReceiveHands DEF Parent
  <2>2. UNCHANGED api
    BY <1>4 DEF Parent, Receive, TakeResult, Republish, Acknowledge, TimeLimit, ParentDies
  <2>3. Promise!PutDown(j) \/ UNCHANGED <<Answered, InHand, Verdicts>>
    BY <2>1, <2>2, QuietStepIsSeen
  <2> QED BY <2>3 DEF Promise!ANext
<1>5. ASSUME NEW k \in Children,
             \/ Child(k) \/ OwnThread(k) \/ OwnDeliveryFails(k)
             \/ DispatchJobUnsent(k) \/ ChildDies(k)
      PROVE  Promise!ANext \/ UNCHANGED <<Answered, InHand, Verdicts>>
  <2>1. PICK j \in Jobs : j = JobOf(k) /\ HandsOn(j)
    BY <1>1, <1>5, ChildHands
  <2>2. UNCHANGED api
    BY <1>5 DEF Child, Start, ConversionFails, Convert, EnqueueDispatchJob, SaveAgain, End, Reap,
       OwnThread, OwnClaim, OwnDeliver, OwnComplete, OwnDeliveryFails, DispatchJobUnsent, ChildDies, outside
  <2>3. CASE TellsNothing
    <3>1. Promise!PutDown(j) \/ UNCHANGED <<Answered, InHand, Verdicts>>
      BY <2>1, <2>2, <2>3, QuietStepIsSeen
    <3> QED BY <3>1 DEF Promise!ANext
  <2>4. CASE ~TellsNothing
    <3>1. child[k].job \in Jobs
      BY <2>1 DEF JobOf
    <3>2. PICK v \in {"delivered", "failed", "unpublished"} :
            /\ Alive(k) /\ Alive(k)' /\ JobOf(k)' = JobOf(k)
            /\ past' = [past EXCEPT ![v] = past[v] \union {j}]
      BY <1>1, <1>5, <2>1, <2>4, <3>1, ChildTells
    <3>3. Has(j) /\ Has(j)'
      <4>1. Alive(k) /\ JobOf(k) = j
        BY <2>1, <3>2
      <4>2. Alive(k)' /\ JobOf(k)' = j
        BY <2>1, <3>2
      <4>3. InParsing(j)
        BY <4>1 DEF InParsing
      <4>4. InParsing(j)'
        BY <4>2 DEF InParsing
      <4> QED BY <4>3, <4>4 DEF Has
    <3>4. Promise!Decide(j, v)
      BY <1>1, <2>1, <2>2, <3>2, <3>3, TellingStepIsSeen
    <3> QED BY <3>4 DEF Promise!ANext
  <2> QED BY <2>3, <2>4
<1>6. ASSUME NEW d \in Senders, Sender(d) \/ DeliveryFails(d) \/ SenderDies(d)
      PROVE  Promise!ANext \/ UNCHANGED <<Answered, InHand, Verdicts>>
  <2>1. \/ \E j \in Jobs : Promise!PutDown(j) \/ Promise!Decide(j, "delivered")
        \/ UNCHANGED <<Answered, InHand, Verdicts>>
    BY <1>1, <1>6, SenderIsSeen DEF Sender
  <2> QED BY <2>1 DEF Promise!ANext
<1>7. CASE Next
  BY <1>3, <1>4, <1>5, <1>6, <1>7 DEF Next, Faults
<1> QED BY <1>2, <1>7

(* What is in somebody's hands was accepted: the abstract steps keep it.   *)
LEMMA HeldIsAccepted ==
  InHand \subseteq Answered /\ [Promise!ANext]_(Promise!avars) => (InHand \subseteq Answered)'
BY DEF Promise!ANext, Promise!avars, Promise!Accept, Promise!TurnAway, Promise!PutDown,
       Promise!Remove, Promise!Decide

(* Nothing is accepted, held or told at the start.                         *)
LEMMA InitIsSeen == Init => Promise!AInit /\ InHand \subseteq Answered
<1> SUFFICES ASSUME Init PROVE Promise!AInit /\ InHand \subseteq Answered
  OBVIOUS
<1>1. Answered = {}
  BY DEF Init, Answered
<1>2. \A j \in Jobs : Verdicts[j] = {}
  BY DEF Init, Verdicts
<1>3. InHand = {}
  <2>1. \A j \in Jobs : Holders(j) = {}
    BY AbsenceIsNothing DEF Init, Holders, FreeParent
  <2>2. \A k \in Children : ~Alive(k)
    BY DEF Init, NoProcess, Alive
  <2>3. \A d \in Senders : sender[d].job \notin Jobs
    BY AbsenceIsNothing DEF Init, FreeSender
  <2> QED BY <2>1, <2>2, <2>3 DEF Init, InHand, InParsing, InDispatch
<1>4. Verdicts = [j \in Jobs |-> {}]
  BY <1>2 DEF Verdicts
<1> QED BY <1>1, <1>3, <1>4 DEF Promise!AInit

(* The backend implements AtLeastOnce: a job that was accepted leaves its  *)
(* messages, actors and processes only with a verdict, verdicts are        *)
(* reached by somebody who has the job, and what nobody has any more never *)
(* comes back, whatever dies or is delivered again.                        *)
THEOREM BackendKeepsPromise == Spec => PromiseKept
<1> DEFINE HeldInv == InHand \subseteq Answered
<1>1. Init => Promise!AInit /\ HeldInv
  BY InitIsSeen
<1>2. PipelineInv /\ HeldInv /\ NothingIsLost' /\ [Next]_vars
        => [Promise!ANext]_(Promise!avars) /\ HeldInv'
  <2>1. PipelineInv /\ HeldInv /\ NothingIsLost' /\ [Next]_vars => [Promise!ANext]_(Promise!avars)
    BY StepIsSeen
  <2>2. HeldInv /\ [Promise!ANext]_(Promise!avars) => HeldInv'
    BY HeldIsAccepted
  <2> HIDE DEF HeldInv
  <2> QED BY <2>1, <2>2
<1> HIDE DEF HeldInv
<1>3. QED
  BY <1>1, <1>2, PipelineHolds, NothingIsEverLost, PTL DEF Spec, PromiseKept, Promise!ASpec
=============================================================================
