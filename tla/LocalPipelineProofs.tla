------------------------ MODULE LocalPipelineProofs -------------------------
(***************************************************************************)
(* Theorems about LocalPipeline, for any uploads, pools, retries, changes, *)
(* restarts, removals and late heartbeats.                                 *)
(*                                                                         *)
(* PlaceInv has the types and says which pools, processes and requests can *)
(* be busy at all; OnceInv that a service has a job in one place; FailsInv *)
(* and VerdictInv that the counts and verdicts in copies of a row are      *)
(* deserved; NewInv that only its request knows a job that is not saved.   *)
(* QuietInv holds only while nothing has reached in from outside, and is   *)
(* kept by CalmStep: it gives every unfinished row an owner, and leaves a  *)
(* completed one to the process that handed it over, at most.              *)
(***************************************************************************)
EXTENDS LocalPipeline, FiniteSetTheorems, TLAPS

(* A pool's queue as a set, and that nothing is in it twice.               *)
Elems(q) == {q[i] : i \in 1..Len(q)}
Distinct(q) == \A a, b \in 1..Len(q) : q[a] = q[b] => a = b
Line(s) == Elems(pool[s].pending)

(* Nothing goes on in the pool of a service.                               *)
Idle(s) ==
  /\ pool[s].pending = << >> /\ pool[s].submitted = {}
  /\ \A w \in Workers : w[1] = s => worker[w] = Free /\ handed[w] = {} /\ beat[w] = NoBeat

(* A worker process has a job while it works, and a heartbeat that is not *)
(* late is of the conversion it is at.                                     *)
WorkerIsSound(w) ==
  /\ worker[w].step \notin {"free", "dead"} => worker[w].job \in Jobs
  /\ worker[w].step = "free" => worker[w] = Free
  /\ beat[w] # NoBeat /\ ~beat[w].late =>
       worker[w].step = "convert" /\ beat[w].job = worker[w].job

(* A request was given a service of this start of the API.                 *)
RequestIsSound(r) ==
  /\ request[r].step \in {"resolved", "saved"} =>
       service.boot < request[r].to /\ request[r].to <= service.made
  /\ request[r].step \in {"settings", "recover"} => request[r].key # 0

(* The service in use is the last one made.                                *)
ServiceIsSound ==
  /\ service.settings = faults.changes + 1
  /\ service.boot <= service.made
  /\ service.current = IF service.made = service.boot THEN 0 ELSE service.made
  /\ service.current = 0 => service.key = 0

(* Pools of before the restart, and of services yet to come, are idle.     *)
PoolIsSound(s) ==
  /\ s > service.made => pool[s] = NewPool
  /\ s = service.current => pool[s].open
  /\ s <= service.boot \/ s > service.made => Idle(s)

(* Only a removal kills, and each kills one process at most.               *)
Removing == {j \in Jobs : removal[j] # NoRemoval}
KillInv ==
  /\ faults.kills + Cardinality(Removing) <= faults.removals
  /\ faults.kills = 0 =>
       /\ \A w \in Workers : worker[w].step # "dead"
       /\ \A s \in Services : ~pool[s].broken

(* Types and places: the invariant everything else rests on.               *)
PlaceInv ==
  /\ LTypeOK /\ ServiceIsSound /\ KillInv
  /\ \A w \in Workers : WorkerIsSound(w)
  /\ \A r \in Requests : RequestIsSound(r)
  /\ \A s \in Services : PoolIsSound(s)

(* A service has a job in one place.                                       *)
OnceIn(s) ==
  /\ Distinct(pool[s].pending) /\ Line(s) \subseteq pool[s].submitted
  /\ \A w \in Workers : w[1] = s /\ worker[w].job \in Jobs =>
       worker[w].job \in pool[s].submitted /\ worker[w].job \notin Line(s)
  /\ \A v, w \in Workers :
       v[1] = s /\ w[1] = s /\ worker[v].job \in Jobs /\ worker[v].job = worker[w].job => v = w
OnceInv == \A s \in Services : OnceIn(s)

(* The failure counts that are about in copies, and failures still to be   *)
(* counted.                                                                *)
Failing(j) == {w \in Workers : worker[w].step \in {"failed", "failing"} /\ worker[w].job = j}
Bounded(j, n) == failures[j] < MaxFailures => n + Cardinality(Failing(j)) <= failures[j]
FailsInv ==
  \A j \in Jobs :
    /\ Bounded(j, 0)
    /\ row[j] # NoRow => Bounded(j, row[j].fails)
    /\ \A w \in Workers :
         /\ worker[w].job = j => Bounded(j, worker[w].fails)
         /\ Reporting(w) /\ beat[w].job = j => Bounded(j, beat[w].copy.fails)

(* A verdict that is about in copies is deserved.                          *)
Deserved(j, r) == r.status = "failed" /\ "refused" \notin outcome[j] => failures[j] > MaxRetries
VerdictInv ==
  /\ \A j \in Jobs : row[j] # NoRow => Deserved(j, row[j])
  /\ \A w \in Workers : Reporting(w) => Deserved(beat[w].job, beat[w].copy)

(* Nobody but the request knows the job.                                   *)
Nowhere(j) ==
  /\ \A s \in Services : j \notin Line(s) /\ j \notin pool[s].submitted
  /\ \A w \in Workers :
       /\ worker[w].job # j /\ j \notin handed[w]
       /\ beat[w] # NoBeat => beat[w].job # j

(* Before its row is saved a job is known to its request only.             *)
Untouched(j) ==
  request[j].step \in {"new", "settings", "recover", "resolved"} => row[j] = NoRow /\ Nowhere(j)
NewInv == \A j \in Jobs : Untouched(j)

(* What else holds while nothing reaches in from outside: the service is   *)
(* brought up by one request, before anything is in a pool; a job handed   *)
(* to the dispatchers is nowhere else, but for the process that hands it   *)
(* over; a completed one is with that process at most, and no heartbeat    *)
(* that will save holds its row; what a process hands over is in its queue *)
(* or settled; and an unfinished one, unless put off or overtaken by its   *)
(* verdict, is somewhere.                                                  *)
OneRecovery ==
  /\ \A r \in Requests : request[r].step # "rejected"
  /\ \A r \in Requests : request[r].step = "recover" => service.current # 0 /\ service.key = 0
  /\ \A q, r \in Requests : request[q].step = "recover" /\ request[r].step = "recover" => q = r
  /\ service.key = 0 =>
       /\ \A s \in Services : Idle(s)
       /\ \A r \in Requests : request[r].step \notin {"resolved", "saved"}
Ending == {"enqueued", "saved", "done"}
HandedOnce ==
  \A w \in Workers : \A j \in handed[w] :
    /\ \A s \in Services : j \notin Line(s)
    /\ \A v \in Workers : /\ worker[v].job = j => worker[v].step \in Ending
                          /\ j \in handed[v] => v = w
SavedIsNew == \A j \in Jobs : request[j].step = "saved" => Nowhere(j) /\ ~RowIs(j, "completed")
Underway(j) ==
  \/ request[j].step \in {"saved", "rejected"}
  \/ \E s \in Services : j \in Line(s)
  \/ \E w \in Workers : worker[w].job = j /\ worker[w].step \notin Ending
  \/ \E w \in Workers : j \in handed[w]
CompletedIsFree == \A j \in Jobs : RowIs(j, "completed") => ~Underway(j)
Settled(j) == outcome[j] \intersect {"completed", "refused", "skipped"} # {}
HandedOverIsSeen ==
  \A w \in Workers :
    worker[w].step \in {"enqueued", "saved"} => worker[w].job \in handed[w] \/ Settled(worker[w].job)
BeatsAreActive ==
  \A w \in Workers : Reporting(w) /\ ~beat[w].late => beat[w].copy.status # "completed"
ActiveIsOwned ==
  service.key # 0 =>
    \A j \in ActiveJobs : RowIs(j, "retryable_failure") \/ Owned(j) \/ Overtaken(j)
QuietInv ==
  Undisturbed =>
    /\ OneRecovery /\ HandedOnce /\ SavedIsNew /\ CompletedIsFree /\ HandedOverIsSeen
    /\ BeatsAreActive /\ ActiveIsOwned

-----------------------------------------------------------------------------
(* The queue of a pool                                                     *)

(* A job put at the end.                                                   *)
LEMMA AppendLine ==
  ASSUME NEW q \in Seq(Jobs), NEW j \in Jobs
  PROVE  /\ Append(q, j) \in Seq(Jobs) /\ Append(q, j) # << >>
         /\ Elems(Append(q, j)) = Elems(q) \union {j}
         /\ Distinct(q) /\ j \notin Elems(q) => Distinct(Append(q, j))
<1>1. /\ Append(q, j) \in Seq(Jobs) /\ Len(q) \in Nat
      /\ Len(Append(q, j)) = Len(q) + 1
      /\ \A i \in 1..Len(q) : Append(q, j)[i] = q[i]
      /\ Append(q, j)[Len(q) + 1] = j
  OBVIOUS
<1>2. Elems(Append(q, j)) \subseteq Elems(q) \union {j}
  <2> SUFFICES ASSUME NEW i \in 1..Len(q) + 1 PROVE Append(q, j)[i] \in Elems(q) \union {j}
    BY <1>1 DEF Elems
  <2>1. CASE i \in 1..Len(q)
    BY <1>1, <2>1 DEF Elems
  <2>2. CASE i = Len(q) + 1
    BY <1>1, <2>2
  <2> QED BY <1>1, <2>1, <2>2
<1>3. Elems(q) \union {j} \subseteq Elems(Append(q, j))
  <2>1. j \in Elems(Append(q, j))
    BY <1>1 DEF Elems
  <2>2. ASSUME NEW i \in 1..Len(q) PROVE q[i] \in Elems(Append(q, j))
    BY <1>1 DEF Elems
  <2> QED BY <2>1, <2>2 DEF Elems
<1>4. ASSUME Distinct(q), j \notin Elems(q) PROVE Distinct(Append(q, j))
  <2>1. \A i \in 1..Len(q) : q[i] # j
    BY <1>4 DEF Elems
  <2> QED BY <1>1, <1>4, <2>1 DEF Distinct
<1>5. Append(q, j) # << >>
  BY <1>1
<1> QED BY <1>1, <1>2, <1>3, <1>4, <1>5

(* The first job taken.                                                    *)
LEMMA TailLine ==
  ASSUME NEW q \in Seq(Jobs), q # << >>
  PROVE  /\ Head(q) \in Jobs /\ Head(q) \in Elems(q) /\ Tail(q) \in Seq(Jobs)
         /\ Elems(q) = Elems(Tail(q)) \union {Head(q)}
         /\ Distinct(q) => Distinct(Tail(q)) /\ Head(q) \notin Elems(Tail(q))
<1>1. /\ Tail(q) \in Seq(Jobs) /\ Len(q) \in Nat /\ Len(q) > 0
      /\ Len(Tail(q)) = Len(q) - 1
      /\ \A i \in 1..Len(q) - 1 : Tail(q)[i] = q[i + 1]
      /\ Head(q) = q[1] /\ Head(q) \in Jobs
  OBVIOUS
<1>2. Head(q) \in Elems(q)
  BY <1>1 DEF Elems
<1>3. Elems(Tail(q)) \subseteq Elems(q)
  <2> SUFFICES ASSUME NEW i \in 1..Len(q) - 1 PROVE q[i + 1] \in Elems(q)
    BY <1>1 DEF Elems
  <2>1. i + 1 \in 1..Len(q)
    BY <1>1
  <2> QED BY <2>1 DEF Elems
<1>4. Elems(q) \subseteq Elems(Tail(q)) \union {Head(q)}
  <2> SUFFICES ASSUME NEW i \in 1..Len(q), i # 1 PROVE q[i] \in Elems(Tail(q))
    BY <1>1 DEF Elems
  <2>1. i - 1 \in 1..Len(q) - 1 /\ Tail(q)[i - 1] = q[i]
    BY <1>1
  <2> QED BY <1>1, <2>1 DEF Elems
<1>5. ASSUME Distinct(q) PROVE Distinct(Tail(q)) /\ Head(q) \notin Elems(Tail(q))
  <2>1. \A a \in 1..Len(q) - 1 : a + 1 \in 1..Len(q) /\ a + 1 # 1
    BY <1>1
  <2>2. Distinct(Tail(q))
    BY <1>1, <1>5, <2>1 DEF Distinct
  <2>3. \A a \in 1..Len(q) - 1 : q[a + 1] # q[1]
    BY <1>1, <1>5, <2>1 DEF Distinct
  <2> QED BY <1>1, <2>2, <2>3 DEF Elems
<1> QED BY <1>1, <1>2, <1>3, <1>4, <1>5

(* Jobs listed in some order, put at the end.                              *)
LEMMA ListLine ==
  ASSUME NEW q \in Seq(Jobs), NEW S \in SUBSET Jobs, NEW f \in Listings(S)
  PROVE  /\ q \o f \in Seq(Jobs)
         /\ Elems(q \o f) = Elems(q) \union S
         /\ Distinct(q) /\ Elems(q) \intersect S = {} => Distinct(q \o f)
<1> DEFINE n == Cardinality(S)
<1>1. IsFiniteSet(S) /\ n \in Nat
  BY PipelineIsFinite, FS_Subset, FS_CardinalityType
<1>2. f \in [1..n -> S] /\ \A a, b \in 1..n : f[a] = f[b] => a = b
  BY DEF Listings
<1>3. f \in Injection(1..n, S) /\ IsFiniteSet(1..n) /\ Cardinality(1..n) = n
  <2>1. f \in Injection(1..n, S)
    BY <1>2 DEF Injection, IsInjective
  <2>2. IsFiniteSet(1..n) /\ Cardinality(1..n) = n
    BY <1>1, FS_Interval
  <2> QED BY <2>1, <2>2
<1>4. f \in Surjection(1..n, S)
  BY <1>1, <1>3, FS_Injection
<1>5. \A x \in S : \E i \in 1..n : f[i] = x
  BY <1>4 DEF Surjection
<1> HIDE DEF n
<1>6. f \in Seq(S) /\ Len(f) = n
  BY <1>1, <1>2
<1>7. f \in Seq(Jobs)
  BY <1>1, <1>2
<1>8. /\ q \o f \in Seq(Jobs) /\ Len(q) \in Nat /\ Len(q \o f) = Len(q) + n
      /\ \A i \in 1..Len(q) : (q \o f)[i] = q[i]
      /\ \A i \in 1..n : (q \o f)[Len(q) + i] = f[i]
  BY <1>1, <1>6, <1>7
<1>9. \A i \in 1..Len(q) + n : i \in 1..Len(q) \/ (i - Len(q) \in 1..n /\ (q \o f)[i] = f[i - Len(q)])
  <2> SUFFICES ASSUME NEW i \in 1..Len(q) + n, i \notin 1..Len(q)
               PROVE  i - Len(q) \in 1..n /\ (q \o f)[i] = f[i - Len(q)]
    OBVIOUS
  <2>1. i - Len(q) \in 1..n /\ Len(q) + (i - Len(q)) = i
    BY <1>1, <1>8
  <2> QED BY <1>8, <2>1
<1>10. Elems(q \o f) \subseteq Elems(q) \union S
  BY <1>2, <1>8, <1>9 DEF Elems
<1>11. Elems(q) \union S \subseteq Elems(q \o f)
  <2>1. \A i \in 1..Len(q) : i \in 1..Len(q) + n
    BY <1>1, <1>8
  <2>2. \A i \in 1..n : Len(q) + i \in 1..Len(q) + n
    BY <1>1, <1>8
  <2> QED BY <1>5, <1>8, <2>1, <2>2 DEF Elems
<1>12. ASSUME Distinct(q), Elems(q) \intersect S = {} PROVE Distinct(q \o f)
  <2> SUFFICES ASSUME NEW a \in 1..Len(q) + n, NEW b \in 1..Len(q) + n,
                      (q \o f)[a] = (q \o f)[b]
               PROVE  a = b
    BY <1>8 DEF Distinct
  <2>1. \A i \in 1..Len(q) : q[i] \notin S
    BY <1>12 DEF Elems
  <2>2. CASE a \in 1..Len(q) /\ b \in 1..Len(q)
    BY <1>8, <1>12, <2>2 DEF Distinct
  <2>3. CASE a \notin 1..Len(q) /\ b \notin 1..Len(q)
    <3>1. a - Len(q) = b - Len(q)
      BY <1>2, <1>9, <2>3
    <3> QED BY <1>8, <3>1
  <2>4. \A i \in 1..Len(q) + n : i \in 1..Len(q) <=> (q \o f)[i] \notin S
    BY <1>2, <1>8, <1>9, <2>1
  <2> QED BY <2>2, <2>3, <2>4
<1> QED BY <1>8, <1>10, <1>11, <1>12

(* A queue nobody has put anything in.                                     *)
LEMMA EmptyLine == Elems(<< >>) = {} /\ Distinct(<< >>)
BY DEF Elems, Distinct

-----------------------------------------------------------------------------
(* Types                                                                   *)

\* What the steps start from.
LEMMA TypeFacts ==
  ASSUME PlaceInv
  PROVE  /\ row \in [Jobs -> Row \union {NoRow}]
         /\ request \in [Requests -> RequestState]
         /\ removal \in [Jobs -> Workers \union {NoPid, NoRemoval}]
         /\ service \in ServiceState
         /\ pool \in [Services -> PoolState]
         /\ worker \in [Workers -> WorkerState]
         /\ handed \in [Workers -> SUBSET Jobs]
         /\ beat \in [Workers -> Beat \union {NoBeat}]
         /\ failures \in [Jobs -> 0..MaxFailures]
         /\ outcome \in [Jobs -> SUBSET Verdicts]
         /\ faults \in FaultState
BY DEF PlaceInv, LTypeOK

\* And what is where.
LEMMA PlaceFacts ==
  ASSUME PlaceInv
  PROVE  /\ ServiceIsSound /\ KillInv
         /\ \A w \in Workers : WorkerIsSound(w) /\ w[1] \in Services
         /\ \A r \in Requests : RequestIsSound(r)
         /\ \A s \in Services : PoolIsSound(s)
         /\ \A j \in Jobs : j \in Requests
BY DEF PlaceInv, Workers, Requests

\* Saved rows are rows.
LEMMA SavedIsRow ==
  ASSUME PlaceInv, NEW j \in Jobs, NEW status \in RowStatus, NEW fails \in Nat,
         NEW pid \in Workers \union {NoPid}, Save(j, status, fails, pid)
  PROVE  row' \in [Jobs -> Row \union {NoRow}]
<1>1. [status |-> status, fails |-> fails, pid |-> pid] \in Row
  BY DEF Row
<1> QED BY <1>1, TypeFacts DEF Save

\* A request that moves is in a state of requests.
LEMMA MovedRequest ==
  ASSUME PlaceInv, NEW r \in Requests, NEW step \in RequestSteps
  PROVE  /\ Moves(r, step) => request' \in [Requests -> RequestState]
         /\ Reaches(r, step) => request' \in [Requests -> RequestState]
<1>1. request \in [Requests -> RequestState]
  BY TypeFacts
<1>2. Asking(step) \in RequestState
  BY PipelineBounds DEF Asking, RequestState
<1>3. [request[r] EXCEPT !.step = step] \in RequestState
  BY <1>1 DEF RequestState
<1> QED BY <1>1, <1>2, <1>3 DEF Moves, Reaches

\* A pool that is given a job, or has one taken off its list, is a pool.
LEMMA PoolsStay ==
  ASSUME NEW p \in PoolState, NEW j \in Jobs
  PROVE  SubmitJob(p, j) \in PoolState /\ ReleaseJob(p, j) \in PoolState
<1>1. ReleaseJob(p, j) \in PoolState
  BY DEF ReleaseJob, PoolState
<1>2. p.pending \in Seq(Jobs)
  BY DEF PoolState
<1>3. Append(p.pending, j) \in Seq(Jobs)
  BY <1>2, AppendLine
<1> QED BY <1>1, <1>2, <1>3 DEF SubmitJob, PoolState

\* The steps of requests and of the service.
LEMMA RequestTypes ==
  ASSUME PlaceInv,
         \/ \E r \in Requests : GetService(r)
         \/ \E j \in Jobs : Upload(j)
         \/ ChangeSettings
  PROVE  LTypeOK'
<1>1. /\ request \in [Requests -> RequestState] /\ service \in ServiceState
      /\ pool \in [Services -> PoolState]
  BY TypeFacts
<1>2. ASSUME NEW r \in Requests, NEW k \in 0..MaxChanges + 1, NEW t \in 0..MaxServices,
             request' = [request EXCEPT ![r] = [step |-> "resolved", key |-> k, to |-> t]]
      PROVE  request' \in [Requests -> RequestState]
  <2>1. [step |-> "resolved", key |-> k, to |-> t] \in RequestState
    BY DEF RequestState, RequestSteps
  <2> QED BY <1>1, <1>2, <2>1
<1>3. ASSUME NEW r \in Requests, ReadSettings(r) PROVE LTypeOK'
  <2>1. [request[r] EXCEPT !.step = "settings", !.key = service.settings] \in RequestState
    <3>1. request[r] \in RequestState /\ service.settings \in 0..MaxChanges + 1
      BY <1>1, PipelineBounds DEF ServiceState
    <3> QED BY <3>1 DEF RequestState, RequestSteps
  <2>2. request' = [request EXCEPT ![r] = [request[r] EXCEPT !.step = "settings", !.key = service.settings]]
    BY <1>1, <1>3 DEF ReadSettings
  <2>3. request' \in [Requests -> RequestState]
    BY <1>1, <2>1, <2>2
  <2> QED BY <1>3, <2>3, TypeFacts DEF ReadSettings, PipelineUnchanged, LTypeOK
<1>4. ASSUME NEW r \in Requests, UseService(r) PROVE LTypeOK'
  <2>1. service.current \in 0..MaxServices /\ 0 \in 0..MaxChanges + 1
    BY <1>1, PipelineBounds DEF ServiceState
  <2>2. request' \in [Requests -> RequestState]
    BY <1>2, <1>4, <2>1 DEF UseService
  <2> QED BY <1>4, <2>2, TypeFacts DEF UseService, PipelineUnchanged, LTypeOK
<1>5. ASSUME NEW r \in Requests, CreateService(r) PROVE LTypeOK'
  <2>1. service' \in ServiceState
    <3>1. service.made < MaxServices /\ service' = [service EXCEPT !.current = service.made + 1, !.made = @ + 1]
      BY <1>5 DEF CreateService
    <3>2. service.made + 1 \in 0..MaxServices
      BY <1>1, <3>1, PipelineBounds DEF ServiceState
    <3> QED BY <1>1, <3>1, <3>2 DEF ServiceState
  <2>2. pool' \in [Services -> PoolState]
    <3>1. \A s \in Services : [pool[s] EXCEPT !.open = FALSE] \in PoolState
      BY <1>1 DEF PoolState
    <3>2. pool' = pool \/ pool' = [pool EXCEPT ![service.current].open = FALSE]
      BY <1>5 DEF CreateService
    <3> QED BY <1>1, <3>1, <3>2
  <2>3. request' \in [Requests -> RequestState]
    BY <1>5, MovedRequest DEF CreateService, RequestSteps
  <2> QED BY <1>5, <2>1, <2>2, <2>3, TypeFacts DEF CreateService, PipelineUnchanged, LTypeOK
<1>6. ASSUME NEW r \in Requests, RecoverActiveJobs(r) PROVE LTypeOK'
  <2>1. PICK s \in Services, new \in SUBSET Jobs :
          /\ s = service.current /\ new = ActiveJobs \ pool[s].submitted
          /\ \E order \in Listings(new) :
               pool' = [pool EXCEPT ![s].submitted = @ \union new, ![s].pending = @ \o order]
          /\ service' = [service EXCEPT !.key = request[r].key]
          /\ request' = [request EXCEPT ![r] = [step |-> "resolved", key |-> 0, to |-> s]]
    <3>1. service.current \in Services
      BY <1>1, <1>6, PipelineBounds DEF RecoverActiveJobs, ServiceState, Services
    <3>2. ActiveJobs \ pool[service.current].submitted \in SUBSET Jobs
      BY DEF ActiveJobs
    <3> QED BY <1>6, <3>1, <3>2 DEF RecoverActiveJobs
  <2>2. pool' \in [Services -> PoolState]
    <3>1. PICK order \in Listings(new) :
            pool' = [pool EXCEPT ![s].submitted = @ \union new, ![s].pending = @ \o order]
      BY <2>1
    <3>2. pool[s] \in PoolState
      BY <1>1
    <3>3. pool[s].pending \o order \in Seq(Jobs)
      BY <3>2, ListLine DEF PoolState
    <3>4. [pool[s] EXCEPT !.submitted = @ \union new, !.pending = @ \o order] \in PoolState
      BY <3>2, <3>3 DEF PoolState
    <3> QED BY <1>1, <3>1, <3>4
  <2>3. service' \in ServiceState
    <3>1. request[r].key \in 0..MaxChanges + 1
      BY <1>1 DEF RequestState
    <3> QED BY <1>1, <2>1, <3>1 DEF ServiceState
  <2>4. outcome' \in [Jobs -> SUBSET Verdicts]
    BY <1>6, TypeFacts DEF RecoverActiveJobs
  <2>5. request' \in [Requests -> RequestState]
    <3>1. request' = [request EXCEPT ![r] = [step |-> "resolved", key |-> 0, to |-> s]]
      BY <2>1
    <3>2. 0 \in 0..MaxChanges + 1 /\ s \in 0..MaxServices
      BY PipelineBounds DEF Services
    <3> QED BY <1>2, <3>1, <3>2
  <2>6. UNCHANGED <<row, removal, worker, handed, beat, failures, faults>>
    BY <1>6 DEF RecoverActiveJobs
  <2> QED BY <2>2, <2>3, <2>4, <2>5, <2>6, TypeFacts DEF LTypeOK
<1>7. ASSUME NEW j \in Jobs, SaveUpload(j) PROVE LTypeOK'
  <2>1. row' \in [Jobs -> Row \union {NoRow}]
    BY <1>7, SavedIsRow DEF SaveUpload, RowStatus
  <2>2. request' \in [Requests -> RequestState]
    BY <1>7, MovedRequest, PlaceFacts DEF SaveUpload, RequestSteps
  <2> QED BY <1>7, <2>1, <2>2, TypeFacts DEF SaveUpload, PipelineUnchanged, LTypeOK
<1>8. ASSUME NEW j \in Jobs, SubmitUpload(j) PROVE LTypeOK'
  <2>1. request[j].to \in Services
    <3>1. RequestIsSound(j) /\ request[j].step = "saved" /\ request[j] \in RequestState
      BY <1>1, <1>8, PlaceFacts DEF SubmitUpload, At
    <3>2. service.boot \in Nat /\ service.made \in 0..MaxServices /\ request[j].to \in Nat
      BY <1>1, <3>1 DEF ServiceState, RequestState
    <3> QED BY <3>1, <3>2, PipelineBounds DEF RequestIsSound, Services
  <2>2. pool' \in [Services -> PoolState]
    BY <1>1, <1>8, <2>1, PoolsStay DEF SubmitUpload
  <2>3. request' \in [Requests -> RequestState]
    BY <1>8, MovedRequest, PlaceFacts DEF SubmitUpload, RequestSteps
  <2> QED BY <1>8, <2>2, <2>3, TypeFacts DEF SubmitUpload, PipelineUnchanged, LTypeOK
<1>9. ASSUME NEW j \in Jobs, SaveRejected(j) PROVE LTypeOK'
  <2>1. row' \in [Jobs -> Row \union {NoRow}]
    BY <1>9, SavedIsRow DEF SaveRejected, RowStatus
  <2>2. request' \in [Requests -> RequestState]
    BY <1>9, MovedRequest, PlaceFacts DEF SaveRejected, RequestSteps
  <2>3. outcome' \in [Jobs -> SUBSET Verdicts]
    BY <1>9, TypeFacts DEF SaveRejected, Verdicts
  <2> QED BY <1>9, <2>1, <2>2, <2>3, TypeFacts DEF SaveRejected, LTypeOK
<1>10. CASE ChangeSettings
  <2>1. /\ faults \in FaultState /\ faults.changes < MaxChanges
        /\ service.settings = faults.changes + 1
    BY <1>10, TypeFacts, PlaceFacts DEF ChangeSettings, ServiceIsSound
  <2>2. faults.changes + 1 \in 0..MaxChanges /\ service.settings + 1 \in 1..MaxChanges + 1
    BY <2>1, PipelineBounds DEF FaultState
  <2>3. service' = [service EXCEPT !.settings = service.settings + 1]
        /\ faults' = [faults EXCEPT !.changes = faults.changes + 1]
    BY <1>10 DEF ChangeSettings
  <2>4. service' \in ServiceState /\ faults' \in FaultState
    BY <1>1, <2>1, <2>2, <2>3 DEF ServiceState, FaultState
  <2> QED BY <1>10, <2>4, TypeFacts DEF ChangeSettings, PipelineUnchanged, LTypeOK
<1> QED BY <1>3, <1>4, <1>5, <1>6, <1>7, <1>8, <1>9, <1>10 DEF GetService, Upload

\* What a worker process is told to do, and the row it reads.
LEMMA WorkerFacts ==
  ASSUME PlaceInv, NEW w \in Workers
  PROVE  /\ worker[w] \in WorkerState /\ worker[w].fails \in Nat /\ w[1] \in Services
         /\ worker[w].step \notin {"free", "dead"} => worker[w].job \in Jobs
         /\ beat[w] # NoBeat => beat[w] \in Beat /\ beat[w].job \in Jobs
         /\ Reporting(w) => beat[w].copy \in Row
         /\ \A j \in Jobs : row[j] # NoRow => row[j] \in Row /\ row[j].fails \in Nat
<1>1. /\ worker[w] \in WorkerState /\ beat[w] \in Beat \union {NoBeat}
      /\ \A j \in Jobs : row[j] \in Row \union {NoRow}
  BY TypeFacts
<1>2. worker[w].fails \in Nat
  BY <1>1 DEF WorkerState
<1>3. w[1] \in Services /\ WorkerIsSound(w)
  BY PlaceFacts
<1>4. beat[w] # NoBeat => beat[w] \in Beat /\ beat[w].job \in Jobs /\ beat[w].copy \in Row \union {NoRow}
  BY <1>1 DEF Beat
<1>5. \A j \in Jobs : row[j] # NoRow => row[j] \in Row /\ row[j].fails \in Nat
  BY <1>1 DEF Row
<1> QED BY <1>1, <1>2, <1>3, <1>4, <1>5 DEF WorkerIsSound, Reporting

\* What a worker process makes of the row it reads after the conversion.
LEMMA LatestFails ==
  ASSUME PlaceInv, NEW w \in Workers, ReadLatest(w)
  PROVE  \E n \in Nat, y \in {"failing", "parsed"} :
           worker' = [worker EXCEPT ![w] = [step |-> y, job |-> worker[w].job, fails |-> n]]
<1>1. worker[w].job \in Jobs /\ worker[w].fails \in Nat
  BY WorkerFacts DEF ReadLatest, Doing
<1>2. row[worker[w].job] # NoRow => row[worker[w].job].fails \in Nat
  BY <1>1, WorkerFacts
<1> QED BY <1>1, <1>2 DEF ReadLatest

\* A worker process that goes a step further is in a state of workers.
LEMMA MovedWorker ==
  ASSUME PlaceInv, NEW w \in Workers, NEW step \in WorkerSteps
  PROVE  /\ Becomes(w, step) => worker' \in [Workers -> WorkerState]
         /\ Returns(w, step) => worker' \in [Workers -> WorkerState]
<1>1. worker \in [Workers -> WorkerState]
  BY TypeFacts
<1>2. [worker[w] EXCEPT !.step = step] \in WorkerState
  BY <1>1 DEF WorkerState
<1>3. [worker[w] EXCEPT !.step = step, !.fails = 0] \in WorkerState
  BY <1>1 DEF WorkerState
<1>4. Becomes(w, step) => worker' = [worker EXCEPT ![w] = [worker[w] EXCEPT !.step = step]]
  BY DEF Becomes
<1>5. Returns(w, step) => worker' = [worker EXCEPT ![w] = [worker[w] EXCEPT !.step = step, !.fails = 0]]
  BY DEF Returns
<1> QED BY <1>1, <1>2, <1>3, <1>4, <1>5

\* A heartbeat that is told to end is one all the same.
LEMMA StoppedBeat ==
  ASSUME PlaceInv, NEW w \in Workers, StopBeat(w)
  PROVE  beat' \in [Workers -> Beat \union {NoBeat}]
<1>1. beat \in [Workers -> Beat \union {NoBeat}]
  BY TypeFacts
<1>2. beat[w] # NoBeat => [beat[w] EXCEPT !.late = TRUE] \in Beat
  BY <1>1 DEF Beat
<1>3. beat' = [beat EXCEPT ![w] = IF beat[w] = NoBeat THEN beat[w] ELSE [beat[w] EXCEPT !.late = TRUE]]
  BY DEF StopBeat
<1> QED BY <1>1, <1>2, <1>3

\* The steps of a worker process.
LEMMA ProcessTypes ==
  ASSUME PlaceInv, NEW w \in Workers, Process(w)
  PROVE  LTypeOK'
<1> DEFINE j == worker[w].job
<1>1. CASE Take(w)
  <2>1. PICK s \in Services, k \in Jobs :
          /\ s = w[1] /\ k = Head(pool[s].pending)
          /\ pool' = [pool EXCEPT ![s].pending = Tail(@)]
          /\ worker' = [worker EXCEPT ![w] =
               IF row[k] = NoRow THEN [step |-> "done", job |-> k, fails |-> 0]
               ELSE [step |-> "start", job |-> k, fails |-> row[k].fails]]
          /\ Tail(pool[s].pending) \in Seq(Jobs)
    <3>1. pool[w[1]] \in PoolState /\ pool[w[1]].pending # << >> /\ w[1] \in Services
      BY <1>1, WorkerFacts, TypeFacts DEF Take
    <3>2. pool[w[1]].pending \in Seq(Jobs)
      BY <3>1 DEF PoolState
    <3>3. Head(pool[w[1]].pending) \in Jobs /\ Tail(pool[w[1]].pending) \in Seq(Jobs)
      BY <3>1, <3>2, TailLine
    <3> QED BY <1>1, <3>1, <3>3 DEF Take
  <2>2. pool' \in [Services -> PoolState]
    <3>1. pool \in [Services -> PoolState]
      BY TypeFacts
    <3>2. [pool[s] EXCEPT !.pending = Tail(@)] \in PoolState
      BY <2>1, <3>1 DEF PoolState
    <3> QED BY <2>1, <3>1, <3>2
  <2>3. worker' \in [Workers -> WorkerState]
    <3>1. worker \in [Workers -> WorkerState]
      BY TypeFacts
    <3>2. row[k] # NoRow => row[k].fails \in Nat
      BY WorkerFacts
    <3>3. [step |-> "done", job |-> k, fails |-> 0] \in WorkerState
      BY DEF WorkerState, WorkerSteps
    <3>4. row[k] # NoRow => [step |-> "start", job |-> k, fails |-> row[k].fails] \in WorkerState
      BY <3>2 DEF WorkerState, WorkerSteps
    <3> QED BY <2>1, <3>1, <3>3, <3>4
  <2>4. UNCHANGED <<row, request, removal, service, handed, beat, failures, outcome, faults>>
    BY <1>1 DEF Take
  <2> QED BY <2>2, <2>3, <2>4, TypeFacts DEF LTypeOK
<1>2. CASE Start(w)
  <2>1. j \in Jobs /\ worker[w].fails \in Nat
    BY <1>2, WorkerFacts DEF Start, Doing
  <2>2. row' \in [Jobs -> Row \union {NoRow}]
    BY <1>2, <2>1, SavedIsRow DEF Start, RowStatus
  <2>3. worker' \in [Workers -> WorkerState]
    BY <1>2, MovedWorker DEF Start, WorkerSteps
  <2>4. UNCHANGED <<request, removal, service, pool, handed, beat, failures, outcome, faults>>
    BY <1>2 DEF Start, ServiceUnchanged
  <2> QED BY <2>2, <2>3, <2>4, TypeFacts DEF LTypeOK
<1>3. CASE ConvertFails(w)
  <2>1. worker' \in [Workers -> WorkerState]
    BY <1>3, MovedWorker DEF ConvertFails, WorkerSteps
  <2>2. beat' \in [Workers -> Beat \union {NoBeat}]
    BY <1>3, StoppedBeat DEF ConvertFails
  <2>3. failures' \in [Jobs -> 0..MaxFailures]
    <3>1. failures \in [Jobs -> 0..MaxFailures] /\ j \in Jobs
      BY <1>3, TypeFacts, WorkerFacts DEF ConvertFails, Doing
    <3>2. failures[j] # MaxFailures => failures[j] + 1 \in 0..MaxFailures
      BY <3>1, PipelineBounds
    <3>3. failures' = [failures EXCEPT ![j] = IF @ = MaxFailures THEN @ ELSE @ + 1]
      BY <1>3 DEF ConvertFails
    <3> QED BY <3>1, <3>2, <3>3
  <2>4. UNCHANGED <<row, request, removal, service, pool, handed, outcome, faults>>
    BY <1>3 DEF ConvertFails, ServiceUnchanged
  <2> QED BY <2>1, <2>2, <2>3, <2>4, TypeFacts DEF LTypeOK
<1>4. CASE ConvertSucceeds(w)
  <2>1. worker' \in [Workers -> WorkerState]
    BY <1>4, MovedWorker DEF ConvertSucceeds, WorkerSteps
  <2>2. beat' \in [Workers -> Beat \union {NoBeat}]
    BY <1>4, StoppedBeat DEF ConvertSucceeds
  <2>4. UNCHANGED <<row, request, removal, service, pool, handed, failures, outcome, faults>>
    BY <1>4 DEF ConvertSucceeds, ServiceUnchanged
  <2> QED BY <2>1, <2>2, <2>4, TypeFacts DEF LTypeOK
<1>5. CASE ReadLatest(w)
  <2>1. PICK n \in Nat, step \in {"failing", "parsed"} :
          worker' = [worker EXCEPT ![w] = [step |-> step, job |-> j, fails |-> n]]
    BY <1>5, LatestFails
  <2>2. [step |-> step, job |-> j, fails |-> n] \in WorkerState
    BY <1>5, WorkerFacts DEF ReadLatest, Doing, WorkerState, WorkerSteps
  <2>3. worker' \in [Workers -> WorkerState]
    BY <2>1, <2>2, TypeFacts
  <2>4. UNCHANGED <<row, request, removal, service, pool, handed, beat, failures, outcome, faults>>
    BY <1>5 DEF ReadLatest, ServiceUnchanged
  <2> QED BY <2>3, <2>4, TypeFacts DEF LTypeOK
<1>6. CASE RetryOrFailJob(w)
  <2>1. j \in Jobs /\ worker[w].fails + 1 \in Nat
    BY <1>6, WorkerFacts DEF RetryOrFailJob, Doing
  <2>2. PICK status \in RowStatus, step \in WorkerSteps :
          /\ Save(j, status, worker[w].fails + 1, NoPid)
          /\ Returns(w, step)
          /\ outcome' = outcome \/ outcome' = [outcome EXCEPT ![j] = @ \union {"given_up"}]
    BY <1>6 DEF RetryOrFailJob, FailureCount, RowStatus, WorkerSteps
  <2>3. row' \in [Jobs -> Row \union {NoRow}]
    BY <2>1, <2>2, SavedIsRow
  <2>4. worker' \in [Workers -> WorkerState]
    BY <2>2, MovedWorker
  <2>5. outcome' \in [Jobs -> SUBSET Verdicts]
    BY <2>1, <2>2, TypeFacts DEF Verdicts
  <2>6. UNCHANGED <<request, removal, service, pool, handed, beat, failures, faults>>
    BY <1>6 DEF RetryOrFailJob, ServiceUnchanged
  <2> QED BY <2>3, <2>4, <2>5, <2>6, TypeFacts DEF LTypeOK
<1>7. CASE SaveParsed(w)
  <2>1. j \in Jobs /\ worker[w].fails \in Nat
    BY <1>7, WorkerFacts DEF SaveParsed, Doing
  <2>2. row' \in [Jobs -> Row \union {NoRow}]
    BY <1>7, <2>1, SavedIsRow DEF SaveParsed, RowStatus
  <2>3. worker' \in [Workers -> WorkerState]
    BY <1>7, MovedWorker DEF SaveParsed, WorkerSteps
  <2>4. UNCHANGED <<request, removal, service, pool, handed, beat, failures, outcome, faults>>
    BY <1>7 DEF SaveParsed, ServiceUnchanged
  <2> QED BY <2>2, <2>3, <2>4, TypeFacts DEF LTypeOK
<1>8. CASE Enqueue(w)
  <2>1. worker' \in [Workers -> WorkerState]
    BY <1>8, MovedWorker DEF Enqueue, WorkerSteps
  <2>2. handed' \in [Workers -> SUBSET Jobs]
    BY <1>8, TypeFacts, WorkerFacts DEF Enqueue, Doing
  <2>3. UNCHANGED <<row, request, removal, service, pool, beat, failures, outcome, faults>>
    BY <1>8 DEF Enqueue, ServiceUnchanged
  <2> QED BY <2>1, <2>2, <2>3, TypeFacts DEF LTypeOK
<1>9. CASE EnqueueFails(w) \/ SaveQueued(w) \/ SaveAgain(w)
  <2>1. j \in Jobs /\ worker[w].fails \in Nat
    BY <1>9, WorkerFacts DEF EnqueueFails, SaveQueued, SaveAgain, Doing
  <2>2. PICK status \in RowStatus :
          /\ Save(j, status, worker[w].fails, NoPid)
          /\ outcome' = outcome \/ outcome' = [outcome EXCEPT ![j] = @ \union {"put_off"}]
    BY <1>9 DEF EnqueueFails, SaveQueued, SaveAgain, RowStatus
  <2>3. row' \in [Jobs -> Row \union {NoRow}]
    BY <2>1, <2>2, SavedIsRow
  <2>4. worker' \in [Workers -> WorkerState]
    BY <1>9, MovedWorker DEF EnqueueFails, SaveQueued, SaveAgain, WorkerSteps
  <2>5. outcome' \in [Jobs -> SUBSET Verdicts]
    BY <2>1, <2>2, TypeFacts DEF Verdicts
  <2>6. UNCHANGED <<request, removal, service, pool, handed, beat, failures, faults>>
    BY <1>9 DEF EnqueueFails, SaveQueued, SaveAgain, ServiceUnchanged
  <2> QED BY <2>3, <2>4, <2>5, <2>6, TypeFacts DEF LTypeOK
<1> QED BY <1>1, <1>2, <1>3, <1>4, <1>5, <1>6, <1>7, <1>8, <1>9 DEF Process, HandOver

\* The dispatcher threads save a verdict, and only about a row that is there.
LEMMA DispatchFacts ==
  ASSUME NEW w \in Workers, NEW j \in Jobs, Dispatch(w, j)
  PROVE  /\ j \in handed[w] /\ handed' = [handed EXCEPT ![w] = @ \ {j}]
         /\ \E verdict \in {"completed", "refused", "skipped"} :
              outcome' = [outcome EXCEPT ![j] = @ \union {verdict}]
         /\ \/ row[j] = NoRow /\ row' = row
            \/ row[j] # NoRow /\ Save(j, "completed", row[j].fails, NoPid)
            \/ /\ row[j] # NoRow /\ Save(j, "failed", row[j].fails, NoPid)
               /\ outcome' = [outcome EXCEPT ![j] = @ \union {"refused"}]
         /\ UNCHANGED <<request, removal, service, pool, worker, beat, failures, faults>>
<1>1. PICK verdict \in {"completed", "refused", "skipped"} :
        /\ verdict = "skipped" <=> row[j] = NoRow
        /\ outcome' = [outcome EXCEPT ![j] = @ \union {verdict}]
        /\ verdict = "completed" => Save(j, "completed", row[j].fails, NoPid)
        /\ verdict = "refused" => Save(j, "failed", row[j].fails, NoPid)
        /\ verdict = "skipped" => row' = row
  BY DEF Dispatch
<1> QED BY <1>1 DEF Dispatch, ServiceUnchanged

\* The steps of the dispatcher threads, the heartbeats and the callbacks, and
\* the end of the process.
LEMMA ThreadTypes ==
  ASSUME PlaceInv, NEW w \in Workers,
         \/ BeatStarts(w) \/ Reporter(w) \/ HandleSubmittedJobResult(w) \/ ProcessEnds(w)
         \/ \E j \in Jobs : Dispatch(w, j)
  PROVE  LTypeOK'
<1>1. CASE BeatStarts(w)
  <2>1. worker[w].job \in Jobs
    BY <1>1, WorkerFacts DEF BeatStarts, Doing
  <2>2. [job |-> worker[w].job, copy |-> NoRow, late |-> FALSE] \in Beat
    BY <2>1 DEF Beat
  <2>3. beat' \in [Workers -> Beat \union {NoBeat}]
    BY <1>1, <2>2, TypeFacts DEF BeatStarts
  <2>4. UNCHANGED <<row, request, removal, service, pool, worker, handed, failures, outcome, faults>>
    BY <1>1 DEF BeatStarts, ServiceUnchanged
  <2> QED BY <2>3, <2>4, TypeFacts DEF LTypeOK
<1>2. CASE BeatReads(w)
  <2>1. beat[w] \in Beat /\ beat[w].job \in Jobs
    BY <1>2, WorkerFacts DEF BeatReads
  <2>2. row[beat[w].job] # NoRow => [beat[w] EXCEPT !.copy = row[beat[w].job]] \in Beat
    <3>1. row[beat[w].job] # NoRow => row[beat[w].job] \in Row
      BY <2>1, WorkerFacts
    <3> QED BY <2>1, <3>1 DEF Beat
  <2>3. beat' \in [Workers -> Beat \union {NoBeat}]
    BY <1>2, <2>2, TypeFacts DEF BeatReads
  <2>4. UNCHANGED <<row, request, removal, service, pool, worker, handed, failures, outcome, faults>>
    BY <1>2 DEF BeatReads, ServiceUnchanged
  <2> QED BY <2>3, <2>4, TypeFacts DEF LTypeOK
<1>3. CASE BeatSaves(w)
  <2>1. beat[w] # NoBeat /\ beat[w].job \in Jobs /\ beat[w].copy \in Row
    BY <1>3, WorkerFacts DEF BeatSaves, Reporting
  <2>2. row' \in [Jobs -> Row \union {NoRow}] /\ beat' \in [Workers -> Beat \union {NoBeat}]
    BY <1>3, <2>1, TypeFacts DEF BeatSaves
  <2>3. faults' \in FaultState
    <3>1. faults \in FaultState
      BY TypeFacts
    <3>2. faults' = faults \/ (faults.late < MaxLateBeats /\ faults' = [faults EXCEPT !.late = faults.late + 1])
      BY <1>3 DEF BeatSaves
    <3> QED BY <3>1, <3>2, PipelineBounds DEF FaultState
  <2>4. UNCHANGED <<request, removal, service, pool, worker, handed, failures, outcome>>
    BY <1>3 DEF BeatSaves, ServiceUnchanged
  <2> QED BY <2>2, <2>3, <2>4, TypeFacts DEF LTypeOK
<1>4. CASE HandleSubmittedJobResult(w)
  <2>1. worker[w].job \in Jobs /\ w[1] \in Services
    BY <1>4, WorkerFacts DEF HandleSubmittedJobResult, Doing
  <2>2. pool' \in [Services -> PoolState]
    <3>1. pool \in [Services -> PoolState]
      BY TypeFacts
    <3>2. ReleaseJob(pool[w[1]], worker[w].job) \in PoolState
      BY <2>1, <3>1, PoolsStay
    <3>3. SubmitJob(ReleaseJob(pool[w[1]], worker[w].job), worker[w].job) \in PoolState
      BY <2>1, <3>2, PoolsStay
    <3> QED BY <1>4, <2>1, <3>1, <3>2, <3>3 DEF HandleSubmittedJobResult
  <2>3. worker' \in [Workers -> WorkerState]
    <3>1. Free \in WorkerState
      BY DEF Free, WorkerState, WorkerSteps
    <3> QED BY <1>4, <3>1, TypeFacts DEF HandleSubmittedJobResult
  <2>4. UNCHANGED <<row, request, removal, service, handed, beat, failures, outcome, faults>>
    BY <1>4 DEF HandleSubmittedJobResult
  <2> QED BY <2>2, <2>3, <2>4, TypeFacts DEF LTypeOK
<1>5. ASSUME NEW j \in Jobs, Dispatch(w, j) PROVE LTypeOK'
  <2>1. handed' \in [Workers -> SUBSET Jobs]
    BY <1>5, DispatchFacts, TypeFacts
  <2>2. outcome' \in [Jobs -> SUBSET Verdicts]
    BY <1>5, DispatchFacts, TypeFacts DEF Verdicts
  <2>3. row' \in [Jobs -> Row \union {NoRow}]
    <3>1. row' = row \/ (row[j] # NoRow /\ \E status \in RowStatus : Save(j, status, row[j].fails, NoPid))
      BY <1>5, DispatchFacts DEF RowStatus
    <3>2. row[j] # NoRow => row[j].fails \in Nat
      BY WorkerFacts
    <3> QED BY <3>1, <3>2, SavedIsRow, TypeFacts
  <2>4. UNCHANGED <<request, removal, service, pool, worker, beat, failures, faults>>
    BY <1>5, DispatchFacts
  <2> QED BY <2>1, <2>2, <2>3, <2>4, TypeFacts DEF LTypeOK
<1>6. CASE ProcessEnds(w)
  <2>1. handed' \in [Workers -> SUBSET Jobs] /\ beat' \in [Workers -> Beat \union {NoBeat}]
    BY <1>6, TypeFacts DEF ProcessEnds
  <2>2. UNCHANGED <<row, request, removal, service, pool, worker, failures, outcome, faults>>
    BY <1>6 DEF ProcessEnds, ServiceUnchanged
  <2> QED BY <2>1, <2>2, TypeFacts DEF LTypeOK
<1> QED BY <1>1, <1>2, <1>3, <1>4, <1>5, <1>6 DEF Reporter

-----------------------------------------------------------------------------
(* Where things are                                                        *)

\* What works is of a pool the service has made since it was started.
LEMMA BusyFacts ==
  ASSUME PlaceInv, NEW w \in Workers,
         \/ worker[w].step # "free" \/ handed[w] # {} \/ beat[w] # NoBeat
         \/ pool[w[1]].pending # << >>
  PROVE  service.boot < w[1] /\ w[1] <= service.made
<1>1. w[1] \in Services /\ PoolIsSound(w[1]) /\ ServiceIsSound
  BY PlaceFacts
<1>2. ~Idle(w[1])
  BY DEF Idle, Free
<1>3. service \in ServiceState
  BY TypeFacts
<1> QED BY <1>1, <1>2, <1>3, PipelineBounds DEF PoolIsSound, ServiceState, Services

\* A step of one worker process, its threads and its callback, or its end.
Working(w) ==
  \/ Process(w) \/ BeatStarts(w) \/ Reporter(w) \/ HandleSubmittedJobResult(w)
  \/ ProcessEnds(w) \/ \E j \in Jobs : Dispatch(w, j)

\* The last save of a parse; the process returns after it.
Delivers(w) == RetryOrFailJob(w) \/ EnqueueFails(w) \/ SaveAgain(w)

\* It stays within its own pool.
LEMMA OneWorker ==
  ASSUME PlaceInv, NEW w \in Workers, Working(w)
  PROVE  /\ service.boot < w[1] /\ w[1] <= service.made /\ w[1] \in Services
         /\ UNCHANGED <<request, removal, service>>
         /\ faults'.kills = faults.kills /\ faults'.removals = faults.removals
         /\ faults'.changes = faults.changes
         /\ \A v \in Workers : v # w =>
              worker'[v] = worker[v] /\ handed'[v] = handed[v] /\ beat'[v] = beat[v]
         /\ worker'[w].step = "dead" => worker[w].step = "dead"
         /\ \A s \in Services : s # w[1] => pool'[s] = pool[s]
         /\ pool'[w[1]].open = pool[w[1]].open /\ pool'[w[1]].broken = pool[w[1]].broken
<1> DEFINE s == w[1]
<1>1. /\ worker \in [Workers -> WorkerState] /\ handed \in [Workers -> SUBSET Jobs]
      /\ beat \in [Workers -> Beat \union {NoBeat}] /\ pool \in [Services -> PoolState]
      /\ faults \in FaultState /\ s \in Services /\ pool[s] \in PoolState
      /\ worker[w] \in WorkerState
  BY TypeFacts, WorkerFacts
<1>2. CASE Take(w)
  <2>1. service.boot < s /\ s <= service.made
    BY <1>2, BusyFacts DEF Take
  <2>2. pool' = [pool EXCEPT ![s].pending = Tail(@)]
    BY <1>2 DEF Take
  <2>3. PICK x : x.step # "dead" /\ worker' = [worker EXCEPT ![w] = x]
    <3> DEFINE k == Head(pool[s].pending)
               y == IF row[k] = NoRow THEN [step |-> "done", job |-> k, fails |-> 0]
                    ELSE [step |-> "start", job |-> k, fails |-> row[k].fails]
    <3>1. worker' = [worker EXCEPT ![w] = y]
      BY <1>2 DEF Take
    <3>2. y.step # "dead"
      OBVIOUS
    <3> HIDE DEF y
    <3> QED BY <3>1, <3>2
  <2>4. UNCHANGED <<request, removal, service, handed, beat, faults>>
    BY <1>2 DEF Take
  <2> QED BY <1>1, <2>1, <2>2, <2>3, <2>4 DEF PoolState
<1>3. CASE \/ Start(w) \/ ConvertFails(w) \/ ConvertSucceeds(w) \/ SaveParsed(w) \/ ReadLatest(w)
           \/ Enqueue(w) \/ SaveQueued(w)
  <2>1. service.boot < s /\ s <= service.made
    BY <1>3, BusyFacts DEF Start, ConvertFails, ConvertSucceeds, SaveParsed, ReadLatest, Enqueue, SaveQueued, Doing
  <2>2. UNCHANGED <<request, removal, service, pool, faults>>
    BY <1>3 DEF Start, ConvertFails, ConvertSucceeds, SaveParsed, ReadLatest, Enqueue, SaveQueued, ServiceUnchanged
  <2>3. PICK x \in WorkerState : x.step # "dead" /\ worker' = [worker EXCEPT ![w] = x]
    <3>1. CASE ReadLatest(w)
      <4>1. PICK n \in Nat, y \in {"failing", "parsed"} :
              worker' = [worker EXCEPT ![w] = [step |-> y, job |-> worker[w].job, fails |-> n]]
        BY <3>1, LatestFails
      <4>2. [step |-> y, job |-> worker[w].job, fails |-> n] \in WorkerState
        BY <1>1 DEF WorkerState, WorkerSteps
      <4> QED BY <4>1, <4>2
    <3>2. CASE ~ReadLatest(w)
      <4>1. PICK y \in {"convert", "failed", "converted", "hand_over", "enqueued", "saved"} :
              worker' = [worker EXCEPT ![w] = [worker[w] EXCEPT !.step = y]]
        BY <1>3, <3>2 DEF Start, ConvertFails, ConvertSucceeds, SaveParsed, Enqueue, SaveQueued, Becomes
      <4>2. [worker[w] EXCEPT !.step = y] \in WorkerState
        BY <1>1 DEF WorkerState, WorkerSteps
      <4>3. [worker[w] EXCEPT !.step = y].step = y
        BY <1>1 DEF WorkerState
      <4> QED BY <4>1, <4>2, <4>3
    <3> QED BY <3>1, <3>2
  <2>4. \A v \in Workers : v # w => handed'[v] = handed[v] /\ beat'[v] = beat[v]
    BY <1>1, <1>3 DEF Start, ConvertFails, ConvertSucceeds, SaveParsed, ReadLatest, Enqueue, SaveQueued, StopBeat
  <2> QED BY <1>1, <2>1, <2>2, <2>3, <2>4
<1>4. CASE Delivers(w)
  <2>1. service.boot < s /\ s <= service.made
    BY <1>4, BusyFacts DEF Delivers, RetryOrFailJob, EnqueueFails, SaveAgain, Doing
  <2>2. UNCHANGED <<request, removal, service, pool, beat, faults>>
    BY <1>4 DEF Delivers, RetryOrFailJob, EnqueueFails, SaveAgain, ServiceUnchanged
  <2>3. PICK y \in {"done", "retry"} :
          worker' = [worker EXCEPT ![w] = [worker[w] EXCEPT !.step = y, !.fails = 0]]
    BY <1>4 DEF Delivers, RetryOrFailJob, EnqueueFails, SaveAgain, Returns
  <2>4. [worker[w] EXCEPT !.step = y, !.fails = 0].step = y
    BY <1>1 DEF WorkerState
  <2>5. \A v \in Workers : v # w => handed'[v] = handed[v]
    BY <1>1, <1>4 DEF Delivers, RetryOrFailJob, EnqueueFails, SaveAgain
  <2> QED BY <1>1, <2>1, <2>2, <2>3, <2>4, <2>5
<1>5. CASE BeatStarts(w) \/ BeatReads(w) \/ BeatSaves(w)
  <2>1. service.boot < s /\ s <= service.made
    BY <1>5, BusyFacts DEF BeatStarts, BeatReads, BeatSaves, Reporting, Doing
  <2>2. UNCHANGED <<request, removal, service, pool, handed, worker>>
    BY <1>5 DEF BeatStarts, BeatReads, BeatSaves, ServiceUnchanged
  <2>3. \A v \in Workers : v # w => beat'[v] = beat[v]
    BY <1>1, <1>5 DEF BeatStarts, BeatReads, BeatSaves
  <2>4. faults' = faults \/ faults' = [faults EXCEPT !.late = faults.late + 1]
    BY <1>5 DEF BeatStarts, BeatReads, BeatSaves
  <2> QED BY <1>1, <2>1, <2>2, <2>3, <2>4 DEF FaultState
<1>6. CASE HandleSubmittedJobResult(w)
  <2>1. service.boot < s /\ s <= service.made
    BY <1>6, BusyFacts DEF HandleSubmittedJobResult, Doing
  <2>2. UNCHANGED <<request, removal, service, handed, beat, faults>>
    BY <1>6 DEF HandleSubmittedJobResult
  <2>3. worker' = [worker EXCEPT ![w] = Free]
    BY <1>6 DEF HandleSubmittedJobResult
  <2>4. PICK p : /\ p.open = pool[s].open /\ p.broken = pool[s].broken
                 /\ pool' = [pool EXCEPT ![s] = p]
    <3>1. /\ ReleaseJob(pool[s], worker[w].job).open = pool[s].open
          /\ ReleaseJob(pool[s], worker[w].job).broken = pool[s].broken
          /\ ReleaseJob(pool[s], worker[w].job) \in PoolState
      BY <1>1 DEF ReleaseJob, PoolState
    <3>2. /\ SubmitJob(ReleaseJob(pool[s], worker[w].job), worker[w].job).open = pool[s].open
          /\ SubmitJob(ReleaseJob(pool[s], worker[w].job), worker[w].job).broken = pool[s].broken
      BY <3>1 DEF SubmitJob, PoolState
    <3> QED BY <1>6, <3>1, <3>2 DEF HandleSubmittedJobResult
  <2> QED BY <1>1, <2>1, <2>2, <2>3, <2>4 DEF Free
<1>7. ASSUME NEW j \in Jobs, Dispatch(w, j)
      PROVE  handed[w] # {} /\ UNCHANGED <<request, removal, service, pool, worker, beat, faults>>
                                                 /\ \A v \in Workers : v # w => handed'[v] = handed[v]
  BY <1>1, <1>7, DispatchFacts
<1>8. CASE \E j \in Jobs : Dispatch(w, j)
  BY <1>1, <1>7, <1>8, BusyFacts
<1>9. CASE ProcessEnds(w)
  <2>1. service.boot < s /\ s <= service.made
    BY <1>9, BusyFacts DEF ProcessEnds
  <2>2. UNCHANGED <<request, removal, service, pool, worker, faults>>
    BY <1>9 DEF ProcessEnds, ServiceUnchanged
  <2>3. \A v \in Workers : v # w => handed'[v] = handed[v] /\ beat'[v] = beat[v]
    BY <1>1, <1>9 DEF ProcessEnds
  <2> QED BY <1>1, <2>1, <2>2, <2>3
<1> QED BY <1>2, <1>3, <1>4, <1>5, <1>6, <1>8, <1>9 DEF Working, Process, HandOver, Delivers, Reporter

\* What one worker process does keeps everything in its place.
LEMMA WorkingPlace ==
  ASSUME PlaceInv, NEW w \in Workers, Working(w)
  PROVE  PlaceInv'
<1>1. LTypeOK'
  BY ProcessTypes, ThreadTypes DEF Working
<1>2. ServiceIsSound' /\ \A r \in Requests : RequestIsSound(r)'
  BY OneWorker, PlaceFacts DEF ServiceIsSound, RequestIsSound
<1>3. KillInv'
  <2>1. Removing' = Removing
    BY OneWorker DEF Removing
  <2>2. \A v \in Workers : worker'[v].step = "dead" => worker[v].step = "dead"
    BY OneWorker
  <2>3. \A s \in Services : pool'[s].broken = pool[s].broken
    BY OneWorker
  <2> QED BY <2>1, <2>2, <2>3, OneWorker, PlaceFacts DEF KillInv
<1>4. ASSUME NEW s \in Services PROVE PoolIsSound(s)'
  <2>1. CASE s = w[1]
    <3>1. service.made \in Nat /\ service.boot \in Nat /\ s \in Nat
      BY TypeFacts DEF ServiceState, Services
    <3>2. service.boot < s /\ s <= service.made /\ service' = service /\ pool'[s].open = pool[s].open
      BY <2>1, OneWorker
    <3> QED BY <3>1, <3>2, PlaceFacts DEF PoolIsSound
  <2>2. CASE s # w[1]
    <3>1. pool'[s] = pool[s] /\ service' = service
      BY <2>2, OneWorker
    <3>2. \A v \in Workers : v[1] = s => worker'[v] = worker[v] /\ handed'[v] = handed[v] /\ beat'[v] = beat[v]
      BY <2>2, OneWorker
    <3>3. Idle(s) => Idle(s)'
      BY <3>1, <3>2 DEF Idle, Free
    <3> QED BY <3>1, <3>3, PlaceFacts DEF PoolIsSound, NewPool
  <2> QED BY <2>1, <2>2
<1>5. WorkerIsSound(w)'
  <2>1. /\ WorkerIsSound(w) /\ worker[w] \in WorkerState
        /\ worker \in [Workers -> WorkerState] /\ beat \in [Workers -> Beat \union {NoBeat}]
    BY TypeFacts, PlaceFacts
  <2>2. CASE Take(w)
    <3>1. PICK s \in Services, k \in Jobs :
            worker' = [worker EXCEPT ![w] =
               IF row[k] = NoRow THEN [step |-> "done", job |-> k, fails |-> 0]
               ELSE [step |-> "start", job |-> k, fails |-> row[k].fails]]
      <4>1. pool[w[1]] \in PoolState /\ pool[w[1]].pending # << >> /\ w[1] \in Services
        BY <2>2, WorkerFacts, TypeFacts DEF Take
      <4>2. Head(pool[w[1]].pending) \in Jobs
        BY <4>1, TailLine DEF PoolState
      <4> QED BY <2>2, <4>1, <4>2 DEF Take
    <3>2. worker'[w].step \in {"done", "start"} /\ worker'[w].job = k
      BY <2>1, <3>1
    <3>3. beat' = beat /\ (beat[w] = NoBeat \/ beat[w].late)
      BY <2>1, <2>2 DEF Take, Doing, WorkerIsSound
    <3> QED BY <3>2, <3>3 DEF WorkerIsSound
  <2>3. CASE Start(w) \/ SaveParsed(w) \/ Enqueue(w) \/ SaveQueued(w)
    <3>1. PICK y \in {"convert", "hand_over", "enqueued", "saved"} :
            worker' = [worker EXCEPT ![w] = [worker[w] EXCEPT !.step = y]]
      BY <2>3 DEF Start, SaveParsed, Enqueue, SaveQueued, Becomes
    <3>2. worker'[w].step = y /\ worker'[w].job = worker[w].job
      BY <2>1, <3>1 DEF WorkerState
    <3>3. beat' = beat /\ worker[w].step \in {"start", "parsed", "hand_over", "enqueued"}
      BY <2>3 DEF Start, SaveParsed, Enqueue, SaveQueued, Doing, ServiceUnchanged
    <3> QED BY <2>1, <3>2, <3>3 DEF WorkerIsSound
  <2>4. CASE ConvertFails(w) \/ ConvertSucceeds(w)
    <3>1. PICK y \in {"failed", "converted"} : worker' = [worker EXCEPT ![w] = [worker[w] EXCEPT !.step = y]]
      BY <2>4 DEF ConvertFails, ConvertSucceeds, Becomes
    <3>2. worker'[w].step = y /\ worker'[w].job = worker[w].job
      BY <2>1, <3>1 DEF WorkerState
    <3>3. beat' = [beat EXCEPT ![w] =
             IF beat[w] = NoBeat THEN beat[w] ELSE [beat[w] EXCEPT !.late = TRUE]]
      BY <2>4 DEF ConvertFails, ConvertSucceeds, StopBeat
    <3>4. beat'[w] # NoBeat => beat'[w].late
      <4>1. beat[w] # NoBeat => [beat[w] EXCEPT !.late = TRUE].late
        BY <2>1 DEF Beat
      <4> QED BY <2>1, <3>3, <4>1
    <3>5. worker[w].step = "convert"
      BY <2>4 DEF ConvertFails, ConvertSucceeds, Doing
    <3> QED BY <2>1, <3>2, <3>4, <3>5 DEF WorkerIsSound
  <2>5. CASE ReadLatest(w)
    <3>1. PICK n \in Nat, y \in {"failing", "parsed"} :
            worker' = [worker EXCEPT ![w] = [step |-> y, job |-> worker[w].job, fails |-> n]]
      BY <2>5, LatestFails
    <3>2. worker'[w].step = y /\ worker'[w].job = worker[w].job
      BY <2>1, <3>1
    <3>3. beat' = beat /\ worker[w].step \in {"failed", "converted"}
      BY <2>5 DEF ReadLatest, Doing
    <3> QED BY <2>1, <3>2, <3>3 DEF WorkerIsSound
  <2>6. CASE Delivers(w)
    <3>1. PICK y \in {"done", "retry"} :
            worker' = [worker EXCEPT ![w] = [worker[w] EXCEPT !.step = y, !.fails = 0]]
      BY <2>6 DEF Delivers, RetryOrFailJob, EnqueueFails, SaveAgain, Returns
    <3>2. worker'[w].step = y /\ worker'[w].job = worker[w].job
      BY <2>1, <3>1 DEF WorkerState
    <3>3. beat' = beat /\ worker[w].step \in {"failing", "hand_over", "saved"}
      BY <2>6 DEF Delivers, RetryOrFailJob, EnqueueFails, SaveAgain, Doing
    <3> QED BY <2>1, <3>2, <3>3 DEF WorkerIsSound
  <2>7. CASE HandleSubmittedJobResult(w)
    <3>1. worker'[w] = Free /\ beat' = beat /\ worker[w].step \in {"done", "retry"}
      BY <2>1, <2>7 DEF HandleSubmittedJobResult, Doing
    <3> QED BY <2>1, <3>1 DEF WorkerIsSound, Free
  <2>8. CASE BeatStarts(w)
    <3>1. worker' = worker /\ worker[w].step = "convert" /\ beat'[w].job = worker[w].job
      BY <2>1, <2>8 DEF BeatStarts, Doing, ServiceUnchanged
    <3> QED BY <2>1, <3>1 DEF WorkerIsSound
  <2>9. CASE BeatReads(w)
    <3>1. worker' = worker /\ beat' = [beat EXCEPT ![w] =
             IF row[beat[w].job] = NoRow THEN NoBeat ELSE [beat[w] EXCEPT !.copy = row[beat[w].job]]]
      BY <2>9 DEF BeatReads, ServiceUnchanged
    <3>2. LET b == [beat[w] EXCEPT !.copy = row[beat[w].job]]
          IN beat[w] # NoBeat => b.late = beat[w].late /\ b.job = beat[w].job
      BY <2>1 DEF Beat
    <3>3. beat'[w] # NoBeat => beat'[w].late = beat[w].late /\ beat'[w].job = beat[w].job /\ beat[w] # NoBeat
      BY <2>1, <2>9, <3>1, <3>2 DEF BeatReads
    <3> QED BY <2>1, <3>1, <3>3 DEF WorkerIsSound, Free
  <2>10. CASE BeatSaves(w) \/ ProcessEnds(w) \/ \E j \in Jobs : Dispatch(w, j)
    <3>1. worker' = worker /\ (beat'[w] = NoBeat \/ beat' = beat)
      BY <2>1, <2>10, DispatchFacts DEF BeatSaves, ProcessEnds, ServiceUnchanged
    <3> QED BY <2>1, <3>1 DEF WorkerIsSound, Free
  <2> QED BY <2>2, <2>3, <2>4, <2>5, <2>6, <2>7, <2>8, <2>9, <2>10 DEF Working, Process, HandOver, Delivers, Reporter
<1>6. ASSUME NEW v \in Workers PROVE WorkerIsSound(v)'
  <2>1. v # w => worker'[v] = worker[v] /\ beat'[v] = beat[v]
    BY OneWorker
  <2>2. WorkerIsSound(v)
    BY PlaceFacts
  <2>3. CASE v # w
    BY <2>1, <2>2, <2>3 DEF WorkerIsSound, Free
  <2> QED BY <1>5, <2>3
<1> QED BY <1>1, <1>2, <1>3, <1>4, <1>6 DEF PlaceInv

\* What a request may change of what it shares with the worker processes.
LEMMA OneRequest ==
  ASSUME PlaceInv,
         \/ \E r \in Requests : GetService(r)
         \/ \E j \in Jobs : Upload(j)
         \/ ChangeSettings
  PROVE  /\ UNCHANGED <<removal, worker, handed, beat, failures>>
         /\ faults'.kills = faults.kills /\ faults'.removals = faults.removals
         /\ \A s \in Services : pool'[s].broken = pool[s].broken
<1>1. pool \in [Services -> PoolState] /\ faults \in FaultState
  BY TypeFacts
<1>2. ASSUME NEW r \in Requests, ReadSettings(r) \/ UseService(r)
      PROVE  UNCHANGED <<removal, worker, handed, beat, failures, faults, pool>>
  BY <1>2 DEF ReadSettings, UseService, PipelineUnchanged
<1>3. ASSUME NEW r \in Requests, CreateService(r)
      PROVE  /\ UNCHANGED <<removal, worker, handed, beat, failures, faults>>
             /\ \A s \in Services : pool'[s].broken = pool[s].broken
  BY <1>1, <1>3 DEF CreateService, PipelineUnchanged, PoolState
<1>4. ASSUME NEW r \in Requests, RecoverActiveJobs(r)
      PROVE  /\ UNCHANGED <<removal, worker, handed, beat, failures, faults>>
             /\ \A s \in Services : pool'[s].broken = pool[s].broken
  <2>1. UNCHANGED <<removal, worker, handed, beat, failures, faults>>
    BY <1>4 DEF RecoverActiveJobs
  <2>2. PICK new, order :
          pool' = [pool EXCEPT ![service.current].submitted = @ \union new,
                               ![service.current].pending = @ \o order]
    BY <1>4 DEF RecoverActiveJobs
  <2> QED BY <1>1, <2>1, <2>2 DEF PoolState
<1>5. ASSUME NEW j \in Jobs, Upload(j)
      PROVE  /\ UNCHANGED <<removal, worker, handed, beat, failures, faults>>
             /\ \A s \in Services : pool'[s].broken = pool[s].broken
  <2>1. UNCHANGED <<removal, worker, handed, beat, failures, faults>>
    BY <1>5 DEF Upload, SaveUpload, SubmitUpload, SaveRejected, PipelineUnchanged
  <2>2. \A s \in Services : SubmitJob(pool[s], j).broken = pool[s].broken
    BY <1>1 DEF SubmitJob, PoolState
  <2>3. pool' = pool \/ pool' = [pool EXCEPT ![request[j].to] = SubmitJob(pool[request[j].to], j)]
    BY <1>5 DEF Upload, SaveUpload, SubmitUpload, SaveRejected
  <2> QED BY <1>1, <2>1, <2>2, <2>3
<1>6. ASSUME ChangeSettings
      PROVE  /\ UNCHANGED <<removal, worker, handed, beat, failures, pool>>
             /\ faults' = [faults EXCEPT !.changes = faults.changes + 1]
  BY <1>6 DEF ChangeSettings, PipelineUnchanged
<1>7. CASE ChangeSettings
  BY <1>1, <1>6, <1>7 DEF FaultState
<1> QED BY <1>2, <1>3, <1>4, <1>5, <1>7 DEF GetService

\* The numbers a service is known by.
LEMMA ServiceFacts ==
  ASSUME PlaceInv
  PROVE  /\ service \in ServiceState /\ faults \in FaultState
         /\ service.boot \in Nat /\ service.made \in Nat /\ service.current \in Nat
         /\ service.key \in Nat /\ service.settings \in Nat /\ service.settings > 0
         /\ faults.changes \in Nat /\ service.boot <= service.made /\ service.made <= MaxServices
         /\ service.current # 0 =>
              service.current \in Services /\ service.current = service.made /\ service.boot < service.made
         /\ \A s \in Services : s \in Nat /\ s # 0 /\ s <= MaxServices
<1>1. service \in ServiceState /\ faults \in FaultState /\ ServiceIsSound
  BY TypeFacts, PlaceFacts
<1>2. /\ service.boot \in Nat /\ service.made \in 0..MaxServices /\ service.current \in 0..MaxServices
      /\ service.key \in Nat /\ service.settings \in 1..MaxChanges + 1 /\ faults.changes \in Nat
  BY <1>1, PipelineBounds DEF ServiceState, FaultState
<1> QED BY <1>1, <1>2, PipelineBounds DEF ServiceIsSound, Services

\* Requests and changes of the settings keep everything in its place.
LEMMA RequestPlace ==
  ASSUME PlaceInv,
         \/ \E r \in Requests : GetService(r)
         \/ \E j \in Jobs : Upload(j)
         \/ ChangeSettings
  PROVE  PlaceInv'
<1> DEFINE ServicesSound == ServiceIsSound' /\ (\A r \in Requests : RequestIsSound(r)')
                            /\ \A s \in Services : PoolIsSound(s)'
<1>1. /\ request \in [Requests -> RequestState] /\ service \in ServiceState
      /\ pool \in [Services -> PoolState] /\ faults \in FaultState
  BY TypeFacts
<1>2. LTypeOK'
  BY RequestTypes
<1>3. KillInv' /\ \A w \in Workers : WorkerIsSound(w)'
  <2>1. Removing' = Removing
    BY OneRequest DEF Removing
  <2>2. KillInv'
    BY <2>1, OneRequest, PlaceFacts DEF KillInv
  <2>3. \A w \in Workers : WorkerIsSound(w)'
    BY OneRequest, PlaceFacts DEF WorkerIsSound, Free
  <2> QED BY <2>2, <2>3
<1>4. ASSUME NEW s \in Services, UNCHANGED <<worker, handed, beat>>, pool'[s] = pool[s]
      PROVE  Idle(s) => Idle(s)'
  BY <1>4 DEF Idle, Free
<1>5. ASSUME service' = service, pool' = pool PROVE \A s \in Services : PoolIsSound(s)'
  BY <1>4, <1>5, OneRequest, PlaceFacts DEF PoolIsSound, NewPool
<1>6. ASSUME NEW r \in Requests, ReadSettings(r) PROVE ServicesSound
  <2>1. UNCHANGED <<service, pool, faults>>
    BY <1>6 DEF ReadSettings, PipelineUnchanged
  <2>2. request' = [request EXCEPT ![r] = [request[r] EXCEPT !.step = "settings", !.key = service.settings]]
    BY <1>1, <1>6 DEF ReadSettings
  <2>3. request'[r].step = "settings" /\ request'[r].key = service.settings
    BY <1>1, <2>2 DEF RequestState
  <2>4. \A q \in Requests : q # r => request'[q] = request[q]
    BY <1>1, <2>2
  <2>5. RequestIsSound(r)'
    BY <2>3, ServiceFacts DEF RequestIsSound
  <2>6. \A q \in Requests : RequestIsSound(q)'
    BY <2>1, <2>4, <2>5, PlaceFacts DEF RequestIsSound
  <2> QED BY <1>5, <2>1, <2>6, PlaceFacts DEF ServiceIsSound
<1>7. ASSUME NEW r \in Requests, UseService(r) PROVE ServicesSound
  <2>1. UNCHANGED <<service, pool, faults>>
    BY <1>7 DEF UseService, PipelineUnchanged
  <2>2. request' = [request EXCEPT ![r] = [step |-> "resolved", key |-> 0, to |-> service.current]]
    BY <1>7 DEF UseService
  <2>3. service.boot < service.current /\ service.current <= service.made
    BY <1>7, ServiceFacts DEF UseService, UpToDate
  <2>4. \A q \in Requests : RequestIsSound(q)'
    BY <1>1, <2>1, <2>2, <2>3, PlaceFacts DEF RequestIsSound
  <2> QED BY <1>5, <2>1, <2>4, PlaceFacts DEF ServiceIsSound
<1>8. ASSUME NEW r \in Requests, CreateService(r) PROVE ServicesSound
  <2>1. /\ service' = [service EXCEPT !.current = service.made + 1, !.made = service.made + 1]
        /\ service.made < MaxServices /\ faults' = faults /\ UNCHANGED <<worker, handed, beat>>
        /\ pool' = IF service.current = 0 THEN pool ELSE [pool EXCEPT ![service.current].open = FALSE]
        /\ request[r].step = "settings"
        /\ request' = [request EXCEPT ![r] = [request[r] EXCEPT !.step = "recover"]]
    BY <1>8 DEF CreateService, PipelineUnchanged, At, Moves
  <2>2. /\ service'.made = service.made + 1 /\ service'.current = service.made + 1
        /\ service'.boot = service.boot /\ service'.key = service.key
        /\ service'.settings = service.settings
    BY <1>1, <2>1 DEF ServiceState
  <2>3. ServiceIsSound'
    BY <2>1, <2>2, ServiceFacts, PlaceFacts DEF ServiceIsSound
  <2>4. ASSUME NEW q \in Requests PROVE RequestIsSound(q)'
    <3>1. request'[r].step = "recover" /\ request'[r].key = request[r].key
      BY <1>1, <2>1 DEF RequestState
    <3>2. q # r => request'[q] = request[q]
      BY <1>1, <2>1
    <3>3. request[q].to \in Nat
      BY <1>1 DEF RequestState
    <3> QED BY <2>1, <2>2, <3>1, <3>2, <3>3, ServiceFacts, PlaceFacts DEF RequestIsSound
  <2>5. ASSUME NEW s \in Services PROVE PoolIsSound(s)'
    <3>1. s # service.current => pool'[s] = pool[s]
      BY <1>1, <2>1
    <3>2. CASE s > service.made
      <4>1. pool'[s] = pool[s] /\ pool[s] = NewPool /\ Idle(s)
        BY <3>1, <3>2, ServiceFacts, PlaceFacts DEF PoolIsSound
      <4>2. Idle(s)' /\ pool'[s].open
        BY <1>4, <2>1, <4>1 DEF NewPool
      <4> QED BY <4>1, <4>2 DEF PoolIsSound, NewPool
    <3>3. CASE s <= service.boot
      <4>1. pool'[s] = pool[s] /\ Idle(s)
        BY <3>1, <3>3, ServiceFacts, PlaceFacts DEF PoolIsSound
      <4> QED BY <1>4, <2>1, <2>2, <3>3, <4>1, ServiceFacts DEF PoolIsSound
    <3>4. CASE service.boot < s /\ s <= service.made
      BY <2>2, <3>4, ServiceFacts DEF PoolIsSound
    <3> QED BY <3>2, <3>3, <3>4, ServiceFacts
  <2> QED BY <2>3, <2>4, <2>5
<1>9. ASSUME NEW s \in Services, service.boot < s, s <= service.made,
             pool'[s].open = pool[s].open,
             \A t \in Services : t # s => pool'[t] = pool[t],
             service'.made = service.made, service'.boot = service.boot,
             service'.current = service.current
      PROVE  \A t \in Services : PoolIsSound(t)'
  <2>1. \A t \in Services : t # s => (Idle(t) => Idle(t)')
    BY <1>4, <1>9, OneRequest
  <2> QED BY <1>9, <2>1, ServiceFacts, PlaceFacts DEF PoolIsSound, NewPool
<1>10. ASSUME NEW r \in Requests, RecoverActiveJobs(r) PROVE ServicesSound
  <2> DEFINE s == service.current
  <2>1. /\ s # 0 /\ request[r].step = "recover"
        /\ service' = [service EXCEPT !.key = request[r].key]
        /\ request' = [request EXCEPT ![r] = [step |-> "resolved", key |-> 0, to |-> s]]
        /\ faults' = faults
    BY <1>10 DEF RecoverActiveJobs, At
  <2>2. /\ service'.made = service.made /\ service'.current = service.current
        /\ service'.boot = service.boot /\ service'.settings = service.settings
    BY <1>1, <2>1 DEF ServiceState
  <2>3. ServiceIsSound'
    BY <2>1, <2>2, PlaceFacts DEF ServiceIsSound
  <2>4. \A q \in Requests : RequestIsSound(q)'
    BY <1>1, <2>1, <2>2, ServiceFacts, PlaceFacts DEF RequestIsSound
  <2>5. s \in Services /\ service.boot < s /\ s <= service.made
    BY <2>1, ServiceFacts
  <2>6. pool'[s].open = pool[s].open /\ \A t \in Services : t # s => pool'[t] = pool[t]
    <3>1. PICK new, order :
            pool' = [pool EXCEPT ![s].submitted = @ \union new, ![s].pending = @ \o order]
      BY <1>10 DEF RecoverActiveJobs
    <3> QED BY <1>1, <2>5, <3>1 DEF PoolState
  <2>7. \A t \in Services : PoolIsSound(t)'
    BY <1>9, <2>2, <2>5, <2>6
  <2> QED BY <2>3, <2>4, <2>7
<1>11. ASSUME NEW j \in Jobs, SaveUpload(j) \/ SaveRejected(j) PROVE ServicesSound
  <2>1. UNCHANGED <<service, pool, faults>> /\ j \in Requests
    BY <1>11, PlaceFacts DEF SaveUpload, SaveRejected, PipelineUnchanged
  <2>2. \A q \in Requests : q # j => request'[q] = request[q]
    BY <1>1, <1>11 DEF SaveUpload, SaveRejected, Moves, Reaches
  <2>3. RequestIsSound(j)'
    <3>1. CASE SaveUpload(j)
      <4>1. request'[j] = [request[j] EXCEPT !.step = "saved"] /\ request[j].step = "resolved"
        BY <1>1, <2>1, <3>1 DEF SaveUpload, Moves, At
      <4>2. request'[j].step = "saved" /\ request'[j].to = request[j].to
        BY <1>1, <2>1, <4>1 DEF RequestState
      <4> QED BY <2>1, <4>1, <4>2, PlaceFacts DEF RequestIsSound
    <3>2. CASE SaveRejected(j)
      <4>1. request'[j].step = "answered"
        BY <1>1, <2>1, <3>2 DEF SaveRejected, Reaches, Asking
      <4> QED BY <4>1 DEF RequestIsSound
    <3> QED BY <1>11, <3>1, <3>2
  <2>4. \A q \in Requests : RequestIsSound(q)'
    BY <2>1, <2>2, <2>3, PlaceFacts DEF RequestIsSound
  <2> QED BY <1>5, <2>1, <2>4, PlaceFacts DEF ServiceIsSound
<1>12. ASSUME NEW j \in Jobs, SubmitUpload(j) PROVE ServicesSound
  <2> DEFINE s == request[j].to
  <2>1. /\ UNCHANGED <<service, faults>> /\ j \in Requests
        /\ service.boot < s /\ s <= service.made /\ s \in Services
    <3>1. UNCHANGED <<service, faults>> /\ j \in Requests /\ request[j].step = "saved"
      BY <1>12, PlaceFacts DEF SubmitUpload, PipelineUnchanged, At
    <3>2. s \in Nat
      BY <1>1, <3>1 DEF RequestState
    <3> QED BY <3>1, <3>2, ServiceFacts, PlaceFacts, PipelineBounds DEF RequestIsSound, Services
  <2>2. PICK y \in {"rejected", "answered"} : request' = [request EXCEPT ![j] = Asking(y)]
    BY <1>12 DEF SubmitUpload, Reaches
  <2>3. \A q \in Requests : RequestIsSound(q)'
    BY <1>1, <2>1, <2>2, PlaceFacts DEF RequestIsSound, Asking
  <2>4. pool'[s].open = pool[s].open /\ \A t \in Services : t # s => pool'[t] = pool[t]
    <3>1. SubmitJob(pool[s], j).open = pool[s].open
      BY <1>1, <2>1 DEF SubmitJob, PoolState
    <3> QED BY <1>1, <1>12, <2>1, <3>1 DEF SubmitUpload
  <2>5. \A t \in Services : PoolIsSound(t)'
    BY <1>9, <2>1, <2>4
  <2> QED BY <2>1, <2>3, <2>5, PlaceFacts DEF ServiceIsSound
<1>13. ASSUME ChangeSettings PROVE ServicesSound
  <2>1. /\ UNCHANGED <<request, pool, worker, handed, beat>>
        /\ service' = [service EXCEPT !.settings = service.settings + 1]
        /\ faults' = [faults EXCEPT !.changes = faults.changes + 1]
    BY <1>13 DEF ChangeSettings, PipelineUnchanged
  <2>2. /\ service'.made = service.made /\ service'.current = service.current
        /\ service'.boot = service.boot /\ service'.key = service.key
        /\ service'.settings = service.settings + 1 /\ faults'.changes = faults.changes + 1
    BY <1>1, <2>1 DEF ServiceState, FaultState
  <2>3. \A s \in Services : PoolIsSound(s)'
    BY <1>4, <2>1, <2>2, PlaceFacts DEF PoolIsSound, NewPool
  <2> QED BY <2>1, <2>2, <2>3, PlaceFacts DEF ServiceIsSound, RequestIsSound
<1>14. ServicesSound
  BY <1>6, <1>7, <1>8, <1>10, <1>11, <1>12, <1>13 DEF GetService, Upload
<1> QED BY <1>2, <1>3, <1>14 DEF PlaceInv

\* How many removals are between reading a row and deleting it.
LEMMA RemovingFacts ==
  ASSUME PlaceInv
  PROVE  /\ Removing \in SUBSET Jobs /\ IsFiniteSet(Removing) /\ Cardinality(Removing) \in Nat
         /\ \A j \in Jobs : removal[j] # NoRemoval =>
              /\ Cardinality(Removing) >= 1
              /\ Cardinality(Removing \ {j}) = Cardinality(Removing) - 1
         /\ \A j \in Jobs : removal[j] = NoRemoval =>
              Cardinality(Removing \union {j}) = Cardinality(Removing) + 1
<1>1. Removing \in SUBSET Jobs /\ IsFiniteSet(Removing) /\ Cardinality(Removing) \in Nat
  BY PipelineIsFinite, FS_Subset, FS_CardinalityType DEF Removing
<1>2. ASSUME NEW j \in Jobs, removal[j] # NoRemoval
      PROVE  /\ Cardinality(Removing) >= 1
             /\ Cardinality(Removing \ {j}) = Cardinality(Removing) - 1
  <2>1. j \in Removing
    BY <1>2 DEF Removing
  <2>2. Cardinality(Removing \ {j}) = Cardinality(Removing) - 1
    BY <1>1, <2>1, FS_RemoveElement
  <2>3. Cardinality(Removing) # 0
    BY <1>1, <2>1, FS_EmptySet
  <2> QED BY <1>1, <2>2, <2>3
<1>3. ASSUME NEW j \in Jobs, removal[j] = NoRemoval
      PROVE  Cardinality(Removing \union {j}) = Cardinality(Removing) + 1
  <2>1. j \notin Removing
    BY <1>3 DEF Removing
  <2> QED BY <1>1, <2>1, FS_AddElement
<1> QED BY <1>1, <1>2, <1>3

\* The signal of a removal reaches one running process, or none.
LEMMA HitFacts ==
  ASSUME PlaceInv, NEW p, NEW hit \in Hit(p)
  PROVE  /\ hit \subseteq Running
         /\ Cardinality(hit) \in {0, 1}
         /\ Cardinality(hit) = 0 => hit = {}
<1>1. hit = {} \/ \E w \in Running : hit = {w}
  BY DEF Hit
<1>2. Cardinality({}) = 0 /\ \A w : Cardinality({w}) = 1
  BY FS_EmptySet, FS_Singleton
<1> QED BY <1>1, <1>2

\* What a removal does when it deletes the row.
LEMMA ActsFacts ==
  ASSUME PlaceInv, NEW j \in Jobs, RemovalActs(j)
  PROVE  \E hit \in SUBSET Workers :
           /\ hit \subseteq Running
           /\ Cardinality(hit) \in {0, 1} /\ (Cardinality(hit) = 0 => hit = {})
           /\ worker' = [w \in Workers |->
                 IF w \in hit THEN [worker[w] EXCEPT !.step = "dead"] ELSE worker[w]]
           /\ handed' = [w \in Workers |-> IF w \in hit THEN {} ELSE handed[w]]
           /\ beat' = [w \in Workers |-> IF w \in hit THEN NoBeat ELSE beat[w]]
           /\ faults' = [faults EXCEPT !.kills = faults.kills + Cardinality(hit)]
<1>1. PICK hit \in Hit(removal[j]) :
           /\ worker' = [w \in Workers |->
                 IF w \in hit THEN [worker[w] EXCEPT !.step = "dead"] ELSE worker[w]]
           /\ handed' = [w \in Workers |-> IF w \in hit THEN {} ELSE handed[w]]
           /\ beat' = [w \in Workers |-> IF w \in hit THEN NoBeat ELSE beat[w]]
           /\ faults' = [faults EXCEPT !.kills = faults.kills + Cardinality(hit)]
  BY DEF RemovalActs
<1>2. hit \subseteq Running /\ Cardinality(hit) \in {0, 1} /\ (Cardinality(hit) = 0 => hit = {})
  BY HitFacts
<1>3. Running \subseteq Workers
  BY DEF Running
<1> QED BY <1>1, <1>2, <1>3

\* The types, when a pool breaks, a job is removed or the API is restarted.
LEMMA OutsideTypes ==
  ASSUME PlaceInv,
         \/ \E s \in Services : PoolBreaks(s)
         \/ \E j \in Jobs : RemovalReads(j) \/ RemovalActs(j)
         \/ Restart
  PROVE  LTypeOK'
<1>1. /\ request \in [Requests -> RequestState] /\ service \in ServiceState
      /\ pool \in [Services -> PoolState] /\ faults \in FaultState
      /\ worker \in [Workers -> WorkerState] /\ handed \in [Workers -> SUBSET Jobs]
      /\ beat \in [Workers -> Beat \union {NoBeat}]
      /\ removal \in [Jobs -> Workers \union {NoPid, NoRemoval}]
      /\ row \in [Jobs -> Row \union {NoRow}]
  BY TypeFacts
<1>2. Free \in WorkerState /\ [Free EXCEPT !.step = "dead"] \in WorkerState
  BY DEF Free, WorkerState, WorkerSteps
<1>3. ASSUME NEW s \in Services, PoolBreaks(s) PROVE LTypeOK'
  <2>1. PICK mine, lost :
          /\ pool' = [pool EXCEPT ![s].broken = TRUE, ![s].submitted = @ \ lost, ![s].pending = << >>]
          /\ worker' = [w \in Workers |->
                IF w \in mine THEN [Free EXCEPT !.step = "dead"] ELSE worker[w]]
          /\ handed' = [w \in Workers |-> IF w \in mine THEN {} ELSE handed[w]]
          /\ beat' = [w \in Workers |-> IF w \in mine THEN NoBeat ELSE beat[w]]
    BY <1>3 DEF PoolBreaks
  <2>2. UNCHANGED <<row, request, removal, service, failures, outcome, faults>>
    BY <1>3 DEF PoolBreaks
  <2>3. pool' \in [Services -> PoolState]
    <3>1. << >> \in Seq(Jobs) /\ pool[s] \in PoolState
      BY <1>1
    <3>2. [pool[s] EXCEPT !.broken = TRUE, !.submitted = @ \ lost, !.pending = << >>] \in PoolState
      BY <3>1 DEF PoolState
    <3> QED BY <1>1, <2>1, <3>2
  <2>4. worker' \in [Workers -> WorkerState]
    BY <1>1, <1>2, <2>1
  <2>5. handed' \in [Workers -> SUBSET Jobs] /\ beat' \in [Workers -> Beat \union {NoBeat}]
    BY <1>1, <2>1
  <2> QED BY <2>2, <2>3, <2>4, <2>5, TypeFacts DEF LTypeOK
<1>4. ASSUME NEW j \in Jobs, RemovalReads(j) PROVE LTypeOK'
  <2>1. removal' \in [Jobs -> Workers \union {NoPid, NoRemoval}]
    <3>1. row[j].pid \in Workers \union {NoPid}
      BY <1>1, <1>4 DEF RemovalReads, Row
    <3> QED BY <1>1, <1>4, <3>1 DEF RemovalReads
  <2>2. faults' \in FaultState
    <3>1. faults.removals < MaxRemovals /\ faults' = [faults EXCEPT !.removals = faults.removals + 1]
      BY <1>4 DEF RemovalReads
    <3>2. faults.removals + 1 \in 0..MaxRemovals
      BY <1>1, <3>1, PipelineBounds DEF FaultState
    <3> QED BY <1>1, <3>1, <3>2 DEF FaultState
  <2>3. UNCHANGED <<row, request, service, pool, worker, handed, beat, failures, outcome>>
    BY <1>4 DEF RemovalReads, PipelineUnchanged
  <2> QED BY <2>1, <2>2, <2>3, TypeFacts DEF LTypeOK
<1>5. ASSUME NEW j \in Jobs, RemovalActs(j) PROVE LTypeOK'
  <2>1. PICK hit \in SUBSET Workers :
           /\ hit \subseteq Running
           /\ Cardinality(hit) \in {0, 1}
           /\ worker' = [w \in Workers |->
                 IF w \in hit THEN [worker[w] EXCEPT !.step = "dead"] ELSE worker[w]]
           /\ handed' = [w \in Workers |-> IF w \in hit THEN {} ELSE handed[w]]
           /\ beat' = [w \in Workers |-> IF w \in hit THEN NoBeat ELSE beat[w]]
           /\ faults' = [faults EXCEPT !.kills = faults.kills + Cardinality(hit)]
    BY <1>5, ActsFacts
  <2>2. worker' \in [Workers -> WorkerState]
    <3>1. \A w \in Workers : [worker[w] EXCEPT !.step = "dead"] \in WorkerState
      BY <1>1 DEF WorkerState, WorkerSteps
    <3> QED BY <1>1, <2>1, <3>1
  <2>3. handed' \in [Workers -> SUBSET Jobs] /\ beat' \in [Workers -> Beat \union {NoBeat}]
    BY <1>1, <2>1
  <2>4. faults' \in FaultState
    <3>1. /\ faults.kills \in Nat /\ faults.removals \in 0..MaxRemovals
          /\ Cardinality(Removing) >= 1 /\ Cardinality(Removing) \in Nat
          /\ faults.kills + Cardinality(Removing) <= faults.removals
      <4>1. faults.kills \in Nat /\ faults.removals \in 0..MaxRemovals
        BY <1>1, PipelineBounds DEF FaultState
      <4>2. removal[j] # NoRemoval
        BY <1>5 DEF RemovalActs
      <4>3. faults.kills + Cardinality(Removing) <= faults.removals
        BY PlaceFacts DEF KillInv
      <4> QED BY <4>1, <4>2, <4>3, RemovingFacts
    <3>2. faults.kills + Cardinality(hit) \in 0..MaxRemovals
      BY <2>1, <3>1, PipelineBounds
    <3> QED BY <1>1, <2>1, <3>2 DEF FaultState
  <2>5. row' \in [Jobs -> Row \union {NoRow}] /\ removal' \in [Jobs -> Workers \union {NoPid, NoRemoval}]
    BY <1>1, <1>5 DEF RemovalActs
  <2>6. UNCHANGED <<request, service, pool, failures, outcome>>
    BY <1>5 DEF RemovalActs
  <2> QED BY <2>2, <2>3, <2>4, <2>5, <2>6, TypeFacts DEF LTypeOK
<1>6. ASSUME Restart PROVE LTypeOK'
  <2>1. faults' \in FaultState
    <3>1. faults.restarts < MaxRestarts /\ faults' = [faults EXCEPT !.restarts = faults.restarts + 1]
      BY <1>6 DEF Restart
    <3>2. faults.restarts + 1 \in 0..MaxRestarts
      BY <1>1, <3>1, PipelineBounds DEF FaultState
    <3> QED BY <1>1, <3>1, <3>2 DEF FaultState
  <2>2. service' \in ServiceState
    <3>1. service.made \in 0..MaxServices /\ 0 \in 0..MaxServices /\ 0 \in 0..MaxChanges + 1
      BY <1>1, PipelineBounds DEF ServiceState
    <3>2. service' = [service EXCEPT !.current = 0, !.key = 0, !.boot = service.made]
      BY <1>6 DEF Restart
    <3> QED BY <1>1, <3>1, <3>2 DEF ServiceState
  <2>3. pool' \in [Services -> PoolState]
    <3>1. [NewPool EXCEPT !.open = FALSE] \in PoolState
      <4>1. NewPool \in PoolState
        BY DEF NewPool, PoolState
      <4> QED BY <4>1 DEF PoolState
    <3> QED BY <1>1, <1>6, <3>1 DEF Restart
  <2>4. request' \in [Requests -> RequestState]
    <3>1. Asking("aborted") \in RequestState
      BY PipelineBounds DEF Asking, RequestState, RequestSteps
    <3> QED BY <1>1, <1>6, <3>1 DEF Restart
  <2>5. worker' \in [Workers -> WorkerState]
    BY <1>2, <1>6 DEF Restart
  <2>6. /\ handed' \in [Workers -> SUBSET Jobs] /\ beat' \in [Workers -> Beat \union {NoBeat}]
        /\ removal' \in [Jobs -> Workers \union {NoPid, NoRemoval}]
        /\ UNCHANGED <<row, failures, outcome>>
    BY <1>6 DEF Restart
  <2> QED BY <2>1, <2>2, <2>3, <2>4, <2>5, <2>6, TypeFacts DEF LTypeOK
<1> QED BY <1>3, <1>4, <1>5, <1>6

\* And where things are.
LEMMA OutsidePlace ==
  ASSUME PlaceInv,
         \/ \E s \in Services : PoolBreaks(s)
         \/ \E j \in Jobs : RemovalReads(j) \/ RemovalActs(j)
         \/ Restart
  PROVE  PlaceInv'
<1>1. /\ request \in [Requests -> RequestState] /\ service \in ServiceState
      /\ pool \in [Services -> PoolState] /\ faults \in FaultState
      /\ worker \in [Workers -> WorkerState] /\ handed \in [Workers -> SUBSET Jobs]
      /\ beat \in [Workers -> Beat \union {NoBeat}]
  BY TypeFacts
<1>2. LTypeOK'
  BY OutsideTypes
<1>3. ASSUME NEW s \in Services, PoolBreaks(s) PROVE PlaceInv'
  <2> DEFINE mine == {w \in Workers : w[1] = s}
  <2>1. PICK lost :
          /\ pool' = [pool EXCEPT ![s].broken = TRUE, ![s].submitted = @ \ lost, ![s].pending = << >>]
          /\ worker' = [w \in Workers |->
                IF w \in mine THEN [Free EXCEPT !.step = "dead"] ELSE worker[w]]
          /\ handed' = [w \in Workers |-> IF w \in mine THEN {} ELSE handed[w]]
          /\ beat' = [w \in Workers |-> IF w \in mine THEN NoBeat ELSE beat[w]]
    BY <1>3 DEF PoolBreaks
  <2>2. UNCHANGED <<row, request, removal, service, failures, outcome, faults>>
    BY <1>3 DEF PoolBreaks
  <2>3. PICK d \in Workers : d[1] = s /\ worker[d].step = "dead"
    BY <1>3 DEF PoolBreaks, Doing
  <2>4. service.boot < s /\ s <= service.made
    BY <2>3, BusyFacts
  <2>5. ServiceIsSound' /\ \A r \in Requests : RequestIsSound(r)'
    BY <2>2, PlaceFacts DEF ServiceIsSound, RequestIsSound
  <2>6. KillInv'
    BY <2>2, <2>3, PlaceFacts DEF KillInv, Removing
  <2>7. ASSUME NEW w \in Workers PROVE WorkerIsSound(w)'
    <3>1. [Free EXCEPT !.step = "dead"].step = "dead"
      BY DEF Free
    <3>2. CASE w \in mine
      BY <2>1, <3>1, <3>2 DEF WorkerIsSound
    <3>3. CASE w \notin mine
      BY <2>1, <3>3, PlaceFacts DEF WorkerIsSound, Free
    <3> QED BY <3>2, <3>3
  <2>8. ASSUME NEW t \in Services PROVE PoolIsSound(t)'
    <3>1. CASE t = s
      <4>1. pool'[s].open = pool[s].open
        BY <1>1, <2>1 DEF PoolState
      <4> QED BY <2>2, <2>4, <3>1, <4>1, ServiceFacts, PlaceFacts DEF PoolIsSound
    <3>2. CASE t # s
      <4>1. pool'[t] = pool[t]
        BY <1>1, <2>1, <3>2
      <4>2. \A w \in Workers : w[1] = t => worker'[w] = worker[w] /\ handed'[w] = handed[w] /\ beat'[w] = beat[w]
        BY <2>1, <3>2
      <4>3. Idle(t) => Idle(t)'
        BY <4>1, <4>2 DEF Idle, Free
      <4> QED BY <2>2, <4>1, <4>3, PlaceFacts DEF PoolIsSound, NewPool
    <3> QED BY <3>1, <3>2
  <2> QED BY <1>2, <2>5, <2>6, <2>7, <2>8 DEF PlaceInv
<1>4. ASSUME NEW j \in Jobs, RemovalReads(j) PROVE PlaceInv'
  <2>1. UNCHANGED <<row, request, service, pool, worker, handed, beat, failures, outcome>>
    BY <1>4 DEF RemovalReads, PipelineUnchanged
  <2>2. /\ faults' = [faults EXCEPT !.removals = faults.removals + 1]
        /\ removal' = [removal EXCEPT ![j] = row[j].pid] /\ removal[j] = NoRemoval
        /\ row[j] # NoRow
    BY <1>4 DEF RemovalReads
  <2>3. /\ faults'.changes = faults.changes /\ faults'.kills = faults.kills
        /\ faults'.removals = faults.removals + 1
        /\ faults.kills \in Nat /\ faults.removals \in Nat
    BY <1>1, <2>2, PipelineBounds DEF FaultState
  <2>4. Removing' = Removing \union {j}
    <3>1. row[j].pid # NoRemoval
      BY <2>2, TypeFacts, AbsenceIsNone DEF Row
    <3>2. removal'[j] # NoRemoval
      BY <2>2, <3>1, TypeFacts
    <3>3. \A k \in Jobs : k # j => removal'[k] = removal[k]
      BY <2>2, TypeFacts
    <3> QED BY <3>2, <3>3 DEF Removing
  <2>5. Cardinality(Removing') = Cardinality(Removing) + 1 /\ Cardinality(Removing) \in Nat
    BY <2>2, <2>4, RemovingFacts
  <2>6. KillInv'
    BY <2>1, <2>3, <2>5, PlaceFacts DEF KillInv
  <2>7. ServiceIsSound' /\ \A r \in Requests : RequestIsSound(r)'
    BY <2>1, <2>3, PlaceFacts DEF ServiceIsSound, RequestIsSound
  <2>8. (\A w \in Workers : WorkerIsSound(w)') /\ \A s \in Services : PoolIsSound(s)'
    <3>1. \A s \in Services : Idle(s) => Idle(s)'
      BY <2>1 DEF Idle, Free
    <3> QED BY <2>1, <3>1, PlaceFacts DEF WorkerIsSound, PoolIsSound, NewPool, Free
  <2> QED BY <1>2, <2>6, <2>7, <2>8 DEF PlaceInv
<1>5. ASSUME NEW j \in Jobs, RemovalActs(j) PROVE PlaceInv'
  <2>1. PICK hit \in SUBSET Workers :
           /\ hit \subseteq Running
           /\ Cardinality(hit) \in {0, 1} /\ (Cardinality(hit) = 0 => hit = {})
           /\ worker' = [w \in Workers |->
                 IF w \in hit THEN [worker[w] EXCEPT !.step = "dead"] ELSE worker[w]]
           /\ handed' = [w \in Workers |-> IF w \in hit THEN {} ELSE handed[w]]
           /\ beat' = [w \in Workers |-> IF w \in hit THEN NoBeat ELSE beat[w]]
           /\ faults' = [faults EXCEPT !.kills = faults.kills + Cardinality(hit)]
    BY <1>5, ActsFacts
  <2>2. /\ UNCHANGED <<request, service, pool, failures, outcome>>
        /\ removal' = [removal EXCEPT ![j] = NoRemoval] /\ removal[j] # NoRemoval
    BY <1>5 DEF RemovalActs
  <2>3. /\ faults'.changes = faults.changes /\ faults'.kills = faults.kills + Cardinality(hit)
        /\ faults'.removals = faults.removals
        /\ faults.kills \in Nat /\ faults.removals \in Nat
    BY <1>1, <2>1, PipelineBounds DEF FaultState
  <2>4. KillInv'
    <3>1. Removing' = Removing \ {j}
      BY <2>2, TypeFacts DEF Removing
    <3>2. Cardinality(Removing') = Cardinality(Removing) - 1 /\ Cardinality(Removing) \in Nat
      BY <2>2, <3>1, RemovingFacts
    <3>3. faults'.kills + Cardinality(Removing') <= faults'.removals
      BY <2>1, <2>3, <3>2, PlaceFacts DEF KillInv
    <3>4. faults'.kills = 0 => faults.kills = 0 /\ worker' = worker
      <4>1. ASSUME faults'.kills = 0 PROVE hit = {} /\ faults.kills = 0
        BY <2>1, <2>3, <4>1
      <4> QED BY <1>1, <2>1, <4>1
    <3> QED BY <2>2, <3>3, <3>4, PlaceFacts DEF KillInv
  <2>5. ServiceIsSound' /\ \A r \in Requests : RequestIsSound(r)'
    BY <2>2, <2>3, PlaceFacts DEF ServiceIsSound, RequestIsSound
  <2>6. ASSUME NEW w \in Workers PROVE WorkerIsSound(w)'
    <3>1. [worker[w] EXCEPT !.step = "dead"].step = "dead"
      BY <1>1 DEF WorkerState
    <3>2. CASE w \in hit
      BY <2>1, <3>1, <3>2 DEF WorkerIsSound
    <3>3. CASE w \notin hit
      BY <2>1, <3>3, PlaceFacts DEF WorkerIsSound, Free
    <3> QED BY <3>2, <3>3
  <2>7. ASSUME NEW s \in Services PROVE PoolIsSound(s)'
    <3>1. CASE s <= service.boot \/ s > service.made
      <4>1. \A w \in Workers : w[1] = s => w \notin hit
        BY <2>1, <3>1, ServiceFacts DEF Running
      <4>2. Idle(s) => Idle(s)'
        BY <2>1, <2>2, <4>1 DEF Idle, Free
      <4> QED BY <2>2, <4>2, PlaceFacts DEF PoolIsSound, NewPool
    <3>2. CASE service.boot < s /\ s <= service.made
      BY <2>2, <3>2, ServiceFacts, PlaceFacts DEF PoolIsSound
    <3> QED BY <3>1, <3>2, ServiceFacts
  <2> QED BY <1>2, <2>4, <2>5, <2>6, <2>7 DEF PlaceInv
<1>6. ASSUME Restart PROVE PlaceInv'
  <2>1. /\ service' = [service EXCEPT !.current = 0, !.key = 0, !.boot = service.made]
        /\ faults' = [faults EXCEPT !.restarts = faults.restarts + 1]
        /\ pool' = [s \in Services |->
              IF s <= service.made THEN [NewPool EXCEPT !.open = FALSE] ELSE pool[s]]
        /\ worker' = [w \in Workers |-> Free] /\ handed' = [w \in Workers |-> {}]
        /\ beat' = [w \in Workers |-> NoBeat] /\ removal' = [j \in Jobs |-> NoRemoval]
        /\ request' = [r \in Requests |-> IF At(r, "new") \/ At(r, "answered") THEN request[r]
                                          ELSE Asking("aborted")]
    BY <1>6 DEF Restart
  <2>2. /\ service'.current = 0 /\ service'.key = 0 /\ service'.boot = service.made
        /\ service'.made = service.made /\ service'.settings = service.settings
        /\ faults'.changes = faults.changes /\ faults'.kills = faults.kills
        /\ faults'.removals = faults.removals /\ faults.kills \in Nat /\ faults.removals \in Nat
    BY <1>1, <2>1, PipelineBounds DEF ServiceState, FaultState
  <2>3. ServiceIsSound'
    BY <2>2, ServiceFacts, PlaceFacts DEF ServiceIsSound
  <2>4. \A r \in Requests : RequestIsSound(r)'
    BY <2>1 DEF RequestIsSound, At, Asking
  <2>5. \A w \in Workers : WorkerIsSound(w)'
    BY <2>1 DEF WorkerIsSound, Free
  <2>6. ASSUME NEW s \in Services PROVE PoolIsSound(s)' /\ (pool'[s].broken => pool[s].broken)
    <3>1. CASE s <= service.made
      <4>1. pool'[s] = [NewPool EXCEPT !.open = FALSE]
        BY <2>1, <3>1
      <4>2. pool'[s].pending = << >> /\ pool'[s].submitted = {} /\ ~pool'[s].broken
        BY <4>1 DEF NewPool
      <4>3. Idle(s)'
        BY <2>1, <4>2 DEF Idle, Free
      <4> QED BY <2>2, <3>1, <4>2, <4>3, ServiceFacts DEF PoolIsSound
    <3>2. CASE s > service.made
      <4>1. pool'[s] = pool[s] /\ pool[s] = NewPool
        BY <2>1, <3>2, ServiceFacts, PlaceFacts DEF PoolIsSound
      <4>2. Idle(s)'
        BY <2>1, <4>1 DEF Idle, Free, NewPool
      <4> QED BY <2>2, <3>2, <4>1, <4>2, ServiceFacts DEF PoolIsSound, NewPool
    <3> QED BY <3>1, <3>2, ServiceFacts
  <2>7. KillInv'
    <3>1. Removing' = {}
      BY <2>1 DEF Removing
    <3>2. Cardinality(Removing') = 0 /\ Cardinality(Removing) \in Nat
      BY <3>1, FS_EmptySet, RemovingFacts
    <3>3. faults'.kills + Cardinality(Removing') <= faults'.removals
      BY <2>2, <3>2, PlaceFacts DEF KillInv
    <3>4. \A w \in Workers : worker'[w].step # "dead"
      BY <2>1 DEF Free
    <3> QED BY <2>2, <2>6, <3>3, <3>4, PlaceFacts DEF KillInv
  <2> QED BY <1>2, <2>3, <2>4, <2>5, <2>6, <2>7 DEF PlaceInv
<1> QED BY <1>3, <1>4, <1>5, <1>6

\* Next, by who acts.
LEMMA NextActors ==
  ASSUME Next
  PROVE  \/ \E r \in Requests : GetService(r)
         \/ \E j \in Jobs : Upload(j)
         \/ ChangeSettings
         \/ \E w \in Workers : Working(w)
         \/ \E s \in Services : PoolBreaks(s)
         \/ \E j \in Jobs : RemovalReads(j) \/ RemovalActs(j)
         \/ Restart
BY DEF Next, Working

\* Everything is in its place at the start.
LEMMA PlaceInit ==
  ASSUME Init
  PROVE  PlaceInv
<1>1. /\ NewPool \in PoolState /\ Asking("new") \in RequestState /\ Free \in WorkerState
  BY PipelineBounds DEF NewPool, PoolState, Asking, RequestState, RequestSteps, Free, WorkerState, WorkerSteps
<1>2. service \in ServiceState /\ faults \in FaultState
  BY PipelineBounds DEF Init, ServiceState, FaultState
<1>3. LTypeOK
  BY <1>1, <1>2, PipelineBounds DEF Init, LTypeOK
<1>4. ServiceIsSound /\ \A r \in Requests : RequestIsSound(r)
  BY DEF Init, ServiceIsSound, RequestIsSound, Asking
<1>5. KillInv
  <2>1. Removing = {}
    BY DEF Init, Removing
  <2>2. Cardinality(Removing) = 0
    BY <2>1, FS_EmptySet
  <2> QED BY <2>2 DEF Init, KillInv, Free, NewPool
<1>6. \A w \in Workers : WorkerIsSound(w)
  BY DEF Init, WorkerIsSound, Free
<1>7. \A s \in Services : PoolIsSound(s)
  <2>1. \A s \in Services : Idle(s)
    BY DEF Init, Idle, NewPool, Free
  <2> QED BY <2>1 DEF Init, PoolIsSound, NewPool
<1> QED BY <1>3, <1>4, <1>5, <1>6, <1>7 DEF PlaceInv

\* And stays there.
LEMMA PlaceStep ==
  ASSUME PlaceInv, [Next]_vars
  PROVE  PlaceInv'
<1>1. CASE Next
  BY <1>1, NextActors, WorkingPlace, RequestPlace, OutsidePlace
<1>2. CASE UNCHANGED vars
  <2>1. LTypeOK' /\ ServiceIsSound' /\ KillInv'
    BY <1>2 DEF vars, PlaceInv, LTypeOK, ServiceIsSound, KillInv, Removing
  <2>2. \A s \in Services : Idle(s) => Idle(s)'
    BY <1>2 DEF vars, Idle, Free
  <2> QED BY <1>2, <2>1, <2>2, PlaceFacts DEF vars, PlaceInv, WorkerIsSound, RequestIsSound, PoolIsSound, Free, NewPool
<1> QED BY <1>1, <1>2

(* Every variable holds what the code can put there.                       *)
THEOREM PipelineTypes == Spec => []LTypeOK
<1>1. PlaceInv => LTypeOK
  BY DEF PlaceInv
<1> QED BY <1>1, PlaceInit, PlaceStep, PTL DEF Spec

-----------------------------------------------------------------------------
(* One unfinished future for a job                                         *)

\* A pool p, and the pool q it is when job j has been submitted to it.
GivenJob(p, j, q) ==
  /\ q.submitted = p.submitted \union {j}
  /\ j \in p.submitted \/ ~Accepts(p) => q.pending = p.pending
  /\ p.pending \in Seq(Jobs) /\ q.pending \in Seq(Jobs)
  /\ Elems(p.pending) \subseteq Elems(q.pending)
  /\ Elems(q.pending) \subseteq Elems(p.pending) \union {j}
  /\ j \notin p.submitted /\ Accepts(p) => j \in Elems(q.pending)
  /\ Distinct(p.pending) /\ Elems(p.pending) \subseteq p.submitted =>
       Distinct(q.pending) /\ Elems(q.pending) \subseteq q.submitted

\* What submit_job makes of a pool.
LEMMA SubmitOnce ==
  ASSUME NEW p \in PoolState, NEW j \in Jobs, NEW q, q = SubmitJob(p, j)
  PROVE  GivenJob(p, j, q)
<1> USE DEF GivenJob
<1>1. /\ q.submitted = p.submitted \union {j}
      /\ q.pending = IF j \in p.submitted \/ ~Accepts(p) THEN p.pending ELSE Append(p.pending, j)
      /\ p.pending \in Seq(Jobs)
  BY DEF SubmitJob, Known, PoolState
<1>2. /\ Append(p.pending, j) \in Seq(Jobs)
      /\ Elems(Append(p.pending, j)) = Elems(p.pending) \union {j}
      /\ Distinct(p.pending) /\ j \notin Elems(p.pending) => Distinct(Append(p.pending, j))
  BY <1>1, AppendLine
<1>3. CASE j \in p.submitted \/ ~Accepts(p)
  BY <1>1, <1>3
<1>4. CASE ~(j \in p.submitted \/ ~Accepts(p))
  <2>1. q.pending = Append(p.pending, j)
    BY <1>1, <1>4
  <2> QED BY <1>1, <1>2, <1>4, <2>1
<1> QED BY <1>3, <1>4

\* What release_job makes of it.
LEMMA ReleaseFacts ==
  ASSUME NEW p \in PoolState, NEW j \in Jobs
  PROVE  /\ ReleaseJob(p, j) \in PoolState
         /\ ReleaseJob(p, j).submitted = p.submitted \ {j} /\ ReleaseJob(p, j).pending = p.pending
         /\ Accepts(ReleaseJob(p, j)) <=> Accepts(p)
BY PoolsStay DEF ReleaseJob, PoolState, Accepts

\* Two of a pool's worker processes never have the same job, by its parts.
LEMMA OnceFrame ==
  ASSUME NEW s \in Services, OnceIn(s),
         pool'[s].pending = pool[s].pending, pool'[s].submitted = pool[s].submitted,
         \A w \in Workers : w[1] = s => worker'[w].job = worker[w].job
  PROVE  OnceIn(s)'
BY DEF OnceIn, Line

\* Only taking a job and handing in its result change who has which job.
LEMMA KeepsJob ==
  ASSUME PlaceInv, NEW w \in Workers, Working(w), ~Take(w), ~HandleSubmittedJobResult(w)
  PROVE  pool' = pool /\ \A v \in Workers : worker'[v].job = worker[v].job
<1>1. worker \in [Workers -> WorkerState] /\ worker[w] \in WorkerState
  BY TypeFacts
<1>2. \A v \in Workers : v # w => worker'[v] = worker[v]
  BY OneWorker
<1>3. CASE \/ Start(w) \/ ConvertFails(w) \/ ConvertSucceeds(w) \/ SaveParsed(w)
           \/ Enqueue(w) \/ SaveQueued(w)
  <2>1. PICK y : worker' = [worker EXCEPT ![w] = [worker[w] EXCEPT !.step = y]]
    BY <1>3 DEF Start, ConvertFails, ConvertSucceeds, SaveParsed, Enqueue, SaveQueued, Becomes
  <2>2. worker'[w].job = worker[w].job
    BY <1>1, <2>1 DEF WorkerState
  <2>3. pool' = pool
    BY <1>3 DEF Start, ConvertFails, ConvertSucceeds, SaveParsed, Enqueue, SaveQueued, ServiceUnchanged
  <2> QED BY <1>2, <2>2, <2>3
<1>4. CASE Delivers(w)
  <2>1. PICK y : worker' = [worker EXCEPT ![w] = [worker[w] EXCEPT !.step = y, !.fails = 0]]
    BY <1>4 DEF Delivers, RetryOrFailJob, EnqueueFails, SaveAgain, Returns
  <2>2. worker'[w].job = worker[w].job
    BY <1>1, <2>1 DEF WorkerState
  <2>3. pool' = pool
    BY <1>4 DEF Delivers, RetryOrFailJob, EnqueueFails, SaveAgain, ServiceUnchanged
  <2> QED BY <1>2, <2>2, <2>3
<1>5. CASE ReadLatest(w)
  <2>1. worker'[w].job = worker[w].job
    BY <1>1, <1>5, LatestFails
  <2> QED BY <1>2, <1>5, <2>1 DEF ReadLatest, ServiceUnchanged
<1>6. CASE BeatStarts(w) \/ BeatReads(w) \/ BeatSaves(w) \/ ProcessEnds(w) \/ \E j \in Jobs : Dispatch(w, j)
  BY <1>6 DEF BeatStarts, BeatReads, BeatSaves, ProcessEnds, Dispatch, ServiceUnchanged
<1> QED BY <1>3, <1>4, <1>5, <1>6 DEF Working, Process, HandOver, Delivers, Reporter

\* Taking a job, and handing in its result.
LEMMA WorkingOnce ==
  ASSUME PlaceInv, OnceInv, NEW w \in Workers, Working(w)
  PROVE  OnceInv'
<1> DEFINE s == w[1]
<1>1. /\ worker \in [Workers -> WorkerState] /\ pool \in [Services -> PoolState]
      /\ s \in Services /\ pool[s] \in PoolState /\ OnceIn(s) /\ NoJob \notin Jobs
  BY TypeFacts, WorkerFacts, AbsenceIsNone DEF OnceInv
<1>2. \A v \in Workers : v # w => worker'[v] = worker[v]
  BY OneWorker
<1>3. ASSUME NEW t \in Services, t # s PROVE OnceIn(t)'
  <2>1. pool'[t] = pool[t] /\ \A v \in Workers : v[1] = t => worker'[v] = worker[v]
    BY <1>3, OneWorker
  <2> QED BY <2>1, OnceFrame DEF OnceInv
<1>4. CASE Take(w)
  <2> DEFINE q == pool[s].pending
             k == Head(q)
  <2>1. q \in Seq(Jobs) /\ q # << >> /\ worker[w] = Free
    BY <1>1, <1>4, PlaceFacts DEF Take, PoolState, Doing, WorkerIsSound
  <2>2. /\ k \in Jobs /\ k \in Elems(q) /\ Elems(q) = Elems(Tail(q)) \union {k}
        /\ Distinct(q) => Distinct(Tail(q)) /\ k \notin Elems(Tail(q))
    BY <2>1, TailLine
  <2>3. pool'[s].pending = Tail(q) /\ pool'[s].submitted = pool[s].submitted /\ worker'[w].job = k
    <3>1. pool' = [pool EXCEPT ![s].pending = Tail(@)]
      BY <1>4 DEF Take
    <3>2. worker' = [worker EXCEPT ![w] =
               IF row[k] = NoRow THEN [step |-> "done", job |-> k, fails |-> 0]
               ELSE [step |-> "start", job |-> k, fails |-> row[k].fails]]
      BY <1>4 DEF Take
    <3> QED BY <1>1, <3>1, <3>2 DEF PoolState
  <2> HIDE DEF q, k
  <2>4. Distinct(q) /\ Elems(q) \subseteq pool[s].submitted
    BY <1>1 DEF OnceIn, Line, q
  <2>5. \A v \in Workers : v[1] = s /\ v # w /\ worker[v].job \in Jobs =>
          worker[v].job \in pool[s].submitted /\ worker[v].job \notin Elems(q)
    BY <1>1 DEF OnceIn, Line, q
  <2>6. OnceIn(s)'
    <3>1. Line(s)' = Elems(Tail(q))
      BY <2>3 DEF Line
    <3>2. \A v \in Workers : v[1] = s /\ v # w /\ worker'[v].job \in Jobs => worker'[v].job # k
      BY <1>2, <2>2, <2>5
    <3>3. \A u, v \in Workers :
            u[1] = s /\ v[1] = s /\ worker'[u].job \in Jobs /\ worker'[u].job = worker'[v].job => u = v
      BY <1>1, <1>2, <2>3, <3>2 DEF OnceIn
    <3>4. Distinct(pool'[s].pending) /\ Line(s)' \subseteq pool'[s].submitted
      BY <2>2, <2>3, <2>4, <3>1
    <3>5. \A v \in Workers : v[1] = s /\ worker'[v].job \in Jobs =>
            worker'[v].job \in pool'[s].submitted /\ worker'[v].job \notin Line(s)'
      BY <1>2, <2>2, <2>3, <2>4, <2>5, <3>1
    <3> QED BY <3>3, <3>4, <3>5 DEF OnceIn
  <2> QED BY <1>3, <2>6 DEF OnceInv
<1>5. CASE HandleSubmittedJobResult(w)
  <2>1. PICK j \in Jobs : j = worker[w].job
    BY <1>5, WorkerFacts DEF HandleSubmittedJobResult, Doing
  <2>2. PICK p \in PoolState :
          /\ p = ReleaseJob(pool[s], j)
          /\ p.submitted = pool[s].submitted \ {j} /\ p.pending = pool[s].pending
    BY <1>1, <2>1, ReleaseFacts
  <2>3. worker'[w] = Free /\ (pool'[s] = p \/ pool'[s] = SubmitJob(p, j))
    BY <1>1, <1>5, <2>1, <2>2 DEF HandleSubmittedJobResult
  <2>4. Distinct(p.pending) /\ Elems(p.pending) \subseteq p.submitted
    BY <1>1, <2>1, <2>2 DEF OnceIn, Line
  <2>5. /\ Distinct(pool'[s].pending) /\ Elems(pool'[s].pending) \subseteq pool'[s].submitted
        /\ p.submitted \subseteq pool'[s].submitted
        /\ Elems(pool'[s].pending) \subseteq Elems(p.pending) \union {j}
    <3>1. CASE pool'[s] = p
      BY <2>4, <3>1
    <3>2. CASE pool'[s] = SubmitJob(p, j)
      <4>1. PICK q : q = pool'[s] /\ q = SubmitJob(p, j)
        BY <3>2
      <4>2. /\ q.submitted = p.submitted \union {j}
            /\ Elems(q.pending) \subseteq Elems(p.pending) \union {j}
            /\ Distinct(q.pending) /\ Elems(q.pending) \subseteq q.submitted
        <5>1. GivenJob(p, j, q)
          BY <2>4, <4>1, SubmitOnce
        <5> QED BY <2>4, <5>1 DEF GivenJob
      <4> QED BY <4>1, <4>2
    <3> QED BY <2>3, <3>1, <3>2
  <2>6. \A v \in Workers : v[1] = s /\ worker'[v].job \in Jobs =>
          /\ v # w /\ worker'[v] = worker[v] /\ worker[v].job # j
          /\ worker[v].job \in pool[s].submitted /\ worker[v].job \notin Elems(pool[s].pending)
    BY <1>1, <1>2, <2>1, <2>3 DEF OnceIn, Line, Free
  <2>7. OnceIn(s)'
    BY <1>1, <2>2, <2>5, <2>6 DEF OnceIn, Line
  <2> QED BY <1>3, <2>7 DEF OnceInv
<1>6. CASE ~Take(w) /\ ~HandleSubmittedJobResult(w)
  BY <1>1, <1>3, <1>6, KeepsJob, OnceFrame DEF OnceInv
<1> QED BY <1>4, <1>5, <1>6

\* Requests, which submit their upload and recover jobs.
LEMMA RequestOnce ==
  ASSUME PlaceInv, OnceInv,
         \/ \E r \in Requests : GetService(r)
         \/ \E j \in Jobs : Upload(j)
         \/ ChangeSettings
  PROVE  OnceInv'
<1>1. pool \in [Services -> PoolState] /\ request \in [Requests -> RequestState]
  BY TypeFacts
<1>2. worker' = worker
  BY OneRequest
<1>3. ASSUME NEW s \in Services, pool'[s].pending = pool[s].pending,
             pool'[s].submitted = pool[s].submitted
      PROVE  OnceIn(s)'
  BY <1>2, <1>3, OnceFrame DEF OnceInv
<1>4. ASSUME NEW r \in Requests, ReadSettings(r) \/ UseService(r) PROVE pool' = pool
  BY <1>4 DEF ReadSettings, UseService
<1>5. ASSUME NEW r \in Requests, CreateService(r) PROVE OnceInv'
  <2>1. \A s \in Services : pool'[s].pending = pool[s].pending /\ pool'[s].submitted = pool[s].submitted
    BY <1>1, <1>5 DEF CreateService, PoolState
  <2> QED BY <1>3, <2>1 DEF OnceInv
<1>6. ASSUME NEW s \in Services, NEW new \in SUBSET Jobs,
             new \intersect pool[s].submitted = {},
             pool'[s].submitted = pool[s].submitted \union new,
             Elems(pool'[s].pending) = Elems(pool[s].pending) \union new,
             Distinct(pool'[s].pending)
      PROVE  OnceIn(s)'
  <2>1. OnceIn(s)
    BY DEF OnceInv
  <2> QED BY <1>2, <1>6, <2>1 DEF OnceIn, Line
<1>7. ASSUME NEW r \in Requests, RecoverActiveJobs(r) PROVE OnceInv'
  <2>1. PICK s \in Services, new \in SUBSET Jobs :
          s = service.current /\ new = ActiveJobs \ pool[s].submitted /\ pool[s] \in PoolState
    <3>1. service.current \in Services
      BY <1>7, ServiceFacts DEF RecoverActiveJobs
    <3>2. ActiveJobs \ pool[service.current].submitted \in SUBSET Jobs
      BY DEF ActiveJobs
    <3>3. pool[service.current] \in PoolState
      BY <1>1, <3>1
    <3> QED BY <3>1, <3>2, <3>3
  <2>2. PICK order \in Listings(new) :
          pool' = [pool EXCEPT ![s].submitted = @ \union new, ![s].pending = @ \o order]
    BY <1>7, <2>1 DEF RecoverActiveJobs
  <2>3. pool'[s].submitted = pool[s].submitted \union new /\ pool'[s].pending = pool[s].pending \o order
    BY <1>1, <2>1, <2>2 DEF PoolState
  <2>4. \A t \in Services : t # s => pool'[t] = pool[t]
    BY <1>1, <2>1, <2>2
  <2>5. new \intersect pool[s].submitted = {} /\ pool[s].pending \in Seq(Jobs)
    BY <2>1 DEF PoolState
  <2>6. OnceIn(s) /\ Distinct(pool[s].pending) /\ Elems(pool[s].pending) \intersect new = {}
    BY <2>1, <2>5 DEF OnceInv, OnceIn, Line
  <2>7. Elems(pool'[s].pending) = Elems(pool[s].pending) \union new /\ Distinct(pool'[s].pending)
    BY <2>1, <2>3, <2>5, <2>6, ListLine
  <2>8. OnceIn(s)'
    BY <1>6, <2>1, <2>3, <2>5, <2>7
  <2> QED BY <1>3, <2>4, <2>8 DEF OnceInv
<1>8. ASSUME NEW j \in Jobs, SubmitUpload(j) PROVE OnceInv'
  <2>1. PICK s \in Services : s = request[j].to
    <3>1. RequestIsSound(j) /\ request[j].step = "saved" /\ request[j] \in RequestState
      BY <1>1, <1>8, PlaceFacts DEF SubmitUpload, At
    <3>2. request[j].to \in Nat
      BY <3>1 DEF RequestState
    <3> QED BY <3>1, <3>2, ServiceFacts, PipelineBounds DEF RequestIsSound, Services
  <2>2. pool'[s] = SubmitJob(pool[s], j) /\ \A t \in Services : t # s => pool'[t] = pool[t]
    BY <1>1, <1>8, <2>1 DEF SubmitUpload
  <2>3. OnceIn(s) /\ pool[s] \in PoolState
    BY <1>1, <2>1 DEF OnceInv
  <2>4. Distinct(pool[s].pending) /\ Elems(pool[s].pending) \subseteq pool[s].submitted
    BY <2>3 DEF OnceIn, Line
  <2>9. GivenJob(pool[s], j, pool'[s])
    <3>1. PICK q : q = pool'[s] /\ q = SubmitJob(pool[s], j)
      BY <2>2
    <3>2. GivenJob(pool[s], j, q)
      BY <2>3, <3>1, SubmitOnce
    <3> QED BY <3>1, <3>2
  <2>5. CASE j \in pool[s].submitted
    <3>1. pool'[s].pending = pool[s].pending /\ pool'[s].submitted = pool[s].submitted
      <4>1. pool'[s].submitted = pool[s].submitted \union {j} /\ pool'[s].pending = pool[s].pending
        BY <2>5, <2>9 DEF GivenJob
      <4> QED BY <2>5, <4>1
    <3> QED BY <1>3, <2>2, <3>1 DEF OnceInv
  <2>6. CASE j \notin pool[s].submitted
    <3>1. /\ pool'[s].submitted = pool[s].submitted \union {j}
          /\ Elems(pool'[s].pending) \subseteq Elems(pool[s].pending) \union {j}
          /\ Distinct(pool'[s].pending) /\ Elems(pool'[s].pending) \subseteq pool'[s].submitted
      BY <2>4, <2>9 DEF GivenJob
    <3>2. OnceIn(s)'
      BY <1>2, <2>3, <2>6, <3>1 DEF OnceIn, Line
    <3> QED BY <1>3, <2>2, <3>2 DEF OnceInv
  <2> QED BY <2>5, <2>6
<1>9. ASSUME NEW j \in Jobs, SaveUpload(j) \/ SaveRejected(j) PROVE pool' = pool
  BY <1>9 DEF SaveUpload, SaveRejected
<1>10. ASSUME ChangeSettings PROVE pool' = pool
  BY <1>10 DEF ChangeSettings
<1>11. CASE pool' = pool
  BY <1>3, <1>11 DEF OnceInv
<1> QED BY <1>4, <1>5, <1>7, <1>8, <1>9, <1>10, <1>11 DEF GetService, Upload

\* Broken pools, removals, restarts.
LEMMA OutsideOnce ==
  ASSUME PlaceInv, OnceInv,
         \/ \E s \in Services : PoolBreaks(s)
         \/ \E j \in Jobs : RemovalReads(j) \/ RemovalActs(j)
         \/ Restart
  PROVE  OnceInv'
<1>1. /\ worker \in [Workers -> WorkerState] /\ pool \in [Services -> PoolState]
      /\ NoJob \notin Jobs
  BY TypeFacts, AbsenceIsNone
<1>2. ASSUME NEW s \in Services, pool'[s].pending = << >>,
             \A w \in Workers : w[1] = s => worker'[w].job = NoJob
      PROVE  OnceIn(s)'
  BY <1>1, <1>2, EmptyLine DEF OnceIn, Line
<1>3. ASSUME NEW s \in Services, PoolBreaks(s) PROVE OnceInv'
  <2> DEFINE mine == {w \in Workers : w[1] = s}
  <2>1. PICK lost :
          pool' = [pool EXCEPT ![s].broken = TRUE, ![s].submitted = @ \ lost, ![s].pending = << >>]
    BY <1>3 DEF PoolBreaks
  <2>2. worker' = [w \in Workers |-> IF w \in mine THEN [Free EXCEPT !.step = "dead"] ELSE worker[w]]
    BY <1>3 DEF PoolBreaks
  <2>3. pool'[s].pending = << >> /\ \A t \in Services : t # s => pool'[t] = pool[t]
    BY <1>1, <2>1 DEF PoolState
  <2>4. [Free EXCEPT !.step = "dead"].job = NoJob
    BY DEF Free
  <2>5. \A w \in Workers : IF w[1] = s THEN worker'[w].job = NoJob ELSE worker'[w] = worker[w]
    BY <2>2, <2>4
  <2> QED BY <1>2, <2>3, <2>5, OnceFrame DEF OnceInv
<1>4. ASSUME NEW j \in Jobs, RemovalReads(j) \/ RemovalActs(j) PROVE OnceInv'
  <2>1. pool' = pool
    BY <1>4 DEF RemovalReads, RemovalActs
  <2>2. \A w \in Workers : worker'[w].job = worker[w].job
    <3>1. \A w \in Workers : [worker[w] EXCEPT !.step = "dead"].job = worker[w].job
      BY <1>1 DEF WorkerState
    <3> QED BY <1>4, <3>1, ActsFacts DEF RemovalReads, PipelineUnchanged
  <2> QED BY <2>1, <2>2, OnceFrame DEF OnceInv
<1>5. ASSUME Restart PROVE OnceInv'
  <2>1. \A w \in Workers : worker'[w].job = NoJob
    BY <1>5 DEF Restart, Free
  <2>2. ASSUME NEW s \in Services PROVE pool'[s].pending = << >>
    <3>1. s <= service.made \/ s > service.made
      BY ServiceFacts
    <3>2. s > service.made => pool[s] = NewPool
      BY PlaceFacts DEF PoolIsSound
    <3>3. pool'[s] = IF s <= service.made THEN [NewPool EXCEPT !.open = FALSE] ELSE pool[s]
      BY <1>5 DEF Restart
    <3> QED BY <3>1, <3>2, <3>3, ServiceFacts DEF NewPool
  <2> QED BY <1>2, <2>1, <2>2 DEF OnceInv
<1> QED BY <1>3, <1>4, <1>5

\* The place of a job, at the start and after every step.
LEMMA OnceAlways ==
  /\ Init => OnceInv
  /\ PlaceInv /\ OnceInv /\ [Next]_vars => OnceInv'
<1>1. ASSUME Init PROVE OnceInv
  BY <1>1, EmptyLine, AbsenceIsNone DEF Init, OnceInv, OnceIn, Line, NewPool, Free
<1>2. ASSUME PlaceInv, OnceInv, Next PROVE OnceInv'
  BY <1>2, NextActors, WorkingOnce, RequestOnce, OutsideOnce
<1>3. ASSUME OnceInv, UNCHANGED vars PROVE OnceInv'
  BY <1>3, OnceFrame DEF vars, OnceInv
<1> QED BY <1>1, <1>2, <1>3

\* What the invariant says of the places counted.
LEMMA OnePlace ==
  ASSUME PlaceInv, OnceInv, NEW s \in Services, NEW j \in Jobs
  PROVE  /\ Places(s, j) <= 1
         /\ Places(s, j) = 1 => j \in pool[s].submitted
<1> DEFINE A == {i \in 1..Len(pool[s].pending) : pool[s].pending[i] = j}
           B == {w \in Workers : w[1] = s /\ worker[w].job = j}
<1>1. OnceIn(s)
  BY DEF OnceInv
<1>2. A = {} \/ \E i \in A : A = {i}
  BY <1>1 DEF OnceIn, Distinct
<1>3. B = {} \/ \E w \in B : B = {w}
  BY <1>1 DEF OnceIn
<1>4. A # {} => j \in Line(s)
  BY DEF Line, Elems
<1>5. A = {} \/ B = {}
  BY <1>1, <1>4 DEF OnceIn
<1>6. A # {} \/ B # {} => j \in pool[s].submitted
  BY <1>1, <1>4 DEF OnceIn
<1> HIDE DEF A, B
<1>7. Cardinality(A) = IF A = {} THEN 0 ELSE 1
  BY <1>2, FS_EmptySet, FS_Singleton
<1>8. Cardinality(B) = IF B = {} THEN 0 ELSE 1
  BY <1>3, FS_EmptySet, FS_Singleton
<1>9. Places(s, j) = Cardinality(A) + Cardinality(B)
  BY DEF Places, A, B
<1> QED BY <1>5, <1>6, <1>7, <1>8, <1>9

(* However uploads, retries, recoveries and broken pools mix, one service  *)
(* never has two unfinished futures for a job.                             *)
THEOREM OneFuturePerJob == Spec => []SubmittedOnce
<1>1. PlaceInv /\ OnceInv => SubmittedOnce
  BY OnePlace DEF SubmittedOnce
<1> QED BY <1>1, PlaceInit, PlaceStep, OnceAlways, PTL DEF Spec

-----------------------------------------------------------------------------
(* Failures and verdicts                                                   *)

\* What becomes of a worker process that goes a step further.
LEMMA MoveFacts ==
  ASSUME PlaceInv, NEW w \in Workers, NEW step
  PROVE  /\ Becomes(w, step) =>
              /\ worker'[w].step = step /\ worker'[w].job = worker[w].job
              /\ worker'[w].fails = worker[w].fails
              /\ \A v \in Workers : v # w => worker'[v] = worker[v]
         /\ Returns(w, step) =>
              /\ worker'[w].step = step /\ worker'[w].job = worker[w].job
              /\ worker'[w].fails = 0
              /\ \A v \in Workers : v # w => worker'[v] = worker[v]
<1>1. worker \in [Workers -> WorkerState] /\ worker[w] \in WorkerState
  BY TypeFacts
<1>2. LET x == [worker[w] EXCEPT !.step = step]
      IN x.step = step /\ x.job = worker[w].job /\ x.fails = worker[w].fails
  BY <1>1 DEF WorkerState
<1>3. LET x == [worker[w] EXCEPT !.step = step, !.fails = 0]
      IN x.step = step /\ x.job = worker[w].job /\ x.fails = 0
  BY <1>1 DEF WorkerState
<1>4. Becomes(w, step) => worker' = [worker EXCEPT ![w] = [worker[w] EXCEPT !.step = step]]
  BY DEF Becomes
<1>5. Returns(w, step) => worker' = [worker EXCEPT ![w] = [worker[w] EXCEPT !.step = step, !.fails = 0]]
  BY DEF Returns
<1> QED BY <1>1, <1>2, <1>3, <1>4, <1>5

\* What a worker process takes.
LEMMA TakeFacts ==
  ASSUME PlaceInv, NEW w \in Workers, Take(w)
  PROVE  \E k \in Jobs :
           /\ k \in Line(w[1]) /\ Elems(pool'[w[1]].pending) \union {k} = Line(w[1])
           /\ pool'[w[1]].submitted = pool[w[1]].submitted
           /\ worker[w] = Free /\ worker'[w].job = k
           /\ IF row[k] = NoRow THEN worker'[w].step = "done" /\ worker'[w].fails = 0
              ELSE worker'[w].step = "start" /\ worker'[w].fails = row[k].fails
<1> DEFINE s == w[1]
           q == pool[s].pending
           k == Head(q)
<1>1. /\ worker \in [Workers -> WorkerState] /\ pool \in [Services -> PoolState]
      /\ s \in Services /\ pool[s] \in PoolState
  BY TypeFacts, WorkerFacts
<1>2. q \in Seq(Jobs) /\ q # << >> /\ worker[w] = Free
  BY <1>1, PlaceFacts DEF Take, PoolState, Doing, WorkerIsSound
<1>3. k \in Jobs /\ k \in Elems(q) /\ Elems(q) = Elems(Tail(q)) \union {k}
  BY <1>2, TailLine
<1>4. pool' = [pool EXCEPT ![s].pending = Tail(@)]
  BY DEF Take
<1>5. worker' = [worker EXCEPT ![w] =
           IF row[k] = NoRow THEN [step |-> "done", job |-> k, fails |-> 0]
           ELSE [step |-> "start", job |-> k, fails |-> row[k].fails]]
  BY DEF Take
<1>6. pool'[s].pending = Tail(q) /\ pool'[s].submitted = pool[s].submitted
  BY <1>1, <1>4 DEF PoolState
<1>7. /\ worker'[w].job = k
      /\ IF row[k] = NoRow THEN worker'[w].step = "done" /\ worker'[w].fails = 0
         ELSE worker'[w].step = "start" /\ worker'[w].fails = row[k].fails
  BY <1>1, <1>5
<1> HIDE DEF k
<1> QED BY <1>2, <1>3, <1>6, <1>7 DEF Line

\* Worker processes on their way to counting a failure.
LEMMA FailingFacts ==
  ASSUME NEW j \in Jobs
  PROVE  /\ Failing(j) \in SUBSET Workers /\ IsFiniteSet(Failing(j))
         /\ Cardinality(Failing(j)) \in Nat
         /\ \A w \in Failing(j) :
              /\ Cardinality(Failing(j)) >= 1
              /\ Cardinality(Failing(j) \ {w}) = Cardinality(Failing(j)) - 1
         /\ \A w : w \notin Failing(j) =>
              Cardinality(Failing(j) \union {w}) = Cardinality(Failing(j)) + 1
         /\ \A F \in SUBSET Failing(j) :
              Cardinality(F) \in Nat /\ Cardinality(F) <= Cardinality(Failing(j))
<1>1. IsFiniteSet(Workers)
  <2>1. IsFiniteSet(Services)
    BY PipelineBounds, FS_Interval DEF Services
  <2> QED BY <2>1, PipelineIsFinite, FS_Product DEF Workers
<1>2. Failing(j) \in SUBSET Workers
  BY DEF Failing
<1>3. IsFiniteSet(Failing(j)) /\ Cardinality(Failing(j)) \in Nat
  BY <1>1, <1>2, FS_Subset, FS_CardinalityType
<1>4. ASSUME NEW w \in Failing(j)
      PROVE  /\ Cardinality(Failing(j)) >= 1
             /\ Cardinality(Failing(j) \ {w}) = Cardinality(Failing(j)) - 1
  <2>1. Cardinality(Failing(j) \ {w}) = Cardinality(Failing(j)) - 1
    BY <1>3, FS_RemoveElement
  <2>2. Cardinality(Failing(j)) # 0
    BY <1>3, FS_EmptySet
  <2> QED BY <1>3, <2>1, <2>2
<1>5. ASSUME NEW w, w \notin Failing(j)
      PROVE  Cardinality(Failing(j) \union {w}) = Cardinality(Failing(j)) + 1
  BY <1>3, <1>5, FS_AddElement
<1>6. ASSUME NEW F \in SUBSET Failing(j)
      PROVE  Cardinality(F) \in Nat /\ Cardinality(F) <= Cardinality(Failing(j))
  BY <1>3, FS_Subset, FS_CardinalityType
<1> QED BY <1>2, <1>3, <1>4, <1>5, <1>6

\* A count that is covered stays covered.
LEMMA BoundKept ==
  ASSUME PlaceInv, NEW j \in Jobs, NEW n \in Nat, Bounded(j, n),
         \/ failures'[j] = failures[j] /\ Failing(j)' \subseteq Failing(j)
         \/ /\ failures'[j] = IF failures[j] = MaxFailures THEN failures[j] ELSE failures[j] + 1
            /\ \E w : w \notin Failing(j) /\ Failing(j)' = Failing(j) \union {w}
  PROVE  Bounded(j, n)'
<1>1. failures[j] \in 0..MaxFailures /\ MaxFailures \in Nat
  BY TypeFacts, PipelineBounds
<1>2. Cardinality(Failing(j)) \in Nat
  BY FailingFacts
<1>3. CASE failures'[j] = failures[j] /\ Failing(j)' \subseteq Failing(j)
  <2>1. Cardinality(Failing(j)') \in Nat /\ Cardinality(Failing(j)') <= Cardinality(Failing(j))
    BY <1>3, FailingFacts
  <2> QED BY <1>1, <1>2, <1>3, <2>1 DEF Bounded
<1>4. CASE /\ failures'[j] = IF failures[j] = MaxFailures THEN failures[j] ELSE failures[j] + 1
           /\ \E w : w \notin Failing(j) /\ Failing(j)' = Failing(j) \union {w}
  <2>1. Cardinality(Failing(j)') = Cardinality(Failing(j)) + 1
    BY <1>4, FailingFacts
  <2> QED BY <1>1, <1>2, <1>4, <2>1 DEF Bounded
<1> QED BY <1>3, <1>4

\* What nobody ever takes back: that a count is covered, a failure, a refusal.
Lasting ==
  \A j \in Jobs :
    /\ \A n \in Nat : Bounded(j, n) => Bounded(j, n)'
    /\ failures[j] <= failures'[j]
    /\ "refused" \in outcome[j] => "refused" \in outcome'[j]

\* The failures while a worker process goes on.
LEMMA WorkingFailures ==
  ASSUME PlaceInv, NEW w \in Workers, Working(w), NEW j \in Jobs
  PROVE  /\ \A n \in Nat : Bounded(j, n) => Bounded(j, n)'
         /\ failures[j] <= failures'[j]
<1>1. /\ failures \in [Jobs -> 0..MaxFailures] /\ MaxFailures \in Nat /\ NoJob \notin Jobs
      /\ failures[j] <= failures[j]
  BY TypeFacts, PipelineBounds, AbsenceIsNone
<1>2. \A v \in Workers : v # w => worker'[v] = worker[v]
  BY OneWorker
<1>3. ASSUME failures' = failures, w \in Failing(j)' => w \in Failing(j)
      PROVE  /\ \A n \in Nat : Bounded(j, n) => Bounded(j, n)'
             /\ failures[j] <= failures'[j]
  <2>1. Failing(j)' \subseteq Failing(j)
    BY <1>2, <1>3 DEF Failing
  <2> QED BY <1>1, <1>3, <2>1, BoundKept
<1>4. CASE ConvertFails(w)
  <2>1. /\ failures' = [failures EXCEPT ![worker[w].job] = IF @ = MaxFailures THEN @ ELSE @ + 1]
        /\ worker[w].step = "convert" /\ worker'[w].step = "failed" /\ worker'[w].job = worker[w].job
    BY <1>4, MoveFacts DEF ConvertFails, Doing
  <2>2. CASE worker[w].job = j
    <3>1. failures'[j] = IF failures[j] = MaxFailures THEN failures[j] ELSE failures[j] + 1
      BY <1>1, <2>1, <2>2
    <3>2. w \notin Failing(j) /\ Failing(j)' = Failing(j) \union {w}
      BY <1>2, <2>1, <2>2 DEF Failing
    <3> QED BY <1>1, <3>1, <3>2, BoundKept
  <2>3. CASE worker[w].job # j
    <3>1. failures'[j] = failures[j]
      BY <1>1, <2>1, <2>3
    <3>2. Failing(j)' \subseteq Failing(j)
      BY <1>2, <2>1, <2>3 DEF Failing
    <3> QED BY <1>1, <3>1, <3>2, BoundKept
  <2> QED BY <2>2, <2>3
<1>5. CASE Take(w)
  <2>1. failures' = failures /\ worker'[w].step \in {"done", "start"}
    BY <1>5, TakeFacts DEF Take
  <2> QED BY <1>3, <2>1 DEF Failing
<1>6. CASE Start(w) \/ ConvertSucceeds(w) \/ SaveParsed(w) \/ Enqueue(w) \/ SaveQueued(w)
  <2>1. failures' = failures /\ worker'[w].step \in {"convert", "converted", "hand_over", "enqueued", "saved"}
    BY <1>6, MoveFacts DEF Start, ConvertSucceeds, SaveParsed, Enqueue, SaveQueued
  <2> QED BY <1>3, <2>1 DEF Failing
<1>7. CASE Delivers(w)
  <2>1. failures' = failures /\ worker'[w].step \in {"done", "retry"}
    BY <1>7, MoveFacts DEF Delivers, RetryOrFailJob, EnqueueFails, SaveAgain
  <2> QED BY <1>3, <2>1 DEF Failing
<1>8. CASE ReadLatest(w)
  <2>1. failures' = failures
    BY <1>8 DEF ReadLatest
  <2>2. worker' = [worker EXCEPT ![w] = [step |-> IF Doing(w, "failed") THEN "failing" ELSE "parsed",
                     job |-> worker[w].job,
                     fails |-> IF row[worker[w].job] = NoRow THEN worker[w].fails ELSE row[worker[w].job].fails]]
    BY <1>8 DEF ReadLatest
  <2>3. worker'[w].job = worker[w].job /\ (worker'[w].step = "parsed" \/ worker[w].step = "failed")
    BY <2>2, TypeFacts DEF Doing
  <2> QED BY <1>3, <2>1, <2>3 DEF Failing
<1>9. CASE HandleSubmittedJobResult(w)
  <2>1. failures' = failures /\ worker'[w] = Free
    BY <1>9, TypeFacts DEF HandleSubmittedJobResult
  <2> QED BY <1>3, <2>1 DEF Failing, Free
<1>10. CASE BeatStarts(w) \/ BeatReads(w) \/ BeatSaves(w) \/ ProcessEnds(w) \/ \E k \in Jobs : Dispatch(w, k)
  <2>1. failures' = failures /\ worker' = worker
    BY <1>10 DEF BeatStarts, BeatReads, BeatSaves, ProcessEnds, Dispatch, ServiceUnchanged
  <2> QED BY <1>3, <2>1 DEF Failing
<1> QED BY <1>4, <1>5, <1>6, <1>7, <1>8, <1>9, <1>10 DEF Working, Process, HandOver, Delivers, Reporter

\* The verdicts, whoever acts.
LEMMA VerdictsStay ==
  ASSUME PlaceInv, Next, NEW j \in Jobs, NEW verdict \in outcome[j], verdict # "put_off"
  PROVE  verdict \in outcome'[j]
<1>1. outcome \in [Jobs -> SUBSET Verdicts]
  BY TypeFacts
<1>2. ASSUME NEW r \in Requests, GetService(r) PROVE verdict \in outcome'[j]
  BY <1>1, <1>2 DEF GetService, ReadSettings, UseService, CreateService, RecoverActiveJobs, PipelineUnchanged
<1>3. ASSUME NEW k \in Jobs, Upload(k) PROVE verdict \in outcome'[j]
  BY <1>1, <1>3 DEF Upload, SaveUpload, SubmitUpload, SaveRejected, PipelineUnchanged
<1>4. ASSUME NEW w \in Workers, Working(w) PROVE verdict \in outcome'[j]
  <2>1. CASE Delivers(w) \/ \E k \in Jobs : Dispatch(w, k)
    BY <1>1, <2>1 DEF Delivers, RetryOrFailJob, EnqueueFails, SaveAgain, Dispatch
  <2>2. CASE \/ Take(w) \/ Start(w) \/ ConvertFails(w) \/ ConvertSucceeds(w) \/ ReadLatest(w)
             \/ SaveParsed(w) \/ Enqueue(w) \/ SaveQueued(w) \/ BeatStarts(w) \/ BeatReads(w) \/ BeatSaves(w)
             \/ HandleSubmittedJobResult(w) \/ ProcessEnds(w)
    <3>1. outcome' = outcome
      BY <2>2 DEF Take, Start, ConvertFails, ConvertSucceeds, ReadLatest, SaveParsed, Enqueue, SaveQueued,
                  BeatStarts, BeatReads, BeatSaves, HandleSubmittedJobResult, ProcessEnds
    <3> QED BY <3>1
  <2> QED BY <1>4, <2>1, <2>2 DEF Working, Process, HandOver, Delivers, Reporter
<1>5. ASSUME \/ ChangeSettings \/ Restart \/ \E s \in Services : PoolBreaks(s)
             \/ \E k \in Jobs : RemovalReads(k) \/ RemovalActs(k)
      PROVE  outcome' = outcome
  BY <1>5 DEF ChangeSettings, Restart, PoolBreaks, RemovalReads, RemovalActs, PipelineUnchanged
<1> QED BY <1>2, <1>3, <1>4, <1>5, NextActors

\* Failures that are counted, and rows that say so.
LEMMA HistoryLasts ==
  ASSUME PlaceInv, Next
  PROVE  Lasting
<1> SUFFICES ASSUME NEW j \in Jobs
             PROVE  /\ \A n \in Nat : Bounded(j, n) => Bounded(j, n)'
                    /\ failures[j] <= failures'[j]
  BY VerdictsStay DEF Lasting
<1>1. failures \in [Jobs -> 0..MaxFailures] /\ MaxFailures \in Nat /\ failures[j] <= failures[j]
      /\ worker \in [Workers -> WorkerState]
  BY TypeFacts, PipelineBounds
<1>2. ASSUME failures' = failures, Failing(j)' \subseteq Failing(j)
      PROVE  /\ \A n \in Nat : Bounded(j, n) => Bounded(j, n)'
             /\ failures[j] <= failures'[j]
  BY <1>1, <1>2, BoundKept
<1>3. CASE \/ \E r \in Requests : GetService(r)
           \/ \E k \in Jobs : Upload(k)
           \/ ChangeSettings
  <2>1. failures' = failures /\ worker' = worker
    BY <1>3, OneRequest
  <2> QED BY <1>2, <2>1 DEF Failing
<1>4. CASE \E w \in Workers : Working(w)
  BY <1>4, WorkingFailures
<1>5. CASE \E s \in Services : PoolBreaks(s)
  <2>1. PICK mine : worker' = [w \in Workers |->
                       IF w \in mine THEN [Free EXCEPT !.step = "dead"] ELSE worker[w]]
    BY <1>5 DEF PoolBreaks
  <2>2. failures' = failures /\ [Free EXCEPT !.step = "dead"].step = "dead"
    BY <1>5 DEF PoolBreaks, Free
  <2>3. Failing(j)' \subseteq Failing(j)
    BY <2>1, <2>2 DEF Failing
  <2> QED BY <1>2, <2>2, <2>3
<1>6. CASE \E k \in Jobs : RemovalReads(k) \/ RemovalActs(k)
  <2>1. failures' = failures /\ \A w \in Workers : [worker[w] EXCEPT !.step = "dead"].step = "dead"
    BY <1>1, <1>6 DEF RemovalReads, RemovalActs, PipelineUnchanged, WorkerState
  <2>2. \A w \in Workers : worker'[w] = worker[w] \/ worker'[w].step = "dead"
    BY <1>6, <2>1, ActsFacts DEF RemovalReads, PipelineUnchanged
  <2>3. Failing(j)' \subseteq Failing(j)
    BY <2>2 DEF Failing
  <2> QED BY <1>2, <2>1, <2>3
<1>7. CASE Restart
  <2>1. failures' = failures /\ Failing(j)' \subseteq Failing(j)
    BY <1>7 DEF Restart, Failing, Free
  <2> QED BY <1>2, <2>1
<1> QED BY <1>3, <1>4, <1>5, <1>6, <1>7, NextActors

\* A row comes from the upload, from its worker process, from a failure that
\* is counted, from the dispatchers or from a copy of the reporter.
RowSource(j) ==
  \/ row'[j] = row[j]
  \/ row'[j] = NoRow
  \/ row'[j].fails = 0 /\ row'[j].status # "failed"
  \/ \E w \in Workers :
       worker[w].job = j /\ row'[j].fails = worker[w].fails /\ row'[j].status # "failed"
  \/ \E w \in Workers :
       /\ w \in Failing(j) /\ worker'[w].step \notin {"failed", "failing"}
       /\ failures' = failures /\ \A v \in Workers : v # w => worker'[v] = worker[v]
       /\ row'[j].fails = worker[w].fails + 1
       /\ row'[j].status = "failed" => ~HasBudget(worker[w].fails)
  \/ /\ row[j] # NoRow /\ row'[j].fails = row[j].fails
     /\ row'[j].status = "failed" => "refused" \in outcome'[j]
  \/ \E w \in Workers : Reporting(w) /\ beat[w].job = j /\ row'[j] = beat[w].copy

LEMMA RowSources ==
  ASSUME PlaceInv, Next, NEW j \in Jobs
  PROVE  RowSource(j)
<1> USE DEF RowSource
<1>1. /\ row \in [Jobs -> Row \union {NoRow}]
      /\ outcome \in [Jobs -> SUBSET Verdicts]
  BY TypeFacts
<1>2. CASE row' = row
  BY <1>2
<1>3. ASSUME NEW k \in Jobs, Upload(k) PROVE RowSource(j)
  <2>1. CASE SaveUpload(k)
    <3>1. Save(k, "parser_queued", 0, NoPid)
      BY <2>1 DEF SaveUpload
    <3> QED BY <1>1, <3>1 DEF Save
  <2>2. CASE SaveRejected(k)
    <3>1. Save(k, "retryable_failure", 0, NoPid)
      BY <2>2 DEF SaveRejected
    <3> QED BY <1>1, <3>1 DEF Save
  <2>3. CASE SubmitUpload(k)
    BY <1>2, <2>3 DEF SubmitUpload
  <2> QED BY <1>3, <2>1, <2>2, <2>3 DEF Upload
<1>4. ASSUME NEW w \in Workers, Working(w) PROVE RowSource(j)
  <2>1. CASE Start(w) \/ SaveParsed(w) \/ EnqueueFails(w) \/ SaveQueued(w) \/ SaveAgain(w)
    <3>1. worker[w].job \in Jobs
      BY <2>1, WorkerFacts DEF Start, SaveParsed, EnqueueFails, SaveQueued, SaveAgain, Doing
    <3>2. PICK status \in {"parsing", "parsed", "dispatch_queued", "retryable_failure"}, pid \in Workers \union {NoPid} :
            Save(worker[w].job, status, worker[w].fails, pid)
      BY <2>1 DEF Start, SaveParsed, EnqueueFails, SaveQueued, SaveAgain
    <3>3. /\ row'[worker[w].job].status = status /\ row'[worker[w].job].fails = worker[w].fails
          /\ \A k \in Jobs : k # worker[w].job => row'[k] = row[k]
      BY <1>1, <3>1, <3>2 DEF Save
    <3> QED BY <3>3
  <2>2. CASE RetryOrFailJob(w)
    <3>1. worker[w].job \in Jobs /\ worker[w].step = "failing"
      BY <2>2, WorkerFacts DEF RetryOrFailJob, Doing
    <3>2. PICK status \in {"retrying", "failed"} :
            /\ Save(worker[w].job, status, worker[w].fails + 1, NoPid)
            /\ status = "failed" => ~HasBudget(worker[w].fails)
      BY <2>2 DEF RetryOrFailJob, FailureCount
    <3>3. worker'[w].step \in {"done", "retry"} /\ \A v \in Workers : v # w => worker'[v] = worker[v]
      BY <2>2, MoveFacts DEF RetryOrFailJob
    <3>4. w \in Failing(worker[w].job)
      BY <3>1 DEF Failing
    <3>5. failures' = failures
      BY <2>2 DEF RetryOrFailJob
    <3>6. /\ row'[worker[w].job].status = status /\ row'[worker[w].job].fails = worker[w].fails + 1
          /\ \A k \in Jobs : k # worker[w].job => row'[k] = row[k]
      BY <1>1, <3>1, <3>2 DEF Save
    <3>7. CASE j = worker[w].job
      BY <3>2, <3>3, <3>4, <3>5, <3>6, <3>7
    <3> QED BY <3>6, <3>7
  <2>3. ASSUME NEW k \in Jobs, Dispatch(w, k) PROVE RowSource(j)
    <3>1. \/ row' = row
          \/ row[k] # NoRow /\ Save(k, "completed", row[k].fails, NoPid)
          \/ row[k] # NoRow /\ Save(k, "failed", row[k].fails, NoPid) /\ "refused" \in outcome'[k]
      BY <1>1, <2>3, DispatchFacts
    <3>2. CASE row[k] # NoRow /\ Save(k, "completed", row[k].fails, NoPid)
      BY <1>1, <3>2 DEF Save
    <3>3. CASE row[k] # NoRow /\ Save(k, "failed", row[k].fails, NoPid) /\ "refused" \in outcome'[k]
      BY <1>1, <3>3 DEF Save
    <3> QED BY <1>2, <3>1, <3>2, <3>3
  <2>4. CASE BeatSaves(w)
    <3>1. Reporting(w) /\ row' = [row EXCEPT ![beat[w].job] = beat[w].copy]
      BY <2>4 DEF BeatSaves
    <3> QED BY <1>1, <3>1
  <2>5. CASE \/ Take(w) \/ ConvertFails(w) \/ ConvertSucceeds(w) \/ ReadLatest(w)
             \/ Enqueue(w) \/ BeatStarts(w) \/ BeatReads(w) \/ HandleSubmittedJobResult(w) \/ ProcessEnds(w)
    <3>1. row' = row
      BY <2>5 DEF Take, ConvertFails, ConvertSucceeds, ReadLatest, Enqueue, BeatStarts, BeatReads,
                  HandleSubmittedJobResult, ProcessEnds
    <3> QED BY <1>2, <3>1
  <2> QED BY <1>4, <2>1, <2>2, <2>3, <2>4, <2>5 DEF Working, Process, HandOver, Reporter
<1>5. ASSUME NEW k \in Jobs, RemovalReads(k) \/ RemovalActs(k) PROVE RowSource(j)
  <2>1. row' = row \/ row' = [row EXCEPT ![k] = NoRow]
    BY <1>5 DEF RemovalReads, RemovalActs
  <2> QED BY <1>1, <2>1
<1>6. ASSUME NEW r \in Requests, GetService(r) PROVE row' = row
  BY <1>6 DEF GetService, ReadSettings, UseService, CreateService, RecoverActiveJobs
<1>7. ASSUME ChangeSettings \/ Restart \/ \E s \in Services : PoolBreaks(s) PROVE row' = row
  BY <1>7 DEF ChangeSettings, Restart, PoolBreaks
<1> QED BY <1>2, <1>3, <1>4, <1>5, <1>6, <1>7, NextActors

\* What a worker process counts, and what a reporter copies, is as before or
\* read from the row.
LEMMA CopySources ==
  ASSUME PlaceInv, Next, NEW w \in Workers
  PROVE  /\ \/ worker'[w].job = worker[w].job /\ worker'[w].fails = worker[w].fails
            \/ worker'[w].fails = 0
            \/ row[worker'[w].job] # NoRow /\ worker'[w].fails = row[worker'[w].job].fails
         /\ \/ Reporting(w)' = FALSE
            \/ Reporting(w) /\ beat'[w].job = beat[w].job /\ beat'[w].copy = beat[w].copy
            \/ row[beat'[w].job] # NoRow /\ beat'[w].copy = row[beat'[w].job]
<1> DEFINE FromRow ==
      /\ \/ worker'[w].job = worker[w].job /\ worker'[w].fails = worker[w].fails
         \/ worker'[w].fails = 0
         \/ row[worker'[w].job] # NoRow /\ worker'[w].fails = row[worker'[w].job].fails
      /\ \/ Reporting(w)' = FALSE
         \/ Reporting(w) /\ beat'[w].job = beat[w].job /\ beat'[w].copy = beat[w].copy
         \/ row[beat'[w].job] # NoRow /\ beat'[w].copy = row[beat'[w].job]
<1>1. worker \in [Workers -> WorkerState] /\ beat \in [Workers -> Beat \union {NoBeat}]
  BY TypeFacts
<1>2. CASE worker'[w] = worker[w] /\ beat'[w] = beat[w]
  BY <1>2 DEF Reporting
<1>3. ASSUME NEW v \in Workers, Working(v), v # w PROVE FromRow
  BY <1>2, <1>3, OneWorker
<1>4. ASSUME Working(w) PROVE FromRow
  <2>1. CASE Take(w)
    <3>1. beat' = beat
      BY <2>1 DEF Take
    <3> QED BY <2>1, <3>1, TakeFacts DEF Reporting
  <2>2. CASE Start(w) \/ SaveParsed(w) \/ Enqueue(w) \/ SaveQueued(w)
    <3>1. beat' = beat /\ worker'[w].job = worker[w].job /\ worker'[w].fails = worker[w].fails
      BY <2>2, MoveFacts DEF Start, SaveParsed, Enqueue, SaveQueued
    <3> QED BY <3>1 DEF Reporting
  <2>3. CASE ConvertFails(w) \/ ConvertSucceeds(w)
    <3>1. worker'[w].job = worker[w].job /\ worker'[w].fails = worker[w].fails
      BY <2>3, MoveFacts DEF ConvertFails, ConvertSucceeds
    <3>2. beat' = [beat EXCEPT ![w] =
             IF beat[w] = NoBeat THEN beat[w] ELSE [beat[w] EXCEPT !.late = TRUE]]
      BY <2>3 DEF ConvertFails, ConvertSucceeds, StopBeat
    <3>3. LET b == [beat[w] EXCEPT !.late = TRUE]
          IN beat[w] # NoBeat => b.job = beat[w].job /\ b.copy = beat[w].copy
      BY <1>1 DEF Beat
    <3>4. CASE beat[w] = NoBeat
      <4>1. beat'[w] = NoBeat
        BY <1>1, <3>2, <3>4
      <4> QED BY <3>1, <4>1 DEF Reporting
    <3>5. CASE beat[w] # NoBeat
      <4>1. beat'[w].job = beat[w].job /\ beat'[w].copy = beat[w].copy
        BY <1>1, <3>2, <3>3, <3>5
      <4> QED BY <3>1, <3>5, <4>1 DEF Reporting
    <3> QED BY <3>4, <3>5
  <2>4. CASE ReadLatest(w)
    <3>1. beat' = beat
      BY <2>4 DEF ReadLatest
    <3>2. worker' = [worker EXCEPT ![w] = [step |-> IF Doing(w, "failed") THEN "failing" ELSE "parsed",
                     job |-> worker[w].job,
                     fails |-> IF row[worker[w].job] = NoRow THEN worker[w].fails ELSE row[worker[w].job].fails]]
      BY <2>4 DEF ReadLatest
    <3>3. /\ worker'[w].job = worker[w].job
          /\ worker'[w].fails = IF row[worker[w].job] = NoRow THEN worker[w].fails ELSE row[worker[w].job].fails
      BY <1>1, <3>2
    <3> QED BY <3>1, <3>3 DEF Reporting
  <2>5. CASE Delivers(w)
    <3>1. beat' = beat /\ worker'[w].fails = 0
      BY <2>5, MoveFacts DEF Delivers, RetryOrFailJob, EnqueueFails, SaveAgain
    <3> QED BY <3>1 DEF Reporting
  <2>6. CASE HandleSubmittedJobResult(w)
    <3>1. beat' = beat /\ worker'[w].fails = 0
      BY <1>1, <2>6 DEF HandleSubmittedJobResult, Free
    <3> QED BY <3>1 DEF Reporting
  <2>7. CASE BeatStarts(w) \/ BeatSaves(w)
    <3>1. worker' = worker /\ (beat'[w] = NoBeat \/ beat'[w].copy = NoRow)
      BY <1>1, <2>7 DEF BeatStarts, BeatSaves, ServiceUnchanged
    <3> QED BY <3>1 DEF Reporting
  <2>8. CASE BeatReads(w)
    <3>1. /\ worker' = worker /\ beat[w] # NoBeat
          /\ beat' = [beat EXCEPT ![w] =
               IF row[beat[w].job] = NoRow THEN NoBeat ELSE [beat[w] EXCEPT !.copy = row[beat[w].job]]]
      BY <2>8 DEF BeatReads
    <3>2. LET b == [beat[w] EXCEPT !.copy = row[beat[w].job]]
          IN b.job = beat[w].job /\ b.copy = row[beat[w].job]
      BY <1>1, <3>1 DEF Beat
    <3>3. beat'[w] = NoBeat \/ (row[beat'[w].job] # NoRow /\ beat'[w].copy = row[beat'[w].job])
      BY <1>1, <3>1, <3>2
    <3> QED BY <3>1, <3>3 DEF Reporting
  <2>9. CASE \E k \in Jobs : Dispatch(w, k)
    BY <1>2, <2>9 DEF Dispatch
  <2>10. CASE ProcessEnds(w)
    <3>1. worker' = worker /\ beat'[w] = NoBeat
      BY <1>1, <2>10 DEF ProcessEnds
    <3> QED BY <3>1 DEF Reporting
  <2> QED BY <1>4, <2>1, <2>2, <2>3, <2>4, <2>5, <2>6, <2>7, <2>8, <2>9, <2>10
      DEF Working, Process, HandOver, Delivers, Reporter
<1>5. CASE \/ \E r \in Requests : GetService(r)
           \/ \E k \in Jobs : Upload(k)
           \/ ChangeSettings
  BY <1>2, <1>5, OneRequest
<1>6. CASE \E s \in Services : PoolBreaks(s)
  <2>1. PICK mine :
          /\ worker' = [v \in Workers |->
                IF v \in mine THEN [Free EXCEPT !.step = "dead"] ELSE worker[v]]
          /\ beat' = [v \in Workers |-> IF v \in mine THEN NoBeat ELSE beat[v]]
    BY <1>6 DEF PoolBreaks
  <2>2. [Free EXCEPT !.step = "dead"].fails = 0
    BY DEF Free
  <2>3. CASE w \in mine
    BY <2>1, <2>2, <2>3 DEF Reporting
  <2>4. CASE w \notin mine
    BY <1>2, <2>1, <2>4
  <2> QED BY <2>3, <2>4
<1>7. CASE \E k \in Jobs : RemovalReads(k)
  BY <1>2, <1>7 DEF RemovalReads, PipelineUnchanged
<1>8. CASE \E k \in Jobs : RemovalActs(k)
  <2>1. PICK hit :
          /\ worker' = [v \in Workers |->
                IF v \in hit THEN [worker[v] EXCEPT !.step = "dead"] ELSE worker[v]]
          /\ beat' = [v \in Workers |-> IF v \in hit THEN NoBeat ELSE beat[v]]
    BY <1>8, ActsFacts
  <2>2. LET x == [worker[w] EXCEPT !.step = "dead"]
        IN x.job = worker[w].job /\ x.fails = worker[w].fails
    BY <1>1 DEF WorkerState
  <2>3. CASE w \in hit
    BY <2>1, <2>2, <2>3 DEF Reporting
  <2>4. CASE w \notin hit
    BY <1>2, <2>1, <2>4
  <2> QED BY <2>3, <2>4
<1>9. CASE Restart
  BY <1>9 DEF Restart, Free, Reporting
<1> QED BY <1>3, <1>4, <1>5, <1>6, <1>7, <1>8, <1>9, NextActors

\* The counts, and the verdicts, after a step.
LEMMA CountsStep ==
  ASSUME PlaceInv, FailsInv, VerdictInv, Next
  PROVE  FailsInv' /\ VerdictInv'
<1>1. /\ row \in [Jobs -> Row \union {NoRow}] /\ failures \in [Jobs -> 0..MaxFailures]
      /\ MaxFailures \in Nat /\ MaxRetries \in Nat /\ MaxFailures > MaxRetries
      /\ worker \in [Workers -> WorkerState] /\ NoJob \notin Jobs
  BY TypeFacts, PipelineBounds, AbsenceIsNone
<1>2. Lasting
  BY HistoryLasts
<1>3. PlaceInv'
  BY PlaceStep
<1>4. /\ \A k \in Jobs : row[k] # NoRow => row[k].fails \in Nat
      /\ \A w \in Workers : worker[w].fails \in Nat
      /\ \A w \in Workers : Reporting(w) => beat[w].copy.fails \in Nat /\ beat[w].job \in Jobs
  <2>1. \A w \in Workers : Reporting(w) => beat[w].copy \in Row /\ beat[w].job \in Jobs
    BY WorkerFacts DEF Reporting
  <2>2. \A k \in Jobs : row[k] # NoRow => row[k] \in Row
    BY <1>1
  <2>3. \A w \in Workers : worker[w].fails \in Nat
    BY WorkerFacts
  <2> QED BY <2>1, <2>2, <2>3 DEF Row
<1>5. ASSUME NEW j \in Jobs PROVE Bounded(j, 0)'
  BY <1>2 DEF Lasting, FailsInv
<1>6. ASSUME NEW j \in Jobs, NEW n \in Nat, Bounded(j, n) PROVE Bounded(j, n)'
  BY <1>2, <1>6 DEF Lasting
<1>7. ASSUME NEW j \in Jobs, NEW r, Deserved(j, r) PROVE Deserved(j, r)'
  <2>1. failures[j] \in Nat /\ failures'[j] \in Nat /\ failures[j] <= failures'[j]
    <3>1. failures' \in [Jobs -> 0..MaxFailures]
      BY <1>3 DEF PlaceInv, LTypeOK
    <3> QED BY <1>1, <1>2, <3>1 DEF Lasting
  <2>2. "refused" \in outcome[j] => "refused" \in outcome'[j]
    BY <1>2 DEF Lasting
  <2> QED BY <1>1, <1>7, <2>1, <2>2 DEF Deserved
\* A row that is there counts what is covered, and its verdict is deserved.
<1>8. ASSUME NEW j \in Jobs, NEW r, r = row'[j], r # NoRow
      PROVE  Bounded(j, r.fails)' /\ Deserved(j, r)'
  <2>1. CASE r = row[j]
    BY <1>4, <1>6, <1>7, <1>8, <2>1 DEF FailsInv, VerdictInv
  <2>2. CASE r.fails = 0 /\ r.status # "failed"
    BY <1>5, <2>2 DEF Deserved
  <2>3. CASE \E w \in Workers : worker[w].job = j /\ r.fails = worker[w].fails /\ r.status # "failed"
    BY <1>4, <1>6, <2>3 DEF FailsInv, Deserved
  <2>4. CASE \E w \in Workers :
               /\ w \in Failing(j) /\ worker'[w].step \notin {"failed", "failing"}
               /\ failures' = failures /\ \A v \in Workers : v # w => worker'[v] = worker[v]
               /\ r.fails = worker[w].fails + 1
               /\ r.status = "failed" => ~HasBudget(worker[w].fails)
    <3>1. PICK w \in Workers :
               /\ w \in Failing(j) /\ worker'[w].step \notin {"failed", "failing"}
               /\ failures' = failures /\ \A v \in Workers : v # w => worker'[v] = worker[v]
               /\ r.fails = worker[w].fails + 1
               /\ r.status = "failed" => ~HasBudget(worker[w].fails)
      BY <2>4
    <3>2. PICK n \in Nat : n = worker[w].fails
      BY <1>4
    <3>3. Bounded(j, n)
      BY <3>1, <3>2 DEF FailsInv, Failing
    <3>4. Failing(j)' = Failing(j) \ {w}
      BY <3>1 DEF Failing
    <3>5. /\ Cardinality(Failing(j)) \in Nat /\ Cardinality(Failing(j)) >= 1
          /\ Cardinality(Failing(j)') = Cardinality(Failing(j)) - 1
      BY <3>1, <3>4, FailingFacts
    <3>6. failures[j] \in Nat /\ failures[j] <= MaxFailures
      BY <1>1
    <3>7. Bounded(j, r.fails)'
      BY <1>1, <3>1, <3>2, <3>3, <3>5, <3>6 DEF Bounded
    <3>8. r.status = "failed" => failures[j] > MaxRetries
      <4>1. r.status = "failed" => n + 1 > MaxRetries
        BY <1>1, <3>1, <3>2 DEF HasBudget, FailureCount
      <4> QED BY <1>1, <3>3, <3>5, <3>6, <4>1 DEF Bounded
    <3>9. failures'[j] = failures[j]
      BY <3>1
    <3> QED BY <3>7, <3>8, <3>9 DEF Deserved
  <2>5. CASE /\ row[j] # NoRow /\ r.fails = row[j].fails
             /\ r.status = "failed" => "refused" \in outcome'[j]
    BY <1>4, <1>6, <2>5 DEF FailsInv, Deserved
  <2>6. CASE \E w \in Workers : Reporting(w) /\ beat[w].job = j /\ r = beat[w].copy
    BY <1>4, <1>6, <1>7, <2>6 DEF FailsInv, VerdictInv
  <2> QED BY <1>8, <2>1, <2>2, <2>3, <2>4, <2>5, <2>6, RowSources DEF RowSource
\* What the worker processes count, and the reporters copied.
<1>9. ASSUME NEW w \in Workers, NEW j \in Jobs, NEW n, worker'[w].job = j, worker'[w].fails = n
      PROVE  Bounded(j, n)'
  <2>1. \/ worker[w].job = j /\ n = worker[w].fails
        \/ n = 0
        \/ row[j] # NoRow /\ n = row[j].fails
    BY <1>9, CopySources
  <2> QED BY <1>4, <1>5, <1>6, <2>1 DEF FailsInv
<1>10. ASSUME NEW w \in Workers, NEW j \in Jobs, NEW r, Reporting(w)', beat'[w].job = j, beat'[w].copy = r
       PROVE  Bounded(j, r.fails)' /\ Deserved(j, r)'
  <2>1. \/ Reporting(w) /\ beat[w].job = j /\ beat[w].copy = r
        \/ row[j] # NoRow /\ r = row[j]
    BY <1>10, CopySources
  <2>2. CASE Reporting(w) /\ beat[w].job = j /\ beat[w].copy = r
    BY <1>4, <1>6, <1>7, <2>2 DEF FailsInv, VerdictInv
  <2>3. CASE row[j] # NoRow /\ r = row[j]
    BY <1>4, <1>6, <1>7, <2>3 DEF FailsInv, VerdictInv
  <2> QED BY <2>1, <2>2, <2>3
<1>11. ASSUME NEW w \in Workers, Reporting(w)' PROVE beat'[w].job \in Jobs
  <2>1. beat' \in [Workers -> Beat \union {NoBeat}]
    BY <1>3 DEF PlaceInv, LTypeOK
  <2> QED BY <1>11, <2>1 DEF Reporting, Beat
<1>12. FailsInv'
  <2>1. ASSUME NEW j \in Jobs, row'[j] # NoRow PROVE Bounded(j, row[j].fails)'
    BY <1>8, <2>1 DEF Bounded
  <2>2. ASSUME NEW j \in Jobs, NEW w \in Workers, worker'[w].job = j PROVE Bounded(j, worker[w].fails)'
    BY <1>9, <2>2 DEF Bounded
  <2>3. ASSUME NEW j \in Jobs, NEW w \in Workers, Reporting(w)', beat'[w].job = j
        PROVE  Bounded(j, beat[w].copy.fails)'
    BY <1>10, <2>3 DEF Bounded
  <2> QED BY <1>5, <2>1, <2>2, <2>3 DEF FailsInv
<1>13. VerdictInv'
  BY <1>8, <1>10, <1>11 DEF VerdictInv, Deserved
<1> QED BY <1>12, <1>13

\* At the start, and as long as nothing happens.
LEMMA CountsAlways ==
  /\ Init => FailsInv /\ VerdictInv
  /\ PlaceInv /\ FailsInv /\ VerdictInv /\ [Next]_vars => FailsInv' /\ VerdictInv'
<1>1. ASSUME Init PROVE FailsInv /\ VerdictInv
  <2>1. \A w \in Workers : worker[w].job \notin Jobs /\ worker[w].step = "free" /\ ~Reporting(w)
    BY <1>1, AbsenceIsNone DEF Init, Free, Reporting
  <2>2. ASSUME NEW j \in Jobs PROVE Bounded(j, 0)
    <3>1. Failing(j) = {}
      BY <2>1 DEF Failing
    <3>2. Cardinality(Failing(j)) = 0
      BY <3>1, FS_EmptySet
    <3> QED BY <1>1, <3>2 DEF Init, Bounded
  <2> QED BY <1>1, <2>1, <2>2 DEF Init, FailsInv, VerdictInv
<1>2. ASSUME FailsInv, VerdictInv, UNCHANGED vars PROVE FailsInv' /\ VerdictInv'
  BY <1>2 DEF vars, FailsInv, VerdictInv, Bounded, Failing, Deserved, Reporting
<1> QED BY <1>1, <1>2, CountsStep

(* A row never counts more failures than there were, and says FAILED only  *)
(* after one more than the retries allow, or a refusal.                    *)
THEOREM FailuresAreReported == Spec => []FailuresAreReal
<1>1. ASSUME PlaceInv, FailsInv, VerdictInv PROVE FailuresAreReal
  <2> SUFFICES ASSUME NEW j \in Jobs, row[j] # NoRow
               PROVE  /\ failures[j] < MaxFailures => row[j].fails <= failures[j]
                      /\ row[j].status = "failed" /\ "refused" \notin outcome[j] => failures[j] > MaxRetries
    BY DEF FailuresAreReal, RowIs
  <2>1. row[j] \in Row /\ failures[j] \in Nat /\ Cardinality(Failing(j)) \in Nat
    BY <1>1, TypeFacts, FailingFacts, PipelineBounds
  <2>2. row[j].fails \in Nat
    BY <2>1 DEF Row
  <2>3. Bounded(j, row[j].fails) /\ Deserved(j, row[j])
    BY <1>1 DEF FailsInv, VerdictInv
  <2> QED BY <2>1, <2>2, <2>3 DEF Bounded, Deserved
<1> QED BY <1>1, PlaceInit, PlaceStep, CountsAlways, PTL DEF Spec

-----------------------------------------------------------------------------
(* While nothing reaches in from outside                                   *)

\* What else a step of a worker process changes, when it takes no job and
\* hands in no result.
LEMMA WorkFacts ==
  ASSUME PlaceInv, NEW w \in Workers, Working(w), ~Take(w), ~HandleSubmittedJobResult(w)
  PROVE  /\ worker[w].step \in {"free", "done"} => worker'[w].step = worker[w].step
         /\ worker'[w].step = "done" => worker[w].step = "done" \/ Delivers(w)
         /\ worker[w].step \in Ending => worker'[w].step \in Ending
         /\ worker'[w].step \in {"enqueued", "saved"} =>
              worker[w].step \in {"enqueued", "saved"} \/ Enqueue(w)
         /\ \A k \in Jobs : k \in handed'[w] => k \in handed[w] \/ (Enqueue(w) /\ k = worker[w].job)
         /\ \A k \in Jobs : k \in handed[w] => k \in handed'[w] \/ Dispatch(w, k) \/ ProcessEnds(w)
         /\ beat'[w] # NoBeat =>
              \/ worker[w].step = "convert" /\ beat'[w].job = worker[w].job
              \/ beat[w] # NoBeat /\ beat'[w].job = beat[w].job
<1> USE DEF Ending
<1>1. /\ worker \in [Workers -> WorkerState] /\ handed \in [Workers -> SUBSET Jobs]
      /\ beat \in [Workers -> Beat \union {NoBeat}]
  BY TypeFacts
<1>2. CASE Start(w) \/ SaveParsed(w) \/ SaveQueued(w)
  <2>1. handed' = handed /\ beat' = beat
        /\ \/ worker[w].step \in {"start", "parsed"} /\ worker'[w].step \in {"convert", "hand_over"}
           \/ worker[w].step = "enqueued" /\ worker'[w].step = "saved"
    BY <1>2, MoveFacts DEF Start, SaveParsed, SaveQueued, Doing
  <2> QED BY <2>1
<1>3. CASE ConvertFails(w) \/ ConvertSucceeds(w)
  <2>1. handed' = handed /\ worker[w].step = "convert" /\ worker'[w].step \in {"failed", "converted"}
    BY <1>3, MoveFacts DEF ConvertFails, ConvertSucceeds, Doing
  <2>2. beat' = [beat EXCEPT ![w] =
           IF beat[w] = NoBeat THEN beat[w] ELSE [beat[w] EXCEPT !.late = TRUE]]
    BY <1>3 DEF ConvertFails, ConvertSucceeds, StopBeat
  <2>3. LET b == [beat[w] EXCEPT !.late = TRUE] IN beat[w] # NoBeat => b.job = beat[w].job
    BY <1>1 DEF Beat
  <2>4. beat'[w] # NoBeat => beat[w] # NoBeat /\ beat'[w].job = beat[w].job
    BY <1>1, <2>2, <2>3
  <2> QED BY <2>1, <2>4
<1>4. CASE ReadLatest(w)
  <2>1. handed' = handed /\ beat' = beat /\ worker[w].step \in {"failed", "converted"}
    BY <1>4 DEF ReadLatest, Doing
  <2>2. worker'[w].step \in {"failing", "parsed"}
    BY <1>1, <1>4, LatestFails
  <2> QED BY <2>1, <2>2
<1>5. CASE Delivers(w)
  <2>1. handed' = handed /\ beat' = beat /\ worker[w].step \in {"failing", "hand_over", "saved"}
    BY <1>5 DEF Delivers, RetryOrFailJob, EnqueueFails, SaveAgain, Doing
  <2>2. worker'[w].step \in {"done", "retry"} /\ (worker[w].step = "saved" => worker'[w].step = "done")
    BY <1>5, MoveFacts DEF Delivers, RetryOrFailJob, EnqueueFails, SaveAgain, Doing
  <2> QED BY <1>5, <2>1, <2>2
<1>10. CASE Enqueue(w)
  <2>1. beat' = beat /\ worker[w].step = "hand_over" /\ worker'[w].step = "enqueued"
        /\ handed' = [handed EXCEPT ![w] = @ \union {worker[w].job}]
    BY <1>10, MoveFacts DEF Enqueue, Doing
  <2> QED BY <1>1, <1>10, <2>1
<1>6. CASE BeatStarts(w)
  <2>1. handed' = handed /\ worker' = worker /\ worker[w].step = "convert" /\ beat'[w].job = worker[w].job
    BY <1>1, <1>6 DEF BeatStarts, Doing
  <2> QED BY <2>1
<1>7. CASE BeatReads(w) \/ BeatSaves(w)
  <2>1. handed' = handed /\ worker' = worker /\ beat[w] # NoBeat
    BY <1>7 DEF BeatReads, BeatSaves, Reporting
  <2>2. LET b == [beat[w] EXCEPT !.copy = row[beat[w].job]] IN b.job = beat[w].job
    BY <1>1, <2>1 DEF Beat
  <2>3. \/ beat' = [beat EXCEPT ![w] = NoBeat]
        \/ beat' = [beat EXCEPT ![w] =
             IF row[beat[w].job] = NoRow THEN NoBeat ELSE [beat[w] EXCEPT !.copy = row[beat[w].job]]]
    BY <1>7 DEF BeatReads, BeatSaves
  <2>4. beat'[w] # NoBeat => beat'[w].job = beat[w].job
    BY <1>1, <2>2, <2>3
  <2> QED BY <2>1, <2>4
<1>8. ASSUME NEW j \in Jobs, Dispatch(w, j)
      PROVE  /\ worker' = worker /\ beat' = beat
             /\ \A k \in Jobs : k \in handed'[w] => k \in handed[w]
             /\ \A k \in Jobs : k \in handed[w] => k \in handed'[w] \/ Dispatch(w, k)
  BY <1>1, <1>8 DEF Dispatch, ServiceUnchanged
<1>9. CASE \E j \in Jobs : Dispatch(w, j)
  BY <1>8, <1>9
<1>11. CASE ProcessEnds(w)
  <2>1. worker' = worker /\ handed'[w] = {} /\ beat'[w] = NoBeat
    BY <1>1, <1>11 DEF ProcessEnds
  <2> QED BY <1>11, <2>1
<1> QED BY <1>2, <1>3, <1>4, <1>5, <1>6, <1>7, <1>9, <1>10, <1>11
    DEF Working, Process, HandOver, Delivers, Reporter

\* A worker process hands in its result.
LEMMA HandleFacts ==
  ASSUME PlaceInv, OnceInv, NEW w \in Workers, HandleSubmittedJobResult(w)
  PROVE  /\ UNCHANGED <<row, request, service, handed, beat, failures, outcome, faults>>
         /\ worker[w].job \in Jobs /\ worker[w].step \in {"done", "retry"} /\ worker'[w] = Free
         /\ Line(w[1]) \subseteq Line(w[1])'
         /\ worker[w].step = "done" => Line(w[1])' \subseteq Line(w[1])
         /\ Line(w[1])' \subseteq Line(w[1]) \union {worker[w].job}
         /\ pool'[w[1]].submitted \subseteq pool[w[1]].submitted
         /\ worker[w].step = "retry" /\ Accepts(pool[w[1]]) => worker[w].job \in Line(w[1])'
<1>1. /\ worker \in [Workers -> WorkerState] /\ pool \in [Services -> PoolState]
      /\ w[1] \in Services /\ pool[w[1]] \in PoolState /\ OnceIn(w[1])
  BY TypeFacts, WorkerFacts DEF OnceInv
<1>2. /\ UNCHANGED <<row, request, service, handed, beat, failures, outcome, faults>>
      /\ worker[w].job \in Jobs /\ worker[w].step \in {"done", "retry"} /\ worker'[w] = Free
  BY <1>1, WorkerFacts DEF HandleSubmittedJobResult, Doing
<1>3. PICK j \in Jobs : j = worker[w].job
  BY <1>2
<1>4. PICK p \in PoolState :
        /\ p = ReleaseJob(pool[w[1]], j) /\ (Accepts(p) <=> Accepts(pool[w[1]]))
        /\ p.submitted = pool[w[1]].submitted \ {j} /\ p.pending = pool[w[1]].pending
  BY <1>1, <1>3, ReleaseFacts
<1>5. PICK q : q = pool'[w[1]] /\ q = IF worker[w].step = "retry" THEN SubmitJob(p, j) ELSE p
  BY <1>1, <1>3, <1>4 DEF HandleSubmittedJobResult, RetryRequested, Doing
<1>6. j \in pool[w[1]].submitted
  BY <1>1, <1>3 DEF OnceIn
<1>7. Line(w[1]) = Elems(p.pending) /\ Line(w[1])' = Elems(q.pending)
  BY <1>4, <1>5 DEF Line
<1>8. CASE worker[w].step = "retry"
  <2>1. q = SubmitJob(p, j)
    BY <1>5, <1>8
  <2>2. /\ q.submitted = p.submitted \union {j}
        /\ Elems(p.pending) \subseteq Elems(q.pending)
        /\ Elems(q.pending) \subseteq Elems(p.pending) \union {j}
        /\ Accepts(p) => j \in Elems(q.pending)
    <3>1. GivenJob(p, j, q)
      BY <1>4, <2>1, SubmitOnce
    <3>2. j \notin p.submitted
      BY <1>4
    <3> QED BY <3>1, <3>2 DEF GivenJob
  <2>3. pool'[w[1]].submitted \subseteq pool[w[1]].submitted
    BY <1>4, <1>5, <1>6, <2>2
  <2> QED BY <1>2, <1>3, <1>4, <1>7, <1>8, <2>2, <2>3
<1>9. CASE worker[w].step = "done"
  <2>1. q = p
    BY <1>5, <1>9
  <2> QED BY <1>2, <1>4, <1>5, <1>7, <1>9, <2>1
<1> QED BY <1>2, <1>8, <1>9

\* What a request puts in the queue of a pool.
Submits(s, k) ==
  /\ SubmitUpload(k) /\ s = request[k].to
  /\ Line(s) \subseteq Line(s)' /\ Line(s)' \subseteq Line(s) \union {k}
  /\ pool'[s].submitted = pool[s].submitted \union {k}
  /\ Accepts(pool[s]) /\ k \notin pool[s].submitted => k \in Line(s)'
Recovers(s, r) ==
  /\ RecoverActiveJobs(r) /\ s = service.current
  /\ Line(s)' = Line(s) \union (ActiveJobs \ pool[s].submitted)
  /\ pool'[s].submitted = pool[s].submitted \union ActiveJobs

LEMMA RequestLines ==
  ASSUME PlaceInv, NEW s \in Services,
         \/ \E r \in Requests : GetService(r)
         \/ \E j \in Jobs : Upload(j)
         \/ ChangeSettings
  PROVE  \/ Line(s)' = Line(s) /\ pool'[s].submitted = pool[s].submitted
         \/ \E k \in Jobs : Submits(s, k)
         \/ \E r \in Requests : Recovers(s, r)
<1>1. pool \in [Services -> PoolState] /\ request \in [Requests -> RequestState] /\ pool[s] \in PoolState
  BY TypeFacts
<1>2. CASE pool' = pool
  BY <1>2 DEF Line
<1>3. ASSUME NEW r \in Requests, CreateService(r)
      PROVE  Line(s)' = Line(s) /\ pool'[s].submitted = pool[s].submitted
  <2>1. pool'[s].pending = pool[s].pending /\ pool'[s].submitted = pool[s].submitted
    BY <1>1, <1>3 DEF CreateService, PoolState
  <2> QED BY <2>1 DEF Line
<1>4. ASSUME NEW r \in Requests, RecoverActiveJobs(r), s = service.current PROVE Recovers(s, r)
  <2>1. PICK new \in SUBSET Jobs : new = ActiveJobs \ pool[s].submitted
    <3>1. ActiveJobs \ pool[s].submitted \in SUBSET Jobs
      BY DEF ActiveJobs
    <3> QED BY <3>1
  <2>2. PICK order \in Listings(new) :
          pool' = [pool EXCEPT ![s].submitted = @ \union new, ![s].pending = @ \o order]
    BY <1>4, <2>1 DEF RecoverActiveJobs
  <2>3. pool'[s].submitted = pool[s].submitted \union new /\ pool'[s].pending = pool[s].pending \o order
    BY <1>1, <2>2 DEF PoolState
  <2>4. pool[s].pending \in Seq(Jobs)
    BY <1>1 DEF PoolState
  <2>5. Elems(pool[s].pending \o order) = Elems(pool[s].pending) \union new
    BY <2>4, ListLine
  <2>6. Line(s)' = Line(s) \union new
    BY <2>3, <2>5 DEF Line
  <2>7. pool'[s].submitted = pool[s].submitted \union ActiveJobs
    BY <2>1, <2>3
  <2> QED BY <1>4, <2>1, <2>6, <2>7 DEF Recovers
<1>5. ASSUME NEW r \in Requests, RecoverActiveJobs(r), s # service.current PROVE pool'[s] = pool[s]
  <2>1. PICK new, order : pool' = [pool EXCEPT ![service.current].submitted = @ \union new,
                                              ![service.current].pending = @ \o order]
    BY <1>5 DEF RecoverActiveJobs
  <2> QED BY <1>1, <1>5, <2>1
<1>6. ASSUME NEW k \in Jobs, SubmitUpload(k), s = request[k].to PROVE Submits(s, k)
  <2>1. pool'[s] = SubmitJob(pool[s], k)
    BY <1>1, <1>6 DEF SubmitUpload
  <2>2. PICK q : q = pool'[s] /\ q = SubmitJob(pool[s], k)
    BY <2>1
  <2>3. /\ q.submitted = pool[s].submitted \union {k}
        /\ Elems(pool[s].pending) \subseteq Elems(q.pending)
        /\ Elems(q.pending) \subseteq Elems(pool[s].pending) \union {k}
        /\ k \notin pool[s].submitted /\ Accepts(pool[s]) => k \in Elems(q.pending)
    <3>1. GivenJob(pool[s], k, q)
      BY <1>1, <2>2, SubmitOnce
    <3> QED BY <3>1 DEF GivenJob
  <2>4. Line(s) = Elems(pool[s].pending) /\ Line(s)' = Elems(q.pending)
    BY <2>2 DEF Line
  <2> QED BY <1>6, <2>2, <2>3, <2>4 DEF Submits
<1>7. ASSUME NEW k \in Jobs, SubmitUpload(k), s # request[k].to PROVE pool'[s] = pool[s]
  BY <1>1, <1>7 DEF SubmitUpload
<1>8. CASE pool'[s] = pool[s]
  BY <1>8 DEF Line
<1>9. ASSUME NEW r \in Requests, ReadSettings(r) \/ UseService(r) PROVE pool' = pool
  BY <1>9 DEF ReadSettings, UseService
<1>10. ASSUME NEW j \in Jobs, SaveUpload(j) \/ SaveRejected(j) PROVE pool' = pool
  BY <1>10 DEF SaveUpload, SaveRejected
<1>11. ASSUME ChangeSettings PROVE pool' = pool
  BY <1>11 DEF ChangeSettings
<1> QED BY <1>2, <1>3, <1>4, <1>5, <1>6, <1>7, <1>8, <1>9, <1>10, <1>11 DEF GetService, Upload

\* A job nobody knows stays unknown until it is submitted or recovered.
LEMMA NowhereKept ==
  ASSUME PlaceInv, OnceInv, Next, NEW j \in Jobs, Nowhere(j), ~SubmitUpload(j),
         \A r \in Requests : RecoverActiveJobs(r) => j \notin ActiveJobs
  PROVE  Nowhere(j)'
<1>1. /\ worker \in [Workers -> WorkerState] /\ pool \in [Services -> PoolState]
      /\ handed \in [Workers -> SUBSET Jobs] /\ beat \in [Workers -> Beat \union {NoBeat}]
      /\ NoJob \notin Jobs
  BY TypeFacts, AbsenceIsNone
<1>2. /\ \A s \in Services : j \notin Line(s) /\ j \notin pool[s].submitted
      /\ \A w \in Workers :
           worker[w].job # j /\ j \notin handed[w] /\ (beat[w] # NoBeat => beat[w].job # j)
  BY DEF Nowhere
<1>3. ASSUME NEW w \in Workers, Working(w) PROVE Nowhere(j)'
  <2>1. /\ w[1] \in Services
        /\ \A v \in Workers : v # w => worker'[v] = worker[v] /\ handed'[v] = handed[v] /\ beat'[v] = beat[v]
        /\ \A s \in Services : s # w[1] => pool'[s] = pool[s]
    BY <1>3, OneWorker
  <2>2. \A s \in Services : s # w[1] => j \notin Line(s)'
    BY <1>2, <2>1 DEF Line
  <2>3. CASE Take(w)
    <3>1. PICK k \in Jobs :
            /\ k \in Line(w[1]) /\ Elems(pool'[w[1]].pending) \union {k} = Line(w[1])
            /\ pool'[w[1]].submitted = pool[w[1]].submitted /\ worker'[w].job = k
      BY <2>3, TakeFacts
    <3>2. handed' = handed /\ beat' = beat
      BY <2>3 DEF Take
    <3>3. j \notin Line(w[1])' /\ worker'[w].job # j
      BY <1>2, <2>1, <3>1 DEF Line
    <3> QED BY <1>2, <2>1, <2>2, <3>1, <3>2, <3>3 DEF Nowhere
  <2>4. CASE HandleSubmittedJobResult(w)
    <3>1. j \notin Line(w[1])' /\ j \notin pool'[w[1]].submitted
      <4>1. /\ Line(w[1])' \subseteq Line(w[1]) \union {worker[w].job}
            /\ pool'[w[1]].submitted \subseteq pool[w[1]].submitted
        BY <2>4, HandleFacts
      <4> QED BY <1>2, <2>1, <4>1
    <3>2. handed' = handed /\ beat' = beat /\ worker'[w].job # j
      BY <1>1, <2>4, HandleFacts DEF Free
    <3> QED BY <1>2, <2>1, <2>2, <3>1, <3>2 DEF Nowhere
  <2>5. CASE ~Take(w) /\ ~HandleSubmittedJobResult(w)
    <3>1. pool' = pool /\ \A v \in Workers : worker'[v].job = worker[v].job
      BY <1>3, <2>5, KeepsJob
    <3>2. j \notin handed'[w] /\ (beat'[w] # NoBeat => beat'[w].job # j)
      BY <1>2, <1>3, <2>5, WorkFacts
    <3> QED BY <1>2, <2>1, <3>1, <3>2 DEF Nowhere, Line
  <2> QED BY <2>3, <2>4, <2>5
<1>4. CASE \/ \E r \in Requests : GetService(r)
           \/ \E k \in Jobs : Upload(k)
           \/ ChangeSettings
  <2>1. UNCHANGED <<worker, handed, beat>>
    BY <1>4, OneRequest
  <2>2. ASSUME NEW s \in Services PROVE j \notin Line(s)' /\ j \notin pool'[s].submitted
    <3>1. CASE Line(s)' = Line(s) /\ pool'[s].submitted = pool[s].submitted
      BY <1>2, <3>1
    <3>2. CASE \E k \in Jobs : Submits(s, k)
      BY <1>2, <3>2 DEF Submits
    <3>3. CASE \E r \in Requests : Recovers(s, r)
      BY <1>2, <3>3 DEF Recovers
    <3> QED BY <1>4, <3>1, <3>2, <3>3, RequestLines
  <2> QED BY <1>2, <2>1, <2>2 DEF Nowhere
<1>5. ASSUME NEW s \in Services, PoolBreaks(s) PROVE Nowhere(j)'
  <2>1. PICK mine, lost :
          /\ pool' = [pool EXCEPT ![s].broken = TRUE, ![s].submitted = @ \ lost, ![s].pending = << >>]
          /\ worker' = [w \in Workers |->
                IF w \in mine THEN [Free EXCEPT !.step = "dead"] ELSE worker[w]]
          /\ handed' = [w \in Workers |-> IF w \in mine THEN {} ELSE handed[w]]
          /\ beat' = [w \in Workers |-> IF w \in mine THEN NoBeat ELSE beat[w]]
    BY <1>5 DEF PoolBreaks
  <2>2. \A t \in Services : (pool'[t].pending = << >> \/ pool'[t].pending = pool[t].pending)
                            /\ j \notin pool'[t].submitted
    BY <1>1, <1>2, <2>1 DEF PoolState
  <2>3. \A t \in Services : j \notin Line(t)'
    BY <1>2, <2>2, EmptyLine DEF Line
  <2>4. [Free EXCEPT !.step = "dead"].job = NoJob
    BY DEF Free
  <2>5. \A w \in Workers :
           worker'[w].job # j /\ j \notin handed'[w] /\ (beat'[w] # NoBeat => beat'[w].job # j)
    BY <1>1, <1>2, <2>1, <2>4
  <2> QED BY <2>2, <2>3, <2>5 DEF Nowhere
<1>6. ASSUME NEW k \in Jobs, RemovalReads(k) \/ RemovalActs(k) PROVE Nowhere(j)'
  <2>1. pool' = pool
    BY <1>6 DEF RemovalReads, RemovalActs
  <2>2. \A w \in Workers : [worker[w] EXCEPT !.step = "dead"].job = worker[w].job
    BY <1>1 DEF WorkerState
  <2>3. \A w \in Workers : worker'[w].job = worker[w].job /\ (handed'[w] = {} \/ handed'[w] = handed[w])
                           /\ (beat'[w] = NoBeat \/ beat'[w] = beat[w])
    BY <1>6, <2>2, ActsFacts DEF RemovalReads, PipelineUnchanged
  <2>4. \A w \in Workers :
           worker'[w].job # j /\ j \notin handed'[w] /\ (beat'[w] # NoBeat => beat'[w].job # j)
    BY <1>2, <2>3
  <2> QED BY <1>2, <2>1, <2>4 DEF Nowhere, Line
<1>7. CASE Restart
  <2>1. /\ pool' = [s \in Services |->
              IF s <= service.made THEN [NewPool EXCEPT !.open = FALSE] ELSE pool[s]]
        /\ worker' = [w \in Workers |-> Free] /\ handed' = [w \in Workers |-> {}]
        /\ beat' = [w \in Workers |-> NoBeat]
    BY <1>7 DEF Restart
  <2>2. LET p == [NewPool EXCEPT !.open = FALSE] IN p.pending = << >> /\ p.submitted = {}
    BY DEF NewPool
  <2>3. \A s \in Services : \/ pool'[s].pending = << >> /\ pool'[s].submitted = {}
                            \/ pool'[s] = pool[s]
    BY <2>1, <2>2
  <2>4. \A s \in Services : j \notin Line(s)' /\ j \notin pool'[s].submitted
    BY <1>2, <2>3, EmptyLine DEF Line
  <2> QED BY <1>1, <2>1, <2>4 DEF Nowhere, Free
<1> QED BY <1>3, <1>4, <1>5, <1>6, <1>7, NextActors

\* Who changes a row.
RowWritten(j) ==
  \/ row'[j] = row[j] \/ row'[j] = NoRow
  \/ SaveUpload(j) \/ SaveRejected(j)
  \/ \E w \in Workers :
       \/ /\ worker[w].job = j /\ worker[w].step \notin {"free", "done"}
          /\ Start(w) \/ SaveParsed(w) \/ SaveQueued(w) \/ Delivers(w)
          /\ row'[j].status \in {"parsing", "retrying", "failed", "parsed", "dispatch_queued", "retryable_failure"}
       \/ Dispatch(w, j) /\ row'[j].status \in {"completed", "failed"}
       \/ BeatSaves(w) /\ beat[w].job = j /\ row'[j] = beat[w].copy

LEMMA RowWriters ==
  ASSUME PlaceInv, Next, NEW j \in Jobs
  PROVE  RowWritten(j)
<1> USE DEF RowWritten
<1>1. row \in [Jobs -> Row \union {NoRow}]
  BY TypeFacts
<1>2. CASE row' = row
  BY <1>2
<1>3. ASSUME NEW k \in Jobs, Upload(k) PROVE RowWritten(j)
  <2>1. k # j => row'[j] = row[j]
    BY <1>1, <1>3 DEF Upload, SaveUpload, SubmitUpload, SaveRejected, Save
  <2>2. SubmitUpload(k) => row' = row
    BY DEF SubmitUpload
  <2> QED BY <1>3, <2>1, <2>2 DEF Upload
<1>4. ASSUME NEW w \in Workers, Working(w) PROVE RowWritten(j)
  <2>1. CASE Start(w) \/ SaveParsed(w) \/ SaveQueued(w) \/ Delivers(w)
    <3>1. worker[w].job \in Jobs /\ worker[w].step \notin {"free", "done"}
      BY <2>1, WorkerFacts DEF Start, SaveParsed, SaveQueued, Delivers, RetryOrFailJob, EnqueueFails,
         SaveAgain, Doing
    <3>2. PICK status, n, pid :
            /\ Save(worker[w].job, status, n, pid)
            /\ status \in {"parsing", "retrying", "failed", "parsed", "dispatch_queued", "retryable_failure"}
      BY <2>1 DEF Start, SaveParsed, SaveQueued, Delivers, RetryOrFailJob, EnqueueFails, SaveAgain
    <3>3. /\ row'[worker[w].job].status = status
          /\ \A k \in Jobs : k # worker[w].job => row'[k] = row[k]
      BY <1>1, <3>1, <3>2 DEF Save
    <3>4. CASE j = worker[w].job
      BY <2>1, <3>1, <3>2, <3>3, <3>4
    <3> QED BY <3>3, <3>4
  <2>2. ASSUME NEW k \in Jobs, Dispatch(w, k) PROVE RowWritten(j)
    <3>1. \/ row' = row
          \/ \E status \in {"completed", "failed"} : \E n : Save(k, status, n, NoPid)
      BY <2>2, DispatchFacts
    <3>2. ASSUME NEW status \in {"completed", "failed"}, NEW n, Save(k, status, n, NoPid)
          PROVE  row'[k].status = status /\ (k # j => row'[j] = row[j])
      BY <1>1, <3>2 DEF Save
    <3> QED BY <1>2, <2>2, <3>1, <3>2
  <2>3. CASE BeatSaves(w)
    <3>1. row' = [row EXCEPT ![beat[w].job] = beat[w].copy]
      BY <2>3 DEF BeatSaves
    <3> QED BY <1>1, <2>3, <3>1
  <2>4. CASE \/ Take(w) \/ ConvertFails(w) \/ ConvertSucceeds(w) \/ ReadLatest(w)
             \/ Enqueue(w) \/ BeatStarts(w) \/ BeatReads(w) \/ HandleSubmittedJobResult(w) \/ ProcessEnds(w)
    <3>1. row' = row
      BY <2>4 DEF Take, ConvertFails, ConvertSucceeds, ReadLatest, Enqueue, BeatStarts, BeatReads,
         HandleSubmittedJobResult, ProcessEnds
    <3> QED BY <1>2, <3>1
  <2> QED BY <1>4, <2>1, <2>2, <2>3, <2>4 DEF Working, Process, HandOver, Delivers, Reporter
<1>5. ASSUME NEW k \in Jobs, RemovalReads(k) \/ RemovalActs(k) PROVE RowWritten(j)
  <2>1. row' = row \/ row' = [row EXCEPT ![k] = NoRow]
    BY <1>5 DEF RemovalReads, RemovalActs
  <2> QED BY <1>1, <2>1
<1>6. ASSUME NEW r \in Requests, GetService(r) PROVE row' = row
  BY <1>6 DEF GetService, ReadSettings, UseService, CreateService, RecoverActiveJobs
<1>7. ASSUME ChangeSettings \/ Restart \/ \E s \in Services : PoolBreaks(s) PROVE row' = row
  BY <1>7 DEF ChangeSettings, Restart, PoolBreaks
<1> QED BY <1>2, <1>3, <1>4, <1>5, <1>6, <1>7, NextActors

\* How a request goes on.
LEMMA RequestMoves ==
  ASSUME PlaceInv, Next, NEW r \in Requests
  PROVE  /\ ReadSettings(r) => request[r].step = "new" /\ request'[r].step = "settings"
         /\ UseService(r) => request[r].step = "settings" /\ request'[r].step = "resolved"
         /\ CreateService(r) => request[r].step = "settings" /\ request'[r].step = "recover"
         /\ RecoverActiveJobs(r) => request[r].step = "recover" /\ request'[r].step = "resolved"
         /\ r \in Jobs =>
              /\ SaveUpload(r) => request[r].step = "resolved" /\ request'[r].step = "saved"
              /\ SubmitUpload(r) =>
                   /\ request[r].step = "saved"
                   /\ request'[r].step = IF Raises(pool[request[r].to], r) THEN "rejected" ELSE "answered"
              /\ SaveRejected(r) => request[r].step = "rejected" /\ request'[r].step = "answered"
         /\ \/ request'[r].step = request[r].step
            \/ ReadSettings(r) \/ UseService(r) \/ CreateService(r) \/ RecoverActiveJobs(r)
            \/ r \in Jobs /\ (SaveUpload(r) \/ SubmitUpload(r) \/ SaveRejected(r))
            \/ Restart /\ request'[r].step = "aborted"
<1>1. request \in [Requests -> RequestState] /\ request[r] \in RequestState
  BY TypeFacts
<1>2. \A step : [request[r] EXCEPT !.step = step].step = step
  BY <1>1 DEF RequestState
<1>3. [request[r] EXCEPT !.step = "settings", !.key = service.settings].step = "settings"
  BY <1>1 DEF RequestState
<1>4. ReadSettings(r) => request[r].step = "new" /\ request'[r].step = "settings"
  <2>1. ReadSettings(r) =>
          request' = [request EXCEPT ![r] = [request[r] EXCEPT !.step = "settings", !.key = service.settings]]
    BY <1>1 DEF ReadSettings
  <2> QED BY <1>1, <1>3, <2>1 DEF ReadSettings, At
<1>5. UseService(r) => request[r].step = "settings" /\ request'[r].step = "resolved"
  BY <1>1 DEF UseService, At
<1>6. CreateService(r) => request[r].step = "settings" /\ request'[r].step = "recover"
  BY <1>1, <1>2 DEF CreateService, At, Moves
<1>7. RecoverActiveJobs(r) => request[r].step = "recover" /\ request'[r].step = "resolved"
  BY <1>1 DEF RecoverActiveJobs, At
<1>8. ASSUME r \in Jobs
      PROVE  /\ SaveUpload(r) => request[r].step = "resolved" /\ request'[r].step = "saved"
             /\ SubmitUpload(r) =>
                  /\ request[r].step = "saved"
                  /\ request'[r].step = IF Raises(pool[request[r].to], r) THEN "rejected" ELSE "answered"
             /\ SaveRejected(r) => request[r].step = "rejected" /\ request'[r].step = "answered"
  <2>1. SaveUpload(r) => request[r].step = "resolved" /\ request'[r].step = "saved"
    BY <1>1, <1>2 DEF SaveUpload, At, Moves
  <2>2. SubmitUpload(r) =>
          /\ request[r].step = "saved"
          /\ request'[r].step = IF Raises(pool[request[r].to], r) THEN "rejected" ELSE "answered"
    BY <1>1 DEF SubmitUpload, At, Reaches, Asking
  <2>3. SaveRejected(r) => request[r].step = "rejected" /\ request'[r].step = "answered"
    BY <1>1 DEF SaveRejected, At, Reaches, Asking
  <2> QED BY <2>1, <2>2, <2>3
<1>9. ASSUME NEW q \in Requests, GetService(q), q # r PROVE request'[r] = request[r]
  BY <1>1, <1>9 DEF GetService, ReadSettings, UseService, CreateService, RecoverActiveJobs, Moves
<1>10. ASSUME NEW q \in Jobs, Upload(q), q # r PROVE request'[r] = request[r]
  BY <1>1, <1>10 DEF Upload, SaveUpload, SubmitUpload, SaveRejected, Moves, Reaches
<1>12. ASSUME NEW w \in Workers, Working(w) PROVE request' = request
  BY <1>12, OneWorker
<1>13. ASSUME \/ ChangeSettings \/ \E s \in Services : PoolBreaks(s)
              \/ \E j \in Jobs : RemovalReads(j) \/ RemovalActs(j)
       PROVE  request' = request
  BY <1>13 DEF ChangeSettings, PoolBreaks, RemovalReads, RemovalActs
<1>14. \/ request'[r].step = request[r].step
       \/ ReadSettings(r) \/ UseService(r) \/ CreateService(r) \/ RecoverActiveJobs(r)
       \/ r \in Jobs /\ (SaveUpload(r) \/ SubmitUpload(r) \/ SaveRejected(r))
       \/ Restart /\ request'[r].step = "aborted"
  <2>1. CASE \E q \in Requests : GetService(q)
    BY <1>9, <2>1 DEF GetService
  <2>2. CASE \E q \in Jobs : Upload(q)
    BY <1>10, <2>2 DEF Upload
  <2>3. CASE Restart
    <3>1. request'[r] = IF At(r, "new") \/ At(r, "answered") THEN request[r] ELSE Asking("aborted")
      BY <2>3 DEF Restart
    <3> QED BY <2>3, <3>1 DEF Asking
  <2> QED BY <1>12, <1>13, <2>1, <2>2, <2>3, NextActors
<1> QED BY <1>4, <1>5, <1>6, <1>7, <1>8, <1>14

\* Before it is uploaded, a job is known to its request only.
LEMMA NewAlways ==
  /\ Init => NewInv
  /\ PlaceInv /\ OnceInv /\ NewInv /\ [Next]_vars => NewInv'
<1>1. ASSUME Init PROVE NewInv
  <2>1. \A j \in Jobs : Nowhere(j)
    BY <1>1, EmptyLine, AbsenceIsNone DEF Init, Nowhere, Line, NewPool, Free
  <2> QED BY <1>1, <2>1 DEF Init, NewInv, Untouched
<1>2. ASSUME PlaceInv, OnceInv, NewInv, Next, NEW j \in Jobs,
             request'[j].step \in {"new", "settings", "recover", "resolved"}
      PROVE  row'[j] = NoRow /\ Nowhere(j)'
  <2>1. /\ request[j].step \in {"new", "settings", "recover", "resolved"}
        /\ ~SaveUpload(j) /\ ~SubmitUpload(j) /\ ~SaveRejected(j)
    BY <1>2, RequestMoves, PlaceFacts
  <2>2. row[j] = NoRow /\ Nowhere(j)
    BY <1>2, <2>1 DEF NewInv, Untouched
  <2>3. Nowhere(j)'
    BY <1>2, <2>1, <2>2, NowhereKept DEF ActiveJobs
  <2>4. /\ \A w \in Workers : worker[w].job # j /\ ~Dispatch(w, j)
        /\ \A w \in Workers : ~(BeatSaves(w) /\ beat[w].job = j)
    BY <2>2 DEF Nowhere, Dispatch, BeatSaves, Reporting
  <2>5. row'[j] = NoRow
    BY <1>2, <2>1, <2>2, <2>4, RowWriters DEF RowWritten
  <2> QED BY <2>3, <2>5
<1>3. ASSUME NewInv, UNCHANGED vars PROVE NewInv'
  BY <1>3 DEF vars, NewInv, Untouched, Nowhere, Line
<1> QED BY <1>1, <1>2, <1>3 DEF NewInv, Untouched

\* What has not reached in so far: the steps that are left.
LEMMA QuietSteps ==
  ASSUME PlaceInv, Next, ~Restart, Undisturbed'
  PROVE  /\ Undisturbed
         /\ \A r \in Requests : CreateService(r) => service.current = 0
         /\ \A s \in Services : ~PoolBreaks(s)
         /\ \A j \in Jobs : RemovalActs(j) => UNCHANGED <<worker, handed, beat, request, service, pool>>
         /\ \A w \in Workers : BeatSaves(w) => ~beat[w].late
         /\ service'.boot = service.boot
<1>1. /\ service \in ServiceState /\ faults \in FaultState
      /\ faults.kills \in Nat /\ faults.late \in Nat /\ service.made \in Nat /\ service.boot \in Nat
  BY TypeFacts, ServiceFacts, PipelineBounds DEF FaultState
<1>2. ASSUME NEW r \in Requests, GetService(r)
      PROVE  /\ faults' = faults /\ service'.boot = service.boot
             /\ IF CreateService(r) THEN service'.made = service.made + 1 ELSE service'.made = service.made
  <2>1. CASE CreateService(r)
    <3>1. service' = [service EXCEPT !.current = service.made + 1, !.made = service.made + 1]
      BY <2>1 DEF CreateService
    <3> QED BY <1>1, <2>1, <3>1 DEF CreateService, ServiceState
  <2>2. CASE RecoverActiveJobs(r) /\ ~CreateService(r)
    <3>1. service' = [service EXCEPT !.key = request[r].key] /\ faults' = faults
      BY <2>2 DEF RecoverActiveJobs
    <3> QED BY <1>1, <2>2, <3>1 DEF ServiceState
  <2>3. CASE (ReadSettings(r) \/ UseService(r)) /\ ~CreateService(r)
    BY <2>3 DEF ReadSettings, UseService
  <2> QED BY <1>2, <2>1, <2>2, <2>3 DEF GetService
<1>3. ASSUME NEW j \in Jobs, Upload(j) PROVE faults' = faults /\ service' = service
  BY <1>3 DEF Upload, SaveUpload, SubmitUpload, SaveRejected
<1>4. ASSUME ChangeSettings
      PROVE  /\ service'.boot = service.boot /\ service'.made = service.made
             /\ faults'.kills = faults.kills /\ faults'.late = faults.late
  <2>1. /\ service' = [service EXCEPT !.settings = service.settings + 1]
        /\ faults' = [faults EXCEPT !.changes = faults.changes + 1]
    BY <1>4 DEF ChangeSettings
  <2> QED BY <1>1, <2>1 DEF ServiceState, FaultState
<1>5. ASSUME NEW w \in Workers, Working(w)
      PROVE  /\ service' = service /\ faults'.kills = faults.kills
             /\ IF BeatSaves(w) /\ beat[w].late THEN faults'.late = faults.late + 1
                ELSE faults'.late = faults.late
  <2>1. service' = service /\ faults'.kills = faults.kills
    BY <1>5, OneWorker
  <2>2. CASE BeatSaves(w)
    <3>1. IF beat[w].late THEN faults' = [faults EXCEPT !.late = faults.late + 1] ELSE faults' = faults
      BY <2>2 DEF BeatSaves
    <3>2. CASE beat[w].late
      BY <1>1, <2>1, <2>2, <3>1, <3>2 DEF FaultState
    <3>3. CASE ~beat[w].late
      BY <2>1, <3>1, <3>3
    <3> QED BY <3>2, <3>3
  <2>3. CASE ~BeatSaves(w)
    <3>1. faults' = faults
      BY <1>5, <2>3 DEF Working, Process, Reporter, Take, Start, ConvertFails, ConvertSucceeds,
         ReadLatest, RetryOrFailJob, SaveParsed, HandOver, Enqueue, EnqueueFails, SaveQueued, SaveAgain,
         BeatStarts, BeatReads, HandleSubmittedJobResult, ProcessEnds, Dispatch
    <3> QED BY <2>1, <2>3, <3>1
  <2> QED BY <2>2, <2>3
<1>6. ASSUME NEW s \in Services, PoolBreaks(s)
      PROVE  faults.kills # 0 /\ faults' = faults /\ service' = service
  BY <1>6, PlaceFacts DEF PoolBreaks, KillInv, Doing
<1>7. ASSUME NEW j \in Jobs, RemovalReads(j)
      PROVE  service' = service /\ faults'.kills = faults.kills /\ faults'.late = faults.late
  <2>1. service' = service /\ faults' = [faults EXCEPT !.removals = faults.removals + 1]
    BY <1>7 DEF RemovalReads
  <2> QED BY <1>1, <2>1 DEF FaultState
<1>8. ASSUME NEW j \in Jobs, RemovalActs(j)
      PROVE  /\ service' = service /\ faults'.late = faults.late /\ faults'.kills >= faults.kills
             /\ faults'.kills \in Nat
             /\ faults'.kills = 0 => UNCHANGED <<worker, handed, beat, request, service, pool>>
  <2>1. PICK hit \in SUBSET Workers :
           /\ Cardinality(hit) \in {0, 1} /\ (Cardinality(hit) = 0 => hit = {})
           /\ worker' = [w \in Workers |->
                 IF w \in hit THEN [worker[w] EXCEPT !.step = "dead"] ELSE worker[w]]
           /\ handed' = [w \in Workers |-> IF w \in hit THEN {} ELSE handed[w]]
           /\ beat' = [w \in Workers |-> IF w \in hit THEN NoBeat ELSE beat[w]]
           /\ faults' = [faults EXCEPT !.kills = faults.kills + Cardinality(hit)]
    BY <1>8, ActsFacts
  <2>2. faults'.late = faults.late /\ faults'.kills = faults.kills + Cardinality(hit)
    BY <1>1, <2>1 DEF FaultState
  <2>3. UNCHANGED <<request, service, pool>>
    BY <1>8 DEF RemovalActs
  <2>4. faults'.kills = 0 => hit = {}
    BY <1>1, <2>1, <2>2
  <2>5. hit = {} => worker' = worker /\ handed' = handed /\ beat' = beat
    BY <2>1, TypeFacts
  <2> QED BY <1>1, <2>1, <2>2, <2>3, <2>4, <2>5
<1>9. /\ service'.boot = service.boot /\ service.made <= service'.made /\ service'.made \in Nat
      /\ faults.kills <= faults'.kills /\ faults.late <= faults'.late
      /\ faults'.kills \in Nat /\ faults'.late \in Nat
  BY <1>1, <1>2, <1>3, <1>4, <1>5, <1>6, <1>7, <1>8, NextActors
<1>10. Undisturbed /\ faults'.kills = 0 /\ faults'.late = 0 /\ service'.made <= service.boot + 1
  BY <1>1, <1>9 DEF Undisturbed
<1>11. ASSUME NEW r \in Requests, CreateService(r) PROVE service.current = 0
  BY <1>1, <1>2, <1>10, <1>11, ServiceFacts DEF GetService
<1>12. ASSUME NEW w \in Workers, BeatSaves(w) PROVE ~beat[w].late
  BY <1>1, <1>5, <1>10, <1>12 DEF Working, Reporter
<1>13. \A s \in Services : ~PoolBreaks(s)
  BY <1>6, <1>10 DEF Undisturbed
<1>14. ASSUME NEW j \in Jobs, RemovalActs(j)
       PROVE  UNCHANGED <<worker, handed, beat, request, service, pool>>
  BY <1>8, <1>10, <1>14
<1> QED BY <1>9, <1>10, <1>11, <1>12, <1>13, <1>14

\* What is known where nothing has reached in, and a step after which nothing has.
Calm ==
  /\ PlaceInv /\ OnceInv /\ NewInv /\ Undisturbed
  /\ OneRecovery /\ HandedOnce /\ SavedIsNew /\ CompletedIsFree /\ HandedOverIsSeen
  /\ BeatsAreActive /\ ActiveIsOwned
CalmStep == Calm /\ Next /\ ~Restart /\ Undisturbed'

\* There is one pool at work, and a job is in one place.
LEMMA CalmFacts ==
  ASSUME Calm
  PROVE  /\ \A w \in Workers : worker[w].step # "dead"
         /\ \A w \in Workers : worker[w].step # "free" <=> worker[w].job \in Jobs
         /\ \A w \in Workers : worker[w].job \in Jobs => \A s \in Services : worker[w].job \notin Line(s)
         /\ \A v, w \in Workers : worker[v].job \in Jobs /\ worker[v].job = worker[w].job => v = w
         /\ \A s \in Services : service.boot < s /\ s <= service.made => Accepts(pool[s])
         /\ \A w \in Workers : ~ProcessEnds(w)
<1>1. PlaceInv /\ OnceInv /\ Undisturbed
  BY DEF Calm
<1>2. /\ service.boot \in Nat /\ service.made \in Nat /\ service.made <= service.boot + 1
      /\ \A s \in Services : s \in Nat /\ s # 0
      /\ faults.kills = 0
  BY <1>1, ServiceFacts DEF Undisturbed
<1>3. \A w \in Workers : worker[w].step # "dead"
  BY <1>1, <1>2, PlaceFacts DEF KillInv
<1>4. \A w \in Workers : worker[w].step # "free" <=> worker[w].job \in Jobs
  BY <1>1, <1>3, WorkerFacts, PlaceFacts, AbsenceIsNone DEF WorkerIsSound, Free
<1>5. \A w \in Workers : worker[w].job \in Jobs => w[1] \in Services /\ w[1] = service.boot + 1
  BY <1>1, <1>2, <1>4, BusyFacts, WorkerFacts
<1>6. ASSUME NEW s \in Services, NEW k \in Line(s) PROVE s = service.boot + 1
  <2>1. pool[s].pending # << >>
    BY <1>6, EmptyLine DEF Line
  <2>2. service.boot < s /\ s <= service.made
    BY <1>1, <1>2, <2>1, PlaceFacts DEF PoolIsSound, Idle
  <2> QED BY <1>2, <2>2
<1>7. \A w \in Workers : worker[w].job \in Jobs => \A s \in Services : worker[w].job \notin Line(s)
  BY <1>1, <1>5, <1>6 DEF OnceInv, OnceIn
<1>8. \A v, w \in Workers : worker[v].job \in Jobs /\ worker[v].job = worker[w].job => v = w
  BY <1>1, <1>5 DEF OnceInv, OnceIn
<1>9. ASSUME NEW s \in Services, service.boot < s, s <= service.made PROVE Accepts(pool[s])
  <2>1. s = service.made /\ service.made # service.boot
    BY <1>2, <1>9
  <2>2. s = service.current
    BY <1>1, <2>1, PlaceFacts DEF ServiceIsSound
  <2> QED BY <1>1, <1>2, <2>2, PlaceFacts DEF PoolIsSound, KillInv, Accepts
<1>10. ASSUME NEW w \in Workers, ProcessEnds(w) PROVE FALSE
  <2>1. service.boot < w[1] /\ w[1] <= service.made /\ w[1] \in Services /\ ~pool[w[1]].open
    BY <1>1, <1>10, BusyFacts, PlaceFacts DEF ProcessEnds
  <2> QED BY <1>9, <2>1 DEF Accepts
<1> QED BY <1>3, <1>4, <1>7, <1>8, <1>9, <1>10

\* Who acts then.
LEMMA CalmActors ==
  ASSUME CalmStep
  PROVE  /\ Calm /\ PlaceInv /\ OnceInv /\ Next
         /\ \/ \E r \in Requests : GetService(r)
            \/ \E j \in Jobs : Upload(j)
            \/ ChangeSettings
            \/ \E w \in Workers : Working(w)
            \/ UNCHANGED <<worker, handed, beat, request, service, pool>>
<1>1. Calm /\ PlaceInv /\ OnceInv /\ Next /\ ~Restart
  BY DEF CalmStep, Calm
<1>2. \A s \in Services : ~PoolBreaks(s)
  BY <1>1, QuietSteps DEF CalmStep
<1>3. ASSUME NEW j \in Jobs, RemovalReads(j) \/ RemovalActs(j)
      PROVE  UNCHANGED <<worker, handed, beat, request, service, pool>>
  <2>1. CASE RemovalReads(j)
    BY <2>1 DEF RemovalReads, PipelineUnchanged
  <2>2. CASE RemovalActs(j)
    BY <1>1, <2>2, QuietSteps DEF CalmStep
  <2> QED BY <1>3, <2>1, <2>2
<1> QED BY <1>1, <1>2, <1>3, NextActors

\* Who has a job in hand.
Holders(j) ==
  \/ request[j].step \in {"saved", "rejected"}
  \/ \E s \in Services : j \in Line(s)
  \/ \E w \in Workers : worker[w].job = j /\ worker[w].step # "done"
  \/ \E w \in Workers : j \in handed[w]

LEMMA OwnedForm ==
  ASSUME NEW j \in Jobs
  PROVE  (Owned(j) <=> Holders(j)) /\ (Owned(j)' <=> Holders(j)')
BY DEF Owned, Holders, At, Doing, Line, Elems

\* A job comes into somebody's hands by its upload or by a recovery only.
LEMMA UnderwayFrom ==
  ASSUME CalmStep, NEW j \in Jobs, Underway(j)'
  PROVE  Underway(j) \/ SaveUpload(j) \/ \E r \in Requests : RecoverActiveJobs(r) /\ j \in ActiveJobs
<1>1. Calm /\ PlaceInv /\ OnceInv /\ Next /\ ~Restart
  BY CalmActors DEF CalmStep
<1>2. CASE UNCHANGED <<worker, handed, beat, request, service, pool>>
  BY <1>2 DEF Underway, Line
<1>3. CASE \/ \E r \in Requests : GetService(r)
           \/ \E k \in Jobs : Upload(k)
           \/ ChangeSettings
  <2>1. UNCHANGED <<worker, handed>>
    BY <1>1, <1>3, OneRequest
  <2>2. ASSUME request'[j].step \in {"saved", "rejected"} PROVE Underway(j) \/ SaveUpload(j)
    BY <1>1, <2>2, RequestMoves, PlaceFacts DEF Underway
  <2>3. ASSUME NEW s \in Services, j \in Line(s)'
        PROVE  Underway(j) \/ \E r \in Requests : RecoverActiveJobs(r) /\ j \in ActiveJobs
    <3>1. CASE \E k \in Jobs : Submits(s, k)
      <4>1. PICK k \in Jobs : SubmitUpload(k) /\ Line(s)' \subseteq Line(s) \union {k}
        BY <3>1 DEF Submits
      <4> QED BY <2>3, <4>1 DEF SubmitUpload, At, Underway
    <3>2. CASE \E r \in Requests : Recovers(s, r)
      BY <2>3, <3>2 DEF Recovers, Underway
    <3>3. CASE Line(s)' = Line(s)
      BY <2>3, <3>3 DEF Underway
    <3> QED BY <1>1, <1>3, <3>1, <3>2, <3>3, RequestLines
  <2> QED BY <2>1, <2>2, <2>3 DEF Underway
<1>4. ASSUME NEW w \in Workers, Working(w) PROVE Underway(j)
  <2>1. /\ w[1] \in Services /\ request' = request
        /\ \A v \in Workers : v # w => worker'[v] = worker[v] /\ handed'[v] = handed[v]
        /\ \A s \in Services : s # w[1] => Line(s)' = Line(s)
    BY <1>1, <1>4, OneWorker DEF Line
  <2>2. CASE Take(w)
    <3>1. PICK k \in Jobs : k \in Line(w[1]) /\ Line(w[1])' \union {k} = Line(w[1]) /\ worker'[w].job = k
      BY <1>1, <2>2, TakeFacts DEF Line
    <3>2. handed' = handed
      BY <2>2 DEF Take
    <3> QED BY <2>1, <3>1, <3>2 DEF Underway
  <2>3. CASE HandleSubmittedJobResult(w)
    <3>1. /\ handed' = handed /\ worker'[w].job = NoJob /\ worker[w].job \in Jobs
          /\ worker[w].step = "done" => Line(w[1])' \subseteq Line(w[1])
          /\ Line(w[1])' \subseteq Line(w[1]) \union {worker[w].job}
          /\ NoJob \notin Jobs
      BY <1>1, <2>3, HandleFacts, AbsenceIsNone DEF Free
    <3>2. j \in Line(w[1])' => Underway(j)
      <4>1. worker[w].step \in {"done", "retry"}
        BY <1>1, <2>3, HandleFacts
      <4> QED BY <2>1, <3>1, <4>1 DEF Underway, Ending
    <3>3. worker'[w].job # j
      BY <3>1
    <3> QED BY <2>1, <3>1, <3>2, <3>3 DEF Underway
  <2>4. CASE ~Take(w) /\ ~HandleSubmittedJobResult(w)
    <3>1. /\ pool' = pool /\ worker'[w].job = worker[w].job
          /\ worker[w].step \in Ending => worker'[w].step \in Ending
          /\ j \in handed'[w] => j \in handed[w] \/ (Enqueue(w) /\ j = worker[w].job)
      BY <1>1, <1>4, <2>4, KeepsJob, WorkFacts
    <3>2. \A s \in Services : Line(s)' = Line(s)
      BY <3>1 DEF Line
    <3>3. Enqueue(w) => worker[w].step \notin Ending
      BY DEF Enqueue, Doing, Ending
    <3>4. CASE j \in handed'[w]
      BY <3>1, <3>3, <3>4 DEF Underway
    <3>5. CASE worker'[w].job = j /\ worker'[w].step \notin Ending
      BY <3>1, <3>5 DEF Underway
    <3> QED BY <2>1, <3>2, <3>4, <3>5 DEF Underway
  <2> QED BY <2>2, <2>3, <2>4
<1> QED BY <1>2, <1>3, <1>4, CalmActors

\* The coordinator's last save of a job its dispatcher threads are through with.
LEMMA AgainIsOvertaken ==
  ASSUME Calm, NEW w \in Workers, SaveAgain(w), NEW j \in Jobs, j = worker[w].job
  PROVE  j \in handed'[w] \/ Overtaken(j)'
<1>1. row \in [Jobs -> Row \union {NoRow}] /\ NoRow \notin Row /\ worker[w].fails \in Nat
  BY TypeFacts, WorkerFacts, AbsenceIsNone DEF Calm
<1>2. j \in handed[w] \/ Settled(j)
  BY DEF SaveAgain, Doing, Calm, HandedOverIsSeen
<1>3. handed' = handed /\ outcome' = outcome
  BY DEF SaveAgain
<1>4. row'[j] = [status |-> "dispatch_queued", fails |-> worker[w].fails, pid |-> NoPid]
  BY <1>1 DEF SaveAgain, Save
<1>5. [status |-> "dispatch_queued", fails |-> worker[w].fails, pid |-> NoPid] \in Row
  BY <1>1 DEF Row, RowStatus
<1> QED BY <1>1, <1>2, <1>3, <1>4, <1>5 DEF Settled, Overtaken, RowIs

\* Who has a job keeps it, or settles it, or puts it off, or is told too late
\* that it is settled.
LEMMA HoldersKept ==
  ASSUME CalmStep, NEW j \in Jobs, Holders(j), row[j] # NoRow, row'[j] # NoRow,
         row'[j].status \in Active, row'[j].status # "retryable_failure"
  PROVE  Holders(j)' \/ Overtaken(j)'
<1>1. Calm /\ PlaceInv /\ OnceInv /\ Next /\ ~Restart
  BY CalmActors DEF CalmStep
<1>2. CASE UNCHANGED <<worker, handed, beat, request, service, pool>>
  BY <1>2 DEF Holders, Line
<1>3. CASE \/ \E r \in Requests : GetService(r)
           \/ \E k \in Jobs : Upload(k)
           \/ ChangeSettings
  <2>1. UNCHANGED <<worker, handed>>
    BY <1>1, <1>3, OneRequest
  <2>2. ASSUME NEW s \in Services, j \in Line(s) PROVE j \in Line(s)'
    BY <1>1, <1>3, <2>2, RequestLines DEF Submits, Recovers
  <2>3. request[j].step # "rejected"
    BY <1>1, PlaceFacts DEF Calm, OneRecovery
  <2>4. ASSUME request[j].step = "saved" PROVE Holders(j)'
    <3>1. CASE ~SubmitUpload(j)
      <4>1. request'[j].step = "saved"
        BY <1>1, <2>4, <3>1, RequestMoves, PlaceFacts
      <4> QED BY <4>1 DEF Holders
    <3>2. CASE SubmitUpload(j)
      <4>1. PICK s \in Services : s = request[j].to /\ service.boot < s /\ s <= service.made
        <5>1. request \in [Requests -> RequestState] /\ j \in Requests
          BY <1>1, TypeFacts, PlaceFacts
        <5>2. service.boot < request[j].to /\ request[j].to <= service.made
          BY <1>1, <2>4, <5>1, PlaceFacts DEF RequestIsSound
        <5>3. request[j].to \in Services
          BY <1>1, <5>1, <5>2, ServiceFacts, PipelineBounds DEF RequestState, Services
        <5> QED BY <5>2, <5>3
      <4>2. Accepts(pool[s]) /\ j \notin pool[s].submitted
        BY <1>1, <2>4, <4>1, CalmFacts DEF Calm, SavedIsNew, Nowhere
      <4>3. pool'[s] = SubmitJob(pool[s], j) /\ pool[s] \in PoolState
        BY <1>1, <3>2, <4>1, TypeFacts DEF SubmitUpload
      <4>4. PICK q : q = pool'[s] /\ q = SubmitJob(pool[s], j)
        BY <4>3
      <4>5. j \in Elems(q.pending)
        <5>1. GivenJob(pool[s], j, q)
          BY <4>3, <4>4, SubmitOnce
        <5> QED BY <4>2, <5>1 DEF GivenJob
      <4> QED BY <4>4, <4>5 DEF Holders, Line
    <3> QED BY <3>1, <3>2
  <2> QED BY <2>1, <2>2, <2>3, <2>4 DEF Holders
<1>4. ASSUME NEW w \in Workers, Working(w) PROVE Holders(j)' \/ Overtaken(j)'
  <2>1. /\ w[1] \in Services /\ request' = request
        /\ \A v \in Workers : v # w => worker'[v] = worker[v] /\ handed'[v] = handed[v]
        /\ \A s \in Services : s # w[1] => Line(s)' = Line(s)
    BY <1>1, <1>4, OneWorker DEF Line
  <2>2. CASE Take(w)
    <3>1. PICK k \in Jobs :
            /\ k \in Line(w[1]) /\ Line(w[1])' \union {k} = Line(w[1]) /\ worker'[w].job = k
            /\ worker[w] = Free /\ (row[k] # NoRow => worker'[w].step = "start")
      BY <1>1, <2>2, TakeFacts DEF Line
    <3>2. handed' = handed /\ worker[w].job # j
      BY <2>2, <3>1, AbsenceIsNone DEF Take, Free
    <3> QED BY <2>1, <3>1, <3>2 DEF Holders
  <2>3. CASE HandleSubmittedJobResult(w)
    <3>1. /\ handed' = handed
          /\ Line(w[1]) \subseteq Line(w[1])' /\ worker[w].step \in {"done", "retry"}
          /\ worker[w].step = "retry" /\ Accepts(pool[w[1]]) => worker[w].job \in Line(w[1])'
      BY <1>1, <2>3, HandleFacts
    <3>2. Accepts(pool[w[1]])
      BY <1>1, <1>4, OneWorker, CalmFacts
    <3> QED BY <2>1, <3>1, <3>2 DEF Holders
  <2>4. CASE ~Take(w) /\ ~HandleSubmittedJobResult(w)
    <3>1. /\ pool' = pool /\ worker'[w].job = worker[w].job
          /\ worker'[w].step = "done" => worker[w].step = "done" \/ Delivers(w)
          /\ j \in handed[w] => j \in handed'[w] \/ Dispatch(w, j)
      BY <1>1, <1>4, <2>4, KeepsJob, WorkFacts, CalmFacts
    <3>2. \A s \in Services : Line(s)' = Line(s)
      BY <3>1 DEF Line
    <3>3. row \in [Jobs -> Row \union {NoRow}] /\ handed \in [Workers -> SUBSET Jobs]
      BY <1>1, TypeFacts
    <3>4. ~Dispatch(w, j)
      BY <3>3, DispatchFacts DEF Save, Active
    <3>5. ASSUME worker[w].job = j, RetryOrFailJob(w) PROVE worker'[w].step # "done"
      <4>1. Save(j, "retrying", FailureCount(worker[w].fails), NoPid) /\ Returns(w, "retry")
        BY <3>3, <3>5 DEF RetryOrFailJob, Save, Active
      <4> QED BY <1>1, <4>1, MoveFacts
    <3>6. ASSUME worker[w].job = j, SaveAgain(w) PROVE j \in handed'[w] \/ Overtaken(j)'
      BY <1>1, <3>6, AgainIsOvertaken
    <3>9. ASSUME worker[w].job = j PROVE ~EnqueueFails(w)
      BY <3>3, <3>9 DEF EnqueueFails, Save
    <3>7. CASE worker[w].job = j /\ worker[w].step # "done"
      BY <3>1, <3>5, <3>6, <3>7, <3>9 DEF Holders, Delivers
    <3>8. CASE j \in handed[w]
      BY <3>1, <3>4, <3>8 DEF Holders
    <3> QED BY <2>1, <3>2, <3>7, <3>8 DEF Holders
  <2> QED BY <2>2, <2>3, <2>4
<1> QED BY <1>2, <1>3, <1>4, CalmActors

\* The service is brought up by one request, and nothing goes on before.
LEMMA OneRecoveryStep ==
  ASSUME CalmStep
  PROVE  OneRecovery'
<1>1. Calm /\ PlaceInv /\ OnceInv /\ Next /\ ~Restart /\ OneRecovery
  BY CalmActors DEF CalmStep, Calm
<1>2. service \in ServiceState /\ request \in [Requests -> RequestState]
  BY <1>1, TypeFacts
<1>3. ASSUME NEW r \in Requests PROVE request'[r].step # "rejected"
  <2>1. CASE r \in Jobs /\ SubmitUpload(r)
    <3>1. request[r].step = "saved"
      BY <1>1, <2>1, RequestMoves
    <3>2. service.boot < request[r].to /\ request[r].to <= service.made
      BY <1>1, <3>1, PlaceFacts DEF RequestIsSound
    <3>3. request[r].to \in Services
      BY <1>1, <1>2, <3>2, ServiceFacts, PipelineBounds DEF RequestState, Services
    <3>4. ~Raises(pool[request[r].to], r)
      BY <1>1, <3>2, <3>3, CalmFacts DEF Raises
    <3> QED BY <1>1, <2>1, <3>4, RequestMoves
  <2>2. CASE ~(r \in Jobs /\ SubmitUpload(r))
    BY <1>1, <2>2, RequestMoves DEF OneRecovery
  <2> QED BY <2>1, <2>2
<1>4. \/ service'.current = service.current /\ service'.key = service.key
      \/ \E r \in Requests : CreateService(r)
      \/ \E r \in Requests : RecoverActiveJobs(r)
  <2>1. CASE \E r \in Requests : GetService(r)
    BY <2>1 DEF GetService, ReadSettings, UseService
  <2>2. CASE \E k \in Jobs : Upload(k)
    BY <2>2 DEF Upload, SaveUpload, SubmitUpload, SaveRejected
  <2>3. CASE ChangeSettings
    BY <1>2, <2>3 DEF ChangeSettings, ServiceState
  <2>4. CASE \E w \in Workers : Working(w)
    BY <1>1, <2>4, OneWorker
  <2> QED BY <2>1, <2>2, <2>3, <2>4, CalmActors
<1>5. ASSUME NEW r \in Requests, CreateService(r)
      PROVE  /\ service.current = 0 /\ service.key = 0 /\ service'.current # 0 /\ service'.key = 0
             /\ \A q \in Requests : request[q].step # "recover"
  <2>1. service.current = 0 /\ service.key = 0
    BY <1>1, <1>5, QuietSteps, PlaceFacts DEF CalmStep, ServiceIsSound
  <2>2. service' = [service EXCEPT !.current = service.made + 1, !.made = service.made + 1]
    BY <1>5 DEF CreateService
  <2>3. service'.current = service.made + 1 /\ service'.key = service.key
    BY <1>2, <2>2 DEF ServiceState
  <2> QED BY <1>1, <2>1, <2>3, ServiceFacts DEF OneRecovery
<1>6. ASSUME NEW r \in Requests, RecoverActiveJobs(r)
      PROVE  request[r].step = "recover" /\ request'[r].step # "recover" /\ service'.key # 0
  <2>1. request[r].step = "recover" /\ request'[r].step = "resolved" /\ request[r].key # 0
    BY <1>1, <1>6, RequestMoves, PlaceFacts DEF RequestIsSound
  <2>2. service' = [service EXCEPT !.key = request[r].key]
    BY <1>6 DEF RecoverActiveJobs
  <2> QED BY <1>2, <2>1, <2>2 DEF ServiceState
<1>7. ASSUME NEW q \in Requests, request'[q].step = "recover"
      PROVE  request[q].step = "recover" \/ CreateService(q)
  BY <1>1, <1>7, RequestMoves
<1>8. ASSUME NEW q \in Requests, CreateService(q), NEW r \in Requests, CreateService(r) PROVE q = r
  BY <1>2, <1>8, RequestMoves, <1>1 DEF CreateService, Moves
<1>9. ASSUME NEW q \in Requests, request'[q].step = "recover"
      PROVE  service'.current # 0 /\ service'.key = 0
  <2>1. CASE \E r \in Requests : CreateService(r)
    BY <1>5, <2>1
  <2>2. CASE \A r \in Requests : ~CreateService(r)
    <3>1. request[q].step = "recover" /\ service.current # 0 /\ service.key = 0
      BY <1>1, <1>7, <1>9, <2>2 DEF OneRecovery
    <3>2. \A r \in Requests : ~RecoverActiveJobs(r)
      BY <1>1, <1>6, <1>9, <3>1 DEF OneRecovery
    <3> QED BY <1>4, <2>2, <3>1, <3>2
  <2> QED BY <2>1, <2>2
<1>10. ASSUME NEW q \in Requests, NEW r \in Requests,
              request'[q].step = "recover", request'[r].step = "recover"
       PROVE  q = r
  BY <1>1, <1>5, <1>7, <1>8, <1>10 DEF OneRecovery
<1>11. ASSUME service'.key = 0
       PROVE  /\ \A s \in Services : Idle(s)'
              /\ \A r \in Requests : request'[r].step \notin {"resolved", "saved"}
  <2>1. service.key = 0 /\ \A r \in Requests : ~RecoverActiveJobs(r)
    BY <1>4, <1>5, <1>6, <1>11
  <2>2. /\ \A s \in Services : Idle(s)
        /\ \A r \in Requests : request[r].step \notin {"resolved", "saved"}
    BY <1>1, <2>1 DEF OneRecovery
  <2>3. ASSUME NEW r \in Requests PROVE ~UseService(r)
    BY <1>1, <2>1, <2>3, RequestMoves, PlaceFacts DEF UseService, UpToDate, RequestIsSound
  <2>4. \A r \in Requests : request'[r].step \notin {"resolved", "saved"}
    BY <1>1, <2>1, <2>2, <2>3, RequestMoves
  <2>5. \A k \in Jobs : ~SubmitUpload(k)
    BY <2>2, PlaceFacts, <1>1 DEF SubmitUpload, At
  <2>6. CASE UNCHANGED <<worker, handed, beat, request, service, pool>>
    BY <2>2, <2>6 DEF Idle
  <2>7. CASE \/ \E r \in Requests : GetService(r)
             \/ \E k \in Jobs : Upload(k)
             \/ ChangeSettings
    <3>1. UNCHANGED <<worker, handed, beat>>
      BY <1>1, <2>7, OneRequest
    <3>2. pool \in [Services -> PoolState]
      BY <1>1, TypeFacts
    <3>3. ASSUME NEW r \in Requests, CreateService(r), NEW s \in Services
          PROVE  pool'[s].pending = pool[s].pending /\ pool'[s].submitted = pool[s].submitted
      BY <3>2, <3>3 DEF CreateService, PoolState
    <3>4. CASE pool' = pool
      BY <2>2, <2>4, <3>1, <3>4 DEF Idle
    <3>5. CASE \E r \in Requests : CreateService(r)
      BY <2>2, <2>4, <3>1, <3>3, <3>5 DEF Idle
    <3>6. \/ pool' = pool \/ \E r \in Requests : CreateService(r)
      BY <2>1, <2>5, <2>7 DEF GetService, Upload, ReadSettings, UseService, SaveUpload, SaveRejected,
         ChangeSettings
    <3> QED BY <3>4, <3>5, <3>6
  <2>8. ASSUME NEW w \in Workers, Working(w) PROVE FALSE
    <3>1. Idle(w[1]) /\ w[1] \in Services
      BY <1>1, <2>2, <2>8, OneWorker
    <3>2. worker[w] = Free /\ handed[w] = {} /\ beat[w] = NoBeat /\ pool[w[1]].pending = << >>
      BY <3>1 DEF Idle
    <3> QED BY <2>8, <3>2 DEF Working, Process, Reporter, Take, Start, ConvertFails, ConvertSucceeds,
         ReadLatest, RetryOrFailJob, SaveParsed, HandOver, Enqueue, EnqueueFails, SaveQueued, SaveAgain,
         BeatStarts, BeatReads, BeatSaves, Reporting, HandleSubmittedJobResult, ProcessEnds, Dispatch, Doing, Free
  <2> QED BY <2>4, <2>6, <2>7, <2>8, CalmActors
<1> QED BY <1>3, <1>9, <1>10, <1>11 DEF OneRecovery

\* Recovery finds every pool idle.
LEMMA RecoverFacts ==
  ASSUME CalmStep, NEW r \in Requests, RecoverActiveJobs(r)
  PROVE  /\ service.key = 0 /\ \A s \in Services : Idle(s)
         /\ \A q \in Requests : request[q].step \notin {"resolved", "saved"}
         /\ \A w \in Workers : handed[w] = {} /\ worker[w] = Free /\ beat[w] = NoBeat
<1>1. Calm /\ PlaceInv /\ OneRecovery
  BY CalmActors DEF Calm
<1>2. request[r].step = "recover"
  BY <1>1, RequestMoves DEF RecoverActiveJobs, At
<1>3. service.key = 0
  BY <1>1, <1>2 DEF OneRecovery
<1> QED BY <1>1, <1>3, PlaceFacts DEF OneRecovery, Idle

\* The dispatch queues keep what is theirs.
LEMMA HandedOnceStep ==
  ASSUME CalmStep
  PROVE  HandedOnce'
<1>1. Calm /\ PlaceInv /\ OnceInv /\ Next /\ HandedOnce
  BY CalmActors DEF Calm
<1>2. /\ handed \in [Workers -> SUBSET Jobs] /\ worker \in [Workers -> WorkerState]
      /\ NoJob \notin Jobs
  BY <1>1, TypeFacts, AbsenceIsNone
<1>3. CASE UNCHANGED <<worker, handed, beat, request, service, pool>>
  BY <1>1, <1>3 DEF HandedOnce, Line
<1>4. CASE \/ \E r \in Requests : GetService(r)
           \/ \E k \in Jobs : Upload(k)
           \/ ChangeSettings
  <2>1. UNCHANGED <<worker, handed>>
    BY <1>1, <1>4, OneRequest
  <2>2. ASSUME NEW w \in Workers, NEW j \in handed[w], NEW s \in Services PROVE j \notin Line(s)'
    <3>1. j \notin Line(s) /\ j \in Jobs
      BY <1>1, <1>2, <2>2 DEF HandedOnce
    <3>2. ~SubmitUpload(j)
      <4>1. SubmitUpload(j) => Nowhere(j)
        BY <1>1, <3>1 DEF Calm, SavedIsNew, SubmitUpload, At
      <4> QED BY <2>2, <4>1 DEF Nowhere
    <3>3. \A r \in Requests : ~RecoverActiveJobs(r)
      BY <2>2, RecoverFacts
    <3> QED BY <1>1, <1>4, <3>1, <3>2, <3>3, RequestLines DEF Submits, Recovers
  <2> QED BY <1>1, <2>1, <2>2 DEF HandedOnce
<1>5. ASSUME NEW w \in Workers, Working(w) PROVE HandedOnce'
  <2>1. /\ w[1] \in Services
        /\ \A v \in Workers : v # w => worker'[v] = worker[v] /\ handed'[v] = handed[v]
        /\ \A s \in Services : s # w[1] => Line(s)' = Line(s)
    BY <1>1, <1>5, OneWorker DEF Line
  <2>2. CASE Take(w)
    <3>1. PICK k \in Jobs :
            /\ k \in Line(w[1]) /\ Line(w[1])' \union {k} = Line(w[1]) /\ worker'[w].job = k
      BY <1>1, <2>2, TakeFacts DEF Line
    <3>2. handed' = handed
      BY <2>2 DEF Take
    <3>3. ASSUME NEW v \in Workers, NEW j \in handed[v]
          PROVE  j # k /\ \A s \in Services : j \notin Line(s)'
      BY <1>1, <2>1, <3>1, <3>3 DEF HandedOnce
    <3> QED BY <1>1, <2>1, <3>1, <3>2, <3>3 DEF HandedOnce
  <2>3. CASE HandleSubmittedJobResult(w)
    <3>1. /\ handed' = handed /\ worker'[w].job = NoJob /\ worker[w].step \in {"done", "retry"}
          /\ worker[w].step = "done" => Line(w[1])' \subseteq Line(w[1])
          /\ Line(w[1])' \subseteq Line(w[1]) \union {worker[w].job}
      BY <1>1, <2>3, HandleFacts DEF Free
    <3>2. ASSUME NEW v \in Workers, NEW j \in handed[v]
          PROVE  j \in Jobs /\ \A s \in Services : j \notin Line(s)'
      <4>1. /\ j \in Jobs /\ \A s \in Services : j \notin Line(s)
            /\ worker[w].job = j => worker[w].step = "done"
        BY <1>1, <1>2, <3>1, <3>2 DEF HandedOnce, Ending
      <4> QED BY <2>1, <3>1, <4>1
    <3> QED BY <1>1, <1>2, <2>1, <3>1, <3>2 DEF HandedOnce
  <2>4. CASE ~Take(w) /\ ~HandleSubmittedJobResult(w)
    <3>1. /\ pool' = pool /\ \A v \in Workers : worker'[v].job = worker[v].job
          /\ worker[w].step \in Ending => worker'[w].step \in Ending
          /\ \A k \in Jobs : k \in handed'[w] => k \in handed[w] \/ (Enqueue(w) /\ k = worker[w].job)
      BY <1>1, <1>5, <2>4, KeepsJob, WorkFacts
    <3>2. \A s \in Services : Line(s)' = Line(s)
      BY <3>1 DEF Line
    <3>3. handed' \in [Workers -> SUBSET Jobs]
      BY <1>1, PlaceStep, TypeFacts DEF PlaceInv, LTypeOK
    <3>4. ASSUME Enqueue(w), NEW j \in Jobs, j = worker[w].job
          PROVE  /\ \A s \in Services : j \notin Line(s)
                 /\ \A v \in Workers : worker[v].job = j => v = w
                 /\ \A v \in Workers : j \notin handed[v]
                 /\ worker'[w].step \in Ending
      <4>1. worker[w].step = "hand_over" /\ worker'[w].step = "enqueued"
        BY <1>1, <3>4, MoveFacts DEF Enqueue, Doing
      <4> QED BY <1>1, <3>4, <4>1, CalmFacts DEF HandedOnce, Ending
    <3>5. ASSUME NEW u \in Workers, NEW j \in handed'[u]
          PROVE  /\ \A s \in Services : j \notin Line(s)'
                 /\ \A v \in Workers : /\ worker'[v].job = j => worker'[v].step \in Ending
                                       /\ j \in handed'[v] => v = u
      <4>1. j \in Jobs
        BY <3>3, <3>5
      <4>2. CASE Enqueue(w) /\ j = worker[w].job
        <5>1. \A v \in Workers : j \in handed'[v] => v = w
          BY <2>1, <3>4, <4>1, <4>2
        <5> QED BY <2>1, <3>1, <3>2, <3>4, <3>5, <4>1, <4>2, <5>1
      <4>3. CASE ~(Enqueue(w) /\ j = worker[w].job)
        <5>1. \A v \in Workers : j \in handed'[v] => j \in handed[v]
          BY <2>1, <3>1, <4>1, <4>3
        <5>2. /\ \A s \in Services : j \notin Line(s)
              /\ \A v \in Workers : /\ worker[v].job = j => worker[v].step \in Ending
                                    /\ j \in handed[v] => v = u
          BY <1>1, <3>5, <5>1 DEF HandedOnce
        <5> QED BY <2>1, <3>1, <3>2, <5>1, <5>2
      <4> QED BY <4>2, <4>3
    <3> QED BY <3>5 DEF HandedOnce
  <2> QED BY <2>2, <2>3, <2>4
<1> QED BY <1>3, <1>4, <1>5, CalmActors

\* A job that has just been uploaded is known to its request only.
LEMMA SavedIsNewStep ==
  ASSUME CalmStep
  PROVE  SavedIsNew'
<1>1. Calm /\ PlaceInv /\ OnceInv /\ NewInv /\ SavedIsNew /\ Next
  BY CalmActors DEF Calm
<1>2. ASSUME NEW j \in Jobs, request'[j].step = "saved" PROVE Nowhere(j)' /\ ~RowIs(j, "completed")'
  <2>1. /\ j \in Requests /\ ~SubmitUpload(j)
        /\ request[j].step = "saved" \/ (SaveUpload(j) /\ request[j].step = "resolved")
    <3>1. SubmitUpload(j) => request'[j].step \in {"rejected", "answered"}
      BY <1>1, RequestMoves, PlaceFacts
    <3> QED BY <1>1, <1>2, <3>1, RequestMoves, PlaceFacts
  <2>2. Nowhere(j)
    BY <1>1, <2>1 DEF NewInv, Untouched, SavedIsNew
  <2>3. \A r \in Requests : ~RecoverActiveJobs(r)
    BY <2>1, RecoverFacts
  <2>4. Nowhere(j)'
    BY <1>1, <2>1, <2>2, <2>3, NowhereKept
  <2>5. CASE SaveUpload(j)
    <3>1. row' = [row EXCEPT ![j] = [status |-> "parser_queued", fails |-> 0, pid |-> NoPid]]
      BY <2>5 DEF SaveUpload, Save
    <3>2. row'[j].status = "parser_queued"
      BY <1>1, <3>1, TypeFacts
    <3> QED BY <2>4, <3>2 DEF RowIs
  <2>6. CASE ~SaveUpload(j)
    <3>1. request[j].step = "saved" /\ ~RowIs(j, "completed")
      BY <1>1, <2>1, <2>6 DEF SavedIsNew
    <3>2. ~SaveRejected(j)
      BY <1>1, <2>1 DEF SaveRejected, Calm, OneRecovery, At
    <3>3. /\ \A w \in Workers : worker[w].job # j /\ ~Dispatch(w, j)
          /\ \A w \in Workers : ~(BeatSaves(w) /\ beat[w].job = j)
      BY <2>2 DEF Nowhere, Dispatch, BeatSaves, Reporting
    <3>4. row'[j] = row[j] \/ row'[j] = NoRow
      BY <1>1, <2>6, <3>2, <3>3, RowWriters DEF RowWritten
    <3> QED BY <2>4, <3>1, <3>4 DEF RowIs
  <2> QED BY <2>5, <2>6
<1> QED BY <1>2 DEF SavedIsNew

\* Nobody writes a job that is completed, but who handed it over.
LEMMA CompletedIsLeft ==
  ASSUME CalmStep, NEW j \in Jobs, RowIs(j, "completed")
  PROVE  \/ row'[j] = row[j] \/ row'[j] = NoRow
         \/ /\ row'[j].status = "dispatch_queued"
            /\ \E w \in Workers : worker[w].job = j /\ worker[w].step \in {"enqueued", "saved"}
<1>1. Calm /\ PlaceInv /\ OnceInv /\ NewInv /\ CompletedIsFree /\ Next /\ j \in Requests
  BY CalmActors, PlaceFacts DEF Calm
<1>2. row[j] # NoRow /\ ~Underway(j) /\ row \in [Jobs -> Row \union {NoRow}]
  BY <1>1, TypeFacts DEF RowIs, CompletedIsFree
<1>3. ~SaveUpload(j)
  BY <1>1, <1>2 DEF SaveUpload, At, NewInv, Untouched
<1>4. ~SaveRejected(j)
  BY <1>1 DEF SaveRejected, At, Calm, OneRecovery
<1>5. \A w \in Workers : ~Dispatch(w, j) /\ (worker[w].job = j => worker[w].step \in Ending)
  BY <1>2 DEF Dispatch, Underway
<1>6. ASSUME NEW w \in Workers, BeatSaves(w) PROVE beat[w].job # j
  <2>1. ~beat[w].late /\ beat[w] # NoBeat
    BY <1>1, <1>6, QuietSteps DEF CalmStep, BeatSaves, Reporting
  <2>2. worker[w].step = "convert" /\ beat[w].job = worker[w].job
    BY <1>1, <2>1, PlaceFacts DEF WorkerIsSound
  <2> QED BY <1>2, <2>2 DEF Underway, Ending
<1>7. ASSUME NEW w \in Workers, worker[w].job = j, Start(w) \/ SaveParsed(w) \/ SaveQueued(w) \/ Delivers(w)
      PROVE  row'[j].status = "dispatch_queued" /\ worker[w].step \in {"enqueued", "saved"}
  <2>1. SaveQueued(w) \/ SaveAgain(w)
    BY <1>5, <1>7 DEF Start, SaveParsed, Delivers, RetryOrFailJob, EnqueueFails, Doing, Ending
  <2>2. Save(j, "dispatch_queued", worker[w].fails, NoPid) /\ worker[w].step \in {"enqueued", "saved"}
    BY <1>7, <2>1 DEF SaveQueued, SaveAgain, Doing
  <2> QED BY <1>2, <2>2 DEF Save
<1> QED BY <1>1, <1>3, <1>4, <1>5, <1>6, <1>7, RowWriters DEF RowWritten

\* A heartbeat that will save holds a row of a job that is not settled.
LEMMA BeatsAreActiveStep ==
  ASSUME CalmStep
  PROVE  BeatsAreActive'
<1>1. Calm /\ PlaceInv /\ BeatsAreActive /\ CompletedIsFree /\ Next
  BY CalmActors DEF Calm
<1>2. beat \in [Workers -> Beat \union {NoBeat}] /\ worker \in [Workers -> WorkerState]
  BY <1>1, TypeFacts
<1>3. ASSUME NEW w \in Workers, beat[w] # NoBeat, ~beat[w].late
      PROVE  ~RowIs(beat[w].job, "completed")
  <2>1. worker[w].step = "convert" /\ beat[w].job = worker[w].job /\ worker[w].job \in Jobs
    BY <1>1, <1>3, WorkerFacts, PlaceFacts DEF WorkerIsSound
  <2>2. PICK j \in Jobs : j = beat[w].job
    BY <2>1
  <2>3. Underway(j)
    BY <2>1, <2>2 DEF Underway, Ending
  <2> QED BY <1>1, <2>2, <2>3 DEF CompletedIsFree
<1>4. CASE beat' = beat
  BY <1>1, <1>4 DEF BeatsAreActive, Reporting
<1>5. ASSUME NEW w \in Workers, Working(w) PROVE BeatsAreActive'
  <2>1. \A v \in Workers : v # w => beat'[v] = beat[v]
    BY <1>1, <1>5, OneWorker
  <2>2. ASSUME beat'[w] # NoBeat, beat'[w].copy # NoRow, ~beat'[w].late
        PROVE  beat'[w].copy.status # "completed"
    <3>1. CASE ConvertFails(w) \/ ConvertSucceeds(w)
      <4>1. beat' = [beat EXCEPT ![w] =
               IF beat[w] = NoBeat THEN beat[w] ELSE [beat[w] EXCEPT !.late = TRUE]]
        BY <3>1 DEF ConvertFails, ConvertSucceeds, StopBeat
      <4>2. beat[w] # NoBeat => [beat[w] EXCEPT !.late = TRUE].late = TRUE
        BY <1>2 DEF Beat
      <4> QED BY <1>2, <2>2, <4>1, <4>2
    <3>2. CASE BeatStarts(w)
      <4>1. beat'[w] = [job |-> worker[w].job, copy |-> NoRow, late |-> FALSE]
        BY <1>2, <3>2 DEF BeatStarts
      <4> QED BY <2>2, <4>1
    <3>3. CASE BeatReads(w)
      <4>1. /\ beat[w] # NoBeat
            /\ beat' = [beat EXCEPT ![w] =
                 IF row[beat[w].job] = NoRow THEN NoBeat ELSE [beat[w] EXCEPT !.copy = row[beat[w].job]]]
        BY <3>3 DEF BeatReads
      <4>2. row[beat[w].job] # NoRow /\ beat'[w] = [beat[w] EXCEPT !.copy = row[beat[w].job]]
        BY <1>2, <2>2, <4>1
      <4>3. beat'[w].copy = row[beat[w].job] /\ beat'[w].late = beat[w].late
        BY <1>2, <4>1, <4>2 DEF Beat
      <4> QED BY <1>3, <2>2, <4>1, <4>2, <4>3 DEF RowIs
    <3>4. CASE BeatSaves(w)
      <4>1. beat' = [beat EXCEPT ![w] = NoBeat]
        BY <3>4 DEF BeatSaves
      <4> QED BY <1>2, <2>2, <4>1
    <3>5. CASE beat' = beat
      BY <1>1, <2>2, <3>5 DEF BeatsAreActive, Reporting
    <3>6. CASE \/ Take(w) \/ Start(w) \/ ReadLatest(w) \/ RetryOrFailJob(w) \/ SaveParsed(w) \/ HandOver(w)
               \/ HandleSubmittedJobResult(w) \/ ProcessEnds(w) \/ \E j \in Jobs : Dispatch(w, j)
      <4>1. ~ProcessEnds(w)
        BY <1>1, CalmFacts
      <4>2. beat' = beat
        BY <3>6, <4>1 DEF Take, Start, ReadLatest, RetryOrFailJob, SaveParsed, HandOver, Enqueue, EnqueueFails,
           SaveQueued, SaveAgain, HandleSubmittedJobResult, Dispatch
      <4> QED BY <3>5, <4>2
    <3> QED BY <1>5, <3>1, <3>2, <3>3, <3>4, <3>6 DEF Working, Process, Reporter
  <2> QED BY <1>1, <2>1, <2>2 DEF BeatsAreActive, Reporting
<1>6. CASE \/ \E r \in Requests : GetService(r)
           \/ \E k \in Jobs : Upload(k)
           \/ ChangeSettings
  BY <1>1, <1>4, <1>6, OneRequest
<1> QED BY <1>4, <1>5, <1>6, CalmActors

\* A completed job is in the hands of who handed it over, at most.
LEMMA CompletedIsFreeStep ==
  ASSUME CalmStep
  PROVE  CompletedIsFree'
<1>1. /\ Calm /\ PlaceInv /\ OnceInv /\ CompletedIsFree /\ SavedIsNew /\ HandedOnce /\ BeatsAreActive
      /\ Next /\ OneRecovery
  BY CalmActors DEF Calm
<1>2. row \in [Jobs -> Row \union {NoRow}] /\ handed \in [Workers -> SUBSET Jobs]
  BY <1>1, TypeFacts
<1>3. ASSUME NEW j \in Jobs, row'[j] # NoRow, row'[j].status = "completed" PROVE ~Underway(j)'
  <2>1. ~SaveUpload(j) /\ ~SaveRejected(j)
    BY <1>2, <1>3 DEF SaveUpload, SaveRejected, Save
  <2>2. CASE row'[j] = row[j]
    <3>1. ~Underway(j) /\ j \notin ActiveJobs
      BY <1>1, <1>3, <2>2 DEF CompletedIsFree, RowIs, ActiveJobs, Active
    <3> QED BY <2>1, <3>1, UnderwayFrom
  <2>3. ASSUME NEW w \in Workers, Dispatch(w, j) PROVE ~Underway(j)'
    <3>1. /\ j \in handed[w] /\ handed' = [handed EXCEPT ![w] = @ \ {j}]
          /\ UNCHANGED <<worker, request, pool>>
      BY <2>3, DispatchFacts
    <3>2. /\ \A s \in Services : j \notin Line(s)
          /\ \A v \in Workers : /\ worker[v].job = j => worker[v].step \in Ending
                                /\ j \in handed[v] => v = w
      BY <1>1, <3>1 DEF HandedOnce
    <3>3. \A v \in Workers : j \notin handed'[v]
      BY <1>2, <3>1, <3>2
    <3>4. request[j].step # "rejected" /\ request[j].step # "saved"
      <4>1. request[j].step = "saved" => Nowhere(j)
        BY <1>1 DEF SavedIsNew
      <4> QED BY <1>1, <3>1, <4>1, PlaceFacts DEF OneRecovery, Nowhere
    <3> QED BY <3>1, <3>2, <3>3, <3>4 DEF Underway, Line
  <2>4. ASSUME NEW w \in Workers, BeatSaves(w), beat[w].job = j, row'[j] = beat[w].copy PROVE FALSE
    <3>1. ~beat[w].late /\ Reporting(w)
      BY <1>1, <2>4, QuietSteps DEF CalmStep, BeatSaves
    <3> QED BY <1>1, <1>3, <2>4, <3>1 DEF BeatsAreActive
  <2> QED BY <1>1, <1>3, <2>1, <2>2, <2>3, <2>4, RowWriters DEF RowWritten
<1>4. ASSUME NEW j \in Jobs, RowIs(j, "completed")' PROVE ~Underway(j)'
  BY <1>3, <1>4 DEF RowIs
<1> QED BY <1>4 DEF CompletedIsFree

\* What dispatcher threads were done with stays so.
LEMMA SettledStays ==
  ASSUME PlaceInv, Next, NEW j \in Jobs, Settled(j)
  PROVE  Settled(j)'
BY VerdictsStay DEF Settled

\* What a process hands over is in its queue, or its dispatcher threads have
\* dealt with it.
LEMMA HandedOverIsSeenStep ==
  ASSUME CalmStep
  PROVE  HandedOverIsSeen'
<1>1. Calm /\ PlaceInv /\ OnceInv /\ HandedOverIsSeen /\ Next
  BY CalmActors DEF Calm
<1>2. /\ handed \in [Workers -> SUBSET Jobs] /\ worker \in [Workers -> WorkerState]
      /\ outcome \in [Jobs -> SUBSET Verdicts]
  BY <1>1, TypeFacts
<1>3. ASSUME NEW w \in Workers, worker'[w] = worker[w], handed'[w] = handed[w],
             worker'[w].step \in {"enqueued", "saved"}
      PROVE  worker'[w].job \in handed'[w] \/ Settled(worker[w].job)'
  <2>1. worker[w].job \in Jobs
    BY <1>1, <1>3, WorkerFacts
  <2>2. worker[w].job \in handed[w] \/ Settled(worker[w].job)
    BY <1>1, <1>3 DEF HandedOverIsSeen
  <2> QED BY <1>1, <1>3, <2>1, <2>2, SettledStays
<1>4. CASE UNCHANGED <<worker, handed, beat, request, service, pool>>
  BY <1>3, <1>4 DEF HandedOverIsSeen, Settled
<1>5. CASE \/ \E r \in Requests : GetService(r)
           \/ \E k \in Jobs : Upload(k)
           \/ ChangeSettings
  <2>1. UNCHANGED <<worker, handed>>
    BY <1>1, <1>5, OneRequest
  <2> QED BY <1>3, <2>1 DEF HandedOverIsSeen, Settled
<1>6. ASSUME NEW w \in Workers, Working(w), worker'[w].step \in {"enqueued", "saved"}
      PROVE  worker'[w].job \in handed'[w] \/ Settled(worker[w].job)'
  <2>1. ~Take(w) /\ ~HandleSubmittedJobResult(w)
    BY <1>1, <1>2, <1>6, TakeFacts, HandleFacts DEF Free
  <2>2. /\ worker'[w].job = worker[w].job
        /\ worker[w].step \in {"enqueued", "saved"} \/ Enqueue(w)
        /\ \A k \in Jobs : k \in handed[w] => k \in handed'[w] \/ Dispatch(w, k)
    BY <1>1, <1>6, <2>1, KeepsJob, WorkFacts, CalmFacts
  <2>3. PICK j \in Jobs : j = worker[w].job
    BY <1>1, <2>2, WorkerFacts DEF Enqueue, Doing
  <2>4. CASE Enqueue(w)
    BY <1>2, <2>2, <2>3, <2>4 DEF Enqueue
  <2>5. CASE Dispatch(w, j)
    <3>1. PICK verdict \in {"completed", "refused", "skipped"} :
            outcome' = [outcome EXCEPT ![j] = @ \union {verdict}]
      BY <2>5, DispatchFacts
    <3>2. verdict \in outcome'[j]
      BY <1>2, <3>1
    <3> QED BY <2>2, <2>3, <3>2 DEF Settled
  <2>6. CASE ~Enqueue(w) /\ ~Dispatch(w, j)
    <3>1. j \in handed[w] \/ Settled(j)
      BY <1>1, <2>2, <2>3, <2>6 DEF HandedOverIsSeen
    <3> QED BY <1>1, <2>2, <2>3, <2>6, <3>1, SettledStays
  <2> QED BY <2>4, <2>5, <2>6
<1>7. ASSUME NEW w \in Workers, Working(w) PROVE HandedOverIsSeen'
  <2> SUFFICES ASSUME NEW v \in Workers, worker'[v].step \in {"enqueued", "saved"}
               PROVE  worker'[v].job \in handed'[v] \/ Settled(worker[v].job)'
    BY DEF HandedOverIsSeen, Settled
  <2>1. CASE v = w
    BY <1>6, <1>7, <2>1
  <2>2. CASE v # w
    BY <1>1, <1>3, <1>7, <2>2, OneWorker
  <2> QED BY <2>1, <2>2
<1> QED BY <1>4, <1>5, <1>7, CalmActors

\* An unfinished job that has not been put off is in somebody's hands.
LEMMA ActiveIsOwnedStep ==
  ASSUME CalmStep
  PROVE  ActiveIsOwned'
<1>1. /\ Calm /\ PlaceInv /\ OnceInv /\ ActiveIsOwned /\ Next /\ OneRecovery
      /\ row \in [Jobs -> Row \union {NoRow}] /\ handed \in [Workers -> SUBSET Jobs]
  BY CalmActors, TypeFacts DEF Calm
<1>2. ASSUME NEW j \in Jobs, service'.key # 0, row'[j] # NoRow,
             row'[j].status \in Active, row'[j].status # "retryable_failure"
      PROVE  Holders(j)' \/ Overtaken(j)'
  <2>1. ASSUME NEW r \in Requests, RecoverActiveJobs(r) PROVE Holders(j)'
    <3>1. row' = row /\ service.current # 0
      BY <2>1 DEF RecoverActiveJobs
    <3>2. j \in ActiveJobs
      BY <1>2, <3>1 DEF ActiveJobs
    <3>3. PICK s \in Services : s = service.current
      BY <1>1, <3>1, ServiceFacts
    <3>4. pool[s].submitted = {}
      BY <2>1, RecoverFacts DEF Idle
    <3>5. PICK new : new = ActiveJobs \ pool[s].submitted
      OBVIOUS
    <3>6. ~(Line(s)' = Line(s) /\ pool'[s].submitted = pool[s].submitted) \/ j \in Line(s)'
      <4>1. pool \in [Services -> PoolState] /\ pool[s] \in PoolState
        BY <1>1, TypeFacts
      <4>2. PICK order : pool' = [pool EXCEPT ![s].submitted = @ \union new, ![s].pending = @ \o order]
        BY <2>1, <3>3, <3>5 DEF RecoverActiveJobs
      <4>3. pool'[s].submitted = pool[s].submitted \union new
        BY <4>1, <4>2 DEF PoolState
      <4> QED BY <3>2, <3>4, <3>5, <4>3
    <3>7. \A k \in Jobs : ~Submits(s, k)
      BY <1>1, <2>1, RecoverFacts, PlaceFacts DEF Submits, SubmitUpload, At
    <3>8. j \in Line(s)'
      <4>1. \A r2 \in Requests : Recovers(s, r2) => j \in Line(s)'
        BY <3>2, <3>4 DEF Recovers
      <4> QED BY <1>1, <2>1, <3>6, <3>7, <4>1, RequestLines DEF GetService
    <3> QED BY <3>8 DEF Holders
  <2>2. CASE \A r \in Requests : ~RecoverActiveJobs(r)
    <3>1. service.key # 0
      <4>1. service'.key = service.key \/ service.key # 0
        <5>1. service \in ServiceState
          BY <1>1, TypeFacts
        <5>2. CASE \E r \in Requests : GetService(r)
          BY <2>2, <5>1, <5>2 DEF GetService, ReadSettings, UseService, CreateService, ServiceState
        <5>3. CASE \E k \in Jobs : Upload(k)
          BY <5>3 DEF Upload, SaveUpload, SubmitUpload, SaveRejected
        <5>4. CASE ChangeSettings
          BY <5>1, <5>4 DEF ChangeSettings, ServiceState
        <5>5. CASE \E w \in Workers : Working(w)
          BY <1>1, <5>5, OneWorker
        <5> QED BY <5>2, <5>3, <5>4, <5>5, CalmActors
      <4> QED BY <1>2, <4>1
    <3>2. CASE row'[j] = row[j]
      <4>1. j \in ActiveJobs /\ ~RowIs(j, "retryable_failure")
        BY <1>2, <3>2 DEF ActiveJobs, RowIs
      <4>2. Holders(j) \/ Overtaken(j)
        BY <1>1, <3>1, <4>1, OwnedForm DEF ActiveIsOwned
      <4>3. CASE Holders(j)
        BY <1>2, <3>2, <4>3, HoldersKept
      <4>4. CASE Overtaken(j)
        BY <1>1, <3>2, <4>4, SettledStays DEF Overtaken, Settled, RowIs
      <4> QED BY <4>2, <4>3, <4>4
    <3>3. CASE SaveUpload(j)
      <4>1. request'[j].step = "saved"
        BY <1>1, <3>3, RequestMoves, PlaceFacts
      <4> QED BY <4>1 DEF Holders
    <3>4. ~SaveRejected(j)
      BY <1>1, PlaceFacts DEF SaveRejected, At, OneRecovery
    <3>5. ASSUME NEW w \in Workers, worker[w].job = j, worker[w].step \notin {"free", "done"},
                 Start(w) \/ SaveParsed(w) \/ SaveQueued(w) \/ Delivers(w)
          PROVE  Holders(j)' \/ Overtaken(j)'
      <4>1. Start(w) \/ SaveParsed(w) \/ SaveQueued(w) => worker'[w].job = j /\ worker'[w].step # "done"
        BY <1>1, <3>5, MoveFacts DEF Start, SaveParsed, SaveQueued
      <4>2. ASSUME RetryOrFailJob(w) PROVE worker'[w].job = j /\ worker'[w].step # "done"
        <5>1. Save(j, "retrying", FailureCount(worker[w].fails), NoPid) /\ Returns(w, "retry")
          BY <1>1, <1>2, <3>5, <4>2 DEF RetryOrFailJob, Save, Active
        <5> QED BY <1>1, <3>5, <5>1, MoveFacts
      <4>3. ~EnqueueFails(w)
        BY <1>1, <1>2, <3>5 DEF EnqueueFails, Save
      <4>4. SaveAgain(w) => j \in handed'[w] \/ Overtaken(j)'
        BY <1>1, <3>5, AgainIsOvertaken
      <4> QED BY <3>5, <4>1, <4>2, <4>3, <4>4 DEF Holders, Delivers
    <3>6. ASSUME row'[j].status \in {"completed", "failed"} PROVE FALSE
      BY <1>2, <3>6 DEF Active
    <3>7. ASSUME NEW w \in Workers, BeatSaves(w), beat[w].job = j PROVE Holders(j)'
      <4>1. ~beat[w].late /\ beat[w] # NoBeat
        BY <1>1, <3>7, QuietSteps DEF CalmStep, BeatSaves, Reporting
      <4>2. worker[w].step = "convert" /\ worker[w].job = j
        BY <1>1, <3>7, <4>1, PlaceFacts DEF WorkerIsSound
      <4>3. worker' = worker
        BY <3>7 DEF BeatSaves
      <4> QED BY <4>2, <4>3 DEF Holders
    <3> QED BY <1>1, <1>2, <3>2, <3>3, <3>4, <3>5, <3>6, <3>7, RowWriters DEF RowWritten
  <2> QED BY <2>1, <2>2
<1>3. ASSUME service'.key # 0, NEW j \in Jobs, row'[j] # NoRow, row'[j].status \in Active,
             ~RowIs(j, "retryable_failure")'
      PROVE  Owned(j)' \/ Overtaken(j)'
  BY <1>2, <1>3, OwnedForm DEF RowIs
<1> QED BY <1>3 DEF ActiveIsOwned, ActiveJobs

\* Nothing goes on: the state the API comes up in.
AtRest ==
  /\ service.key = 0
  /\ \A s \in Services : Idle(s)
  /\ \A w \in Workers : worker[w] = Free /\ handed[w] = {} /\ beat[w] = NoBeat
  /\ \A r \in Requests : request[r].step \in {"new", "answered", "aborted"}

LEMMA RestIsQuiet == (AtRest => QuietInv) /\ (AtRest' => QuietInv')
<1>1. \A j \in Jobs : j \in Requests
  BY DEF Requests
<1>2. ASSUME AtRest PROVE QuietInv
  <2>1. \A j \in Jobs : ~Underway(j)
    BY <1>1, <1>2, EmptyLine, AbsenceIsNone DEF AtRest, Underway, Idle, Line, Free
  <2> QED BY <1>1, <1>2, <2>1 DEF AtRest, QuietInv, OneRecovery, HandedOnce, SavedIsNew,
        CompletedIsFree, HandedOverIsSeen, BeatsAreActive, ActiveIsOwned, Reporting, Free
<1>3. ASSUME AtRest' PROVE QuietInv'
  <2>1. \A j \in Jobs : ~Underway(j)'
    BY <1>1, <1>3, EmptyLine, AbsenceIsNone DEF AtRest, Underway, Idle, Line, Free
  <2> QED BY <1>1, <1>3, <2>1 DEF AtRest, QuietInv, OneRecovery, HandedOnce, SavedIsNew,
        CompletedIsFree, HandedOverIsSeen, BeatsAreActive, ActiveIsOwned, Reporting, Free
<1> QED BY <1>2, <1>3

LEMMA RestsAtFirst ==
  /\ Init => AtRest
  /\ PlaceInv /\ Restart => AtRest'
<1>1. ASSUME Init PROVE AtRest
  BY <1>1 DEF Init, AtRest, Idle, NewPool, Asking
<1>2. ASSUME PlaceInv, Restart PROVE AtRest'
  <2>1. /\ service \in ServiceState /\ request \in [Requests -> RequestState]
        /\ pool \in [Services -> PoolState] /\ service.made \in Nat
        /\ \A s \in Services : s \in Nat
    BY <1>2, TypeFacts, ServiceFacts
  <2>2. /\ service' = [service EXCEPT !.current = 0, !.key = 0, !.boot = service.made]
        /\ pool' = [s \in Services |->
              IF s <= service.made THEN [NewPool EXCEPT !.open = FALSE] ELSE pool[s]]
        /\ worker' = [w \in Workers |-> Free] /\ handed' = [w \in Workers |-> {}]
        /\ beat' = [w \in Workers |-> NoBeat]
        /\ request' = [r \in Requests |-> IF At(r, "new") \/ At(r, "answered") THEN request[r]
                                          ELSE Asking("aborted")]
    BY <1>2 DEF Restart
  <2>3. service'.key = 0
    BY <2>1, <2>2 DEF ServiceState
  <2>4. /\ [NewPool EXCEPT !.open = FALSE].pending = << >> /\ [NewPool EXCEPT !.open = FALSE].submitted = {}
        /\ NewPool.pending = << >> /\ NewPool.submitted = {}
    BY DEF NewPool
  <2>5. \A s \in Services : s > service.made => pool[s] = NewPool
    BY <1>2, PlaceFacts DEF PoolIsSound
  <2>6. \A s \in Services : pool'[s].pending = << >> /\ pool'[s].submitted = {}
    BY <2>1, <2>2, <2>4, <2>5
  <2>7. \A w \in Workers : worker'[w] = Free /\ handed'[w] = {} /\ beat'[w] = NoBeat
    BY <2>2
  <2>8. \A r \in Requests : request'[r].step \in {"new", "answered", "aborted"}
    BY <2>2 DEF At, Asking
  <2> QED BY <2>3, <2>6, <2>7, <2>8 DEF AtRest, Idle
<1> QED BY <1>1, <1>2

\* While nothing has reached in, all this stays.
LEMMA QuietAlways ==
  /\ Init => QuietInv
  /\ PlaceInv /\ OnceInv /\ NewInv /\ QuietInv /\ [Next]_vars => QuietInv'
<1>1. ASSUME Init PROVE QuietInv
  BY <1>1, RestIsQuiet, RestsAtFirst
<1>2. ASSUME PlaceInv, OnceInv, NewInv, QuietInv, Next PROVE QuietInv'
  <2>1. CASE Restart
    BY <1>2, <2>1, RestIsQuiet, RestsAtFirst
  <2>2. CASE ~Restart
    <3>1. ASSUME Undisturbed' PROVE CalmStep
      <4>1. Undisturbed
        BY <1>2, <2>2, <3>1, QuietSteps
      <4> QED BY <1>2, <2>2, <3>1, <4>1 DEF QuietInv, Calm, CalmStep
    <3> QED BY <3>1, OneRecoveryStep, HandedOnceStep, SavedIsNewStep, CompletedIsFreeStep,
          HandedOverIsSeenStep, BeatsAreActiveStep, ActiveIsOwnedStep DEF QuietInv
  <2> QED BY <2>1, <2>2
<1>3. ASSUME QuietInv, UNCHANGED vars PROVE QuietInv'
  BY <1>3 DEF vars, QuietInv, Undisturbed, OneRecovery, HandedOnce, SavedIsNew, CompletedIsFree,
     HandedOverIsSeen, BeatsAreActive, ActiveIsOwned, ActiveJobs, Reporting, Owned, Underway, Settled,
     Overtaken, Nowhere, RowIs, Idle, Line, At, Doing
<1> QED BY <1>1, <1>2, <1>3

\* No job is stranded: while nothing has reached in, and once a service has
\* come up, every row in an unfinished status belongs to a request, a pool, a
\* worker process or a dispatch queue, or was put off, or says DISPATCH_QUEUED
\* after its dispatcher was through with it.
THEOREM NobodyIsForgotten == Spec => []NoJobIsStranded
<1>1. Init => PlaceInv /\ OnceInv /\ NewInv /\ QuietInv
  BY PlaceInit, OnceAlways, NewAlways, QuietAlways
<1>2. (PlaceInv /\ OnceInv /\ NewInv /\ QuietInv) /\ [Next]_vars
        => (PlaceInv /\ OnceInv /\ NewInv /\ QuietInv)'
  BY PlaceStep, OnceAlways, NewAlways, QuietAlways
<1>3. PlaceInv /\ OnceInv /\ NewInv /\ QuietInv => NoJobIsStranded
  BY DEF QuietInv, NoJobIsStranded, ActiveIsOwned
<1> QED BY <1>1, <1>2, <1>3, PTL DEF Spec

\* A completed job is not taken up again while nothing reaches in: no
\* dispatcher, heartbeat or request writes its row any more, and no worker
\* process but the one that handed it over.
THEOREM CompletedForGood == Spec => FinishedStaysFinished
<1>1. Init => PlaceInv /\ OnceInv /\ NewInv /\ QuietInv
  BY PlaceInit, OnceAlways, NewAlways, QuietAlways
<1>2. (PlaceInv /\ OnceInv /\ NewInv /\ QuietInv) /\ [Next]_vars
        => (PlaceInv /\ OnceInv /\ NewInv /\ QuietInv)'
  BY PlaceStep, OnceAlways, NewAlways, QuietAlways
<1>3. ASSUME PlaceInv, OnceInv, NewInv, QuietInv, [Next]_vars
      PROVE  [\A j \in Jobs :
                RowIs(j, "completed") /\ Undisturbed /\ Undisturbed' =>
                  \/ row'[j] = NoRow \/ row'[j].status = "completed"
                  \/ /\ row'[j].status = "dispatch_queued"
                     /\ \E w \in Workers : worker[w].job = j /\ worker[w].step \in {"enqueued", "saved"}]_vars
  <2>1. ASSUME Next, NEW j \in Jobs, RowIs(j, "completed"), Undisturbed, Undisturbed'
        PROVE  \/ row'[j] = NoRow \/ row'[j].status = "completed"
               \/ /\ row'[j].status = "dispatch_queued"
                  /\ \E w \in Workers : worker[w].job = j /\ worker[w].step \in {"enqueued", "saved"}
    <3>1. CASE Restart
      BY <2>1, <3>1 DEF Restart, RowIs
    <3>2. CASE ~Restart
      <4>1. CalmStep
        BY <1>3, <2>1, <3>2 DEF QuietInv, Calm, CalmStep
      <4> QED BY <2>1, <4>1, CompletedIsLeft DEF RowIs
    <3> QED BY <3>1, <3>2
  <2> QED BY <1>3, <2>1
<1> QED BY <1>1, <1>2, <1>3, PTL DEF Spec, FinishedStaysFinished

-----------------------------------------------------------------------------
(* When a row that says PARSING is right                                   *)

\* A process between the save of PARSING and the next save of the row.
AtWork(w, j) ==
  /\ worker[w].job = j
  /\ worker[w].step \in {"convert", "failed", "failing", "converted", "parsed"}

\* No process was killed, no heartbeat saved late, and the API not restarted.
Untroubled == faults.kills = 0 /\ faults.late = 0 /\ faults.restarts = 0

ParsingInv ==
  Untroubled => \A j \in Jobs : RowIs(j, "parsing") => \E w \in Workers : AtWork(w, j)

\* The process id in such a row, and in a heartbeat's copy of it, with one
\* service.
PidInv ==
  Untroubled /\ service.made <= 1 =>
    /\ \A j \in Jobs : RowIs(j, "parsing") => \E w \in Workers : row[j].pid = w /\ AtWork(w, j)
    /\ \A w \in Workers :
         Reporting(w) /\ ~beat[w].late /\ beat[w].copy.status = "parsing" => beat[w].copy.pid = w

\* A process is through with its parse only by a save of another status.
LEMMA WorkIsSaved ==
  ASSUME PlaceInv, NEW w \in Workers, Working(w), NEW j \in Jobs, AtWork(w, j)
  PROVE  AtWork(w, j)' \/ row'[j].status # "parsing"
<1>1. /\ worker \in [Workers -> WorkerState] /\ row \in [Jobs -> Row \union {NoRow}]
      /\ worker[w].job = j
  BY TypeFacts DEF AtWork
<1>2. CASE Take(w) \/ Start(w) \/ HandOver(w) \/ HandleSubmittedJobResult(w)
  BY <1>2 DEF Take, Start, HandOver, Enqueue, EnqueueFails, SaveQueued, SaveAgain,
     HandleSubmittedJobResult, Doing, AtWork
<1>3. CASE ConvertFails(w) \/ ConvertSucceeds(w)
  BY <1>1, <1>3, MoveFacts DEF ConvertFails, ConvertSucceeds, AtWork
<1>4. CASE ReadLatest(w)
  <2>1. PICK n \in Nat, y \in {"failing", "parsed"} :
          worker' = [worker EXCEPT ![w] = [step |-> y, job |-> worker[w].job, fails |-> n]]
    BY <1>4, LatestFails
  <2> QED BY <1>1, <2>1 DEF AtWork
<1>5. CASE RetryOrFailJob(w)
  <2>1. PICK status \in {"retrying", "failed"} : Save(j, status, FailureCount(worker[w].fails), NoPid)
    BY <1>1, <1>5 DEF RetryOrFailJob
  <2> QED BY <1>1, <2>1 DEF Save
<1>6. CASE SaveParsed(w)
  <2>1. Save(j, "parsed", worker[w].fails, NoPid)
    BY <1>1, <1>6 DEF SaveParsed
  <2> QED BY <1>1, <2>1 DEF Save
<1>7. CASE BeatStarts(w) \/ Reporter(w) \/ ProcessEnds(w) \/ \E k \in Jobs : Dispatch(w, k)
  <2>1. worker' = worker
    BY <1>7, DispatchFacts DEF BeatStarts, Reporter, BeatReads, BeatSaves, ProcessEnds
  <2> QED BY <2>1 DEF AtWork
<1> QED BY <1>2, <1>3, <1>4, <1>5, <1>6, <1>7 DEF Working, Process

\* PARSING is saved by a process at work: at its start, or by a heartbeat.
LEMMA ParsingSources ==
  ASSUME PlaceInv, NEW w \in Workers, Working(w), faults'.late = 0, NEW j \in Jobs, RowIs(j, "parsing")'
  PROVE  \/ row'[j] = row[j]
         \/ AtWork(w, j)' /\ row'[j].pid = w
         \/ /\ AtWork(w, j)' /\ row'[j] = beat[w].copy
            /\ Reporting(w) /\ ~beat[w].late
<1>1. /\ worker \in [Workers -> WorkerState] /\ row \in [Jobs -> Row \union {NoRow}]
      /\ WorkerIsSound(w) /\ faults \in FaultState
  BY TypeFacts, PlaceFacts
<1>2. row'[j].status = "parsing"
  BY DEF RowIs
<1>3. CASE Start(w)
  <2>1. worker[w].job \in Jobs /\ Save(worker[w].job, "parsing", worker[w].fails, w)
    BY <1>1, <1>3 DEF Start, Doing, WorkerIsSound
  <2>2. worker'[w].step = "convert" /\ worker'[w].job = worker[w].job
    BY <1>3, MoveFacts DEF Start
  <2>3. CASE j = worker[w].job
    <3>1. row'[j].pid = w
      BY <1>1, <2>1, <2>3 DEF Save
    <3> QED BY <2>2, <2>3, <3>1 DEF AtWork
  <2>4. CASE j # worker[w].job
    BY <1>1, <2>1, <2>4 DEF Save
  <2> QED BY <2>3, <2>4
<1>4. CASE SaveParsed(w) \/ SaveQueued(w) \/ Delivers(w)
  <2>1. worker[w].job \in Jobs
    BY <1>1, <1>4 DEF Delivers, RetryOrFailJob, SaveParsed, EnqueueFails, SaveQueued, SaveAgain, Doing,
       WorkerIsSound
  <2>2. \E status \in {"retrying", "failed", "parsed", "dispatch_queued", "retryable_failure"}, n \in Nat :
          Save(worker[w].job, status, n, NoPid)
    BY <1>4, WorkerFacts DEF Delivers, RetryOrFailJob, SaveParsed, EnqueueFails, SaveQueued, SaveAgain,
       FailureCount
  <2> QED BY <1>1, <1>2, <2>1, <2>2 DEF Save
<1>5. ASSUME NEW k \in Jobs, Dispatch(w, k) PROVE row'[j] = row[j]
  <2>1. row' = row \/ \E status \in {"completed", "failed"}, n \in Nat : Save(k, status, n, NoPid)
    BY <1>5, WorkerFacts, DispatchFacts
  <2> QED BY <1>1, <1>2, <2>1 DEF Save
<1>6. CASE BeatSaves(w)
  <2>1. Reporting(w) /\ row' = [row EXCEPT ![beat[w].job] = beat[w].copy] /\ worker' = worker
    BY <1>6 DEF BeatSaves
  <2>2. ~beat[w].late
    <3> SUFFICES ASSUME beat[w].late PROVE FALSE
      OBVIOUS
    <3>1. faults' = [faults EXCEPT !.late = @ + 1]
      BY <1>6 DEF BeatSaves
    <3>2. faults.late \in Nat /\ faults'.late = faults.late + 1
      BY <1>1, <3>1, PipelineBounds DEF FaultState
    <3> QED BY <3>2
  <2>3. AtWork(w, beat[w].job)
    BY <1>1, <2>1, <2>2 DEF WorkerIsSound, Reporting, AtWork
  <2>4. beat[w].job \in Jobs
    BY <2>1, WorkerFacts DEF Reporting
  <2>5. CASE j = beat[w].job
    <3>1. row'[j] = beat[w].copy
      BY <1>1, <2>1, <2>5
    <3>2. AtWork(w, j)'
      BY <2>1, <2>3, <2>5 DEF AtWork
    <3> QED BY <2>1, <2>2, <3>1, <3>2
  <2>6. CASE j # beat[w].job
    BY <1>1, <2>1, <2>6
  <2> QED BY <2>5, <2>6
<1>7. CASE Take(w) \/ ConvertFails(w) \/ ConvertSucceeds(w) \/ ReadLatest(w) \/ Enqueue(w)
           \/ BeatStarts(w) \/ BeatReads(w) \/ HandleSubmittedJobResult(w) \/ ProcessEnds(w)
  BY <1>7 DEF Take, ConvertFails, ConvertSucceeds, ReadLatest, Enqueue, BeatStarts, BeatReads,
     HandleSubmittedJobResult, ProcessEnds
<1> QED BY <1>3, <1>4, <1>5, <1>6, <1>7 DEF Working, Process, HandOver, Delivers, Reporter

\* A heartbeat that is not late has its copy of the row since it read it, while
\* its process converts.
LEMMA BeatMoves ==
  ASSUME PlaceInv, NEW w \in Workers, Working(w), Reporting(w)', ~beat'[w].late
  PROVE  \/ Reporting(w) /\ beat'[w] = beat[w]
         \/ AtWork(w, worker[w].job) /\ worker[w].job \in Jobs /\ beat'[w].copy = row[worker[w].job]
<1>1. beat \in [Workers -> Beat \union {NoBeat}] /\ WorkerIsSound(w)
  BY TypeFacts, PlaceFacts
<1>2. beat'[w] # NoBeat /\ beat'[w].copy # NoRow
  BY DEF Reporting
<1>3. CASE ConvertFails(w) \/ ConvertSucceeds(w)
  <2>1. beat' = [beat EXCEPT ![w] = IF beat[w] = NoBeat THEN beat[w] ELSE [beat[w] EXCEPT !.late = TRUE]]
    BY <1>3 DEF ConvertFails, ConvertSucceeds, StopBeat
  <2>2. beat[w] # NoBeat /\ beat'[w] = [beat[w] EXCEPT !.late = TRUE]
    BY <1>1, <1>2, <2>1
  <2>3. beat[w] \in Beat
    BY <1>1, <2>2
  <2>4. beat'[w].late
    BY <2>2, <2>3 DEF Beat
  <2> QED BY <2>4
<1>4. CASE BeatStarts(w)
  BY <1>1, <1>2, <1>4 DEF BeatStarts
<1>5. CASE BeatReads(w)
  <2>1. beat[w] # NoBeat /\ beat[w] \in Beat
    BY <1>1, <1>5 DEF BeatReads
  <2>2. beat' = [beat EXCEPT ![w] =
           IF row[beat[w].job] = NoRow THEN NoBeat ELSE [beat[w] EXCEPT !.copy = row[beat[w].job]]]
    BY <1>5 DEF BeatReads
  <2>3. beat'[w] = [beat[w] EXCEPT !.copy = row[beat[w].job]]
    BY <1>1, <1>2, <2>2
  <2>4. beat'[w].copy = row[beat[w].job] /\ beat'[w].late = beat[w].late /\ beat[w].job \in Jobs
    BY <2>1, <2>3 DEF Beat
  <2>5. worker[w].step = "convert" /\ beat[w].job = worker[w].job
    BY <1>1, <2>1, <2>4 DEF WorkerIsSound
  <2> QED BY <2>4, <2>5 DEF AtWork
<1>6. CASE BeatSaves(w)
  BY <1>1, <1>2, <1>6 DEF BeatSaves
<1>7. CASE \/ Take(w) \/ Start(w) \/ ReadLatest(w) \/ RetryOrFailJob(w) \/ SaveParsed(w) \/ HandOver(w)
           \/ HandleSubmittedJobResult(w) \/ \E k \in Jobs : Dispatch(w, k)
  <2>1. beat' = beat
    BY <1>7, DispatchFacts DEF Take, Start, ReadLatest, RetryOrFailJob, SaveParsed, HandOver, Enqueue,
       EnqueueFails, SaveQueued, SaveAgain, HandleSubmittedJobResult
  <2> QED BY <2>1 DEF Reporting
<1>8. CASE ProcessEnds(w)
  BY <1>1, <1>2, <1>8 DEF ProcessEnds
<1> QED BY <1>3, <1>4, <1>5, <1>6, <1>7, <1>8 DEF Working, Process, Reporter

\* Trouble that has happened has happened.
LEMMA TroubleStays ==
  ASSUME PlaceInv, Next, Untroubled'
  PROVE  Untroubled /\ faults'.late = 0 /\ ~Restart /\ (service'.made <= 1 => service.made <= 1)
<1>1. faults \in FaultState /\ service \in ServiceState
  BY TypeFacts
<1>2. /\ faults.kills \in Nat /\ faults.late \in Nat /\ faults.restarts \in Nat
      /\ service.made \in Nat
  BY <1>1, PipelineBounds DEF FaultState, ServiceState
<1>3. ASSUME NEW w \in Workers, Working(w)
      PROVE  Untroubled /\ service' = service
  <2>1. service' = service /\ faults'.kills = faults.kills
    BY <1>3, OneWorker
  <2>2. faults' = faults \/ faults' = [faults EXCEPT !.late = @ + 1]
    BY <1>3 DEF Working, Process, Reporter, Take, Start, ConvertFails, ConvertSucceeds, ReadLatest,
       RetryOrFailJob, SaveParsed, HandOver, Enqueue, EnqueueFails, SaveQueued, SaveAgain, Dispatch,
       BeatStarts, BeatReads, BeatSaves, HandleSubmittedJobResult, ProcessEnds
  <2> QED BY <1>1, <1>2, <2>1, <2>2 DEF Untroubled, FaultState
<1>4. ASSUME NEW j \in Jobs, RemovalActs(j)
      PROVE  Untroubled
  <2>1. PICK n \in {0, 1} : faults' = [faults EXCEPT !.kills = faults.kills + n]
    BY <1>4, ActsFacts
  <2> QED BY <1>1, <1>2, <2>1 DEF Untroubled, FaultState
<1>5. ASSUME NEW j \in Jobs, RemovalReads(j) \/ Upload(j)
      PROVE  Untroubled
  BY <1>1, <1>5 DEF RemovalReads, Upload, SaveUpload, SubmitUpload, SaveRejected, Untroubled, FaultState,
     PipelineUnchanged
<1>6. ASSUME NEW r \in Requests, GetService(r)
      PROVE  Untroubled /\ (service'.made <= 1 => service.made <= 1)
  <2>1. faults' = faults
    BY <1>6 DEF GetService, ReadSettings, UseService, CreateService, RecoverActiveJobs
  <2>2. \/ service' = service
        \/ service' = [service EXCEPT !.current = service.made + 1, !.made = service.made + 1]
        \/ service' = [service EXCEPT !.key = request[r].key]
    BY <1>6 DEF GetService, ReadSettings, UseService, CreateService, RecoverActiveJobs
  <2>3. service'.made = service.made \/ service'.made = service.made + 1
    BY <1>1, <2>2 DEF ServiceState
  <2> QED BY <1>2, <2>1, <2>3 DEF Untroubled
<1>7. ASSUME ChangeSettings \/ \E s \in Services : PoolBreaks(s)
      PROVE  Untroubled
  BY <1>1, <1>7 DEF ChangeSettings, PoolBreaks, Untroubled, FaultState, ServiceState
<1>8. ~Restart
  <2> SUFFICES ASSUME Restart PROVE FALSE
    OBVIOUS
  <2>1. faults'.restarts = faults.restarts + 1
    BY <1>1 DEF Restart, FaultState
  <2> QED BY <1>2, <2>1 DEF Untroubled
<1>9. \A j \in Jobs : RemovalReads(j) \/ RemovalActs(j) \/ Upload(j) => service' = service
  BY DEF RemovalReads, RemovalActs, Upload, SaveUpload, SubmitUpload, SaveRejected
<1>10. ChangeSettings => service'.made = service.made
  BY <1>1 DEF ChangeSettings, ServiceState
<1>11. \A s \in Services : PoolBreaks(s) => service' = service
  BY DEF PoolBreaks
<1>12. faults'.late = 0
  BY DEF Untroubled
<1> QED BY <1>3, <1>4, <1>5, <1>6, <1>7, <1>8, <1>9, <1>10, <1>11, <1>12, NextActors

\* Without trouble, only processes and their threads save PARSING, or stop or
\* begin to work.
LEMMA OthersStay ==
  ASSUME PlaceInv, Next, Untroubled', \A w \in Workers : ~Working(w)
  PROVE  /\ worker' = worker /\ beat' = beat
         /\ \A j \in Jobs : RowIs(j, "parsing")' => row'[j] = row[j]
<1>1. /\ worker \in [Workers -> WorkerState] /\ row \in [Jobs -> Row \union {NoRow}]
      /\ beat \in [Workers -> Beat \union {NoBeat}] /\ faults \in FaultState
  BY TypeFacts
<1>2. Untroubled /\ ~Restart
  BY TroubleStays
<1>3. ASSUME NEW k \in Jobs, Upload(k)
      PROVE  /\ worker' = worker /\ beat' = beat
             /\ \A j \in Jobs : RowIs(j, "parsing")' => row'[j] = row[j]
  <2>1. worker' = worker /\ beat' = beat
    BY <1>3 DEF Upload, SaveUpload, SubmitUpload, SaveRejected, PipelineUnchanged
  <2>2. row' = row \/ Save(k, "parser_queued", 0, NoPid) \/ Save(k, "retryable_failure", 0, NoPid)
    BY <1>3 DEF Upload, SaveUpload, SubmitUpload, SaveRejected
  <2> QED BY <1>1, <2>1, <2>2 DEF Save, RowIs
<1>4. ASSUME NEW k \in Jobs, RemovalActs(k)
      PROVE  /\ worker' = worker /\ beat' = beat
             /\ \A j \in Jobs : RowIs(j, "parsing")' => row'[j] = row[j]
  <2>1. PICK hit \in SUBSET Workers :
           /\ Cardinality(hit) \in {0, 1} /\ (Cardinality(hit) = 0 => hit = {})
           /\ worker' = [w \in Workers |->
                 IF w \in hit THEN [worker[w] EXCEPT !.step = "dead"] ELSE worker[w]]
           /\ beat' = [w \in Workers |-> IF w \in hit THEN NoBeat ELSE beat[w]]
           /\ faults' = [faults EXCEPT !.kills = faults.kills + Cardinality(hit)]
    BY <1>4, ActsFacts
  <2>2. faults'.kills = faults.kills + Cardinality(hit) /\ faults.kills = 0 /\ faults'.kills = 0
    BY <1>1, <1>2, <2>1 DEF FaultState, Untroubled
  <2>3. hit = {}
    BY <2>1, <2>2
  <2>4. worker' = worker /\ beat' = beat
    BY <1>1, <2>1, <2>3
  <2>5. row' = [row EXCEPT ![k] = NoRow]
    BY <1>4 DEF RemovalActs
  <2> QED BY <1>1, <2>4, <2>5 DEF RowIs
<1>5. ASSUME NEW s \in Services, PoolBreaks(s) PROVE FALSE
  <2>1. \E w \in Workers : worker[w].step = "dead"
    BY <1>5 DEF PoolBreaks, Doing
  <2> QED BY <1>2, <2>1, PlaceFacts DEF KillInv, Untroubled
<1>6. ASSUME \/ \E r \in Requests : GetService(r)
             \/ ChangeSettings
             \/ \E k \in Jobs : RemovalReads(k)
      PROVE  UNCHANGED <<row, worker, beat>>
  BY <1>6 DEF GetService, ReadSettings, UseService, CreateService, RecoverActiveJobs, ChangeSettings,
     RemovalReads, PipelineUnchanged
<1> QED BY <1>2, <1>3, <1>4, <1>5, <1>6, NextActors

\* Without trouble, a row that says PARSING has a process at work.
LEMMA ParsingStays ==
  ASSUME PlaceInv, ParsingInv, [Next]_vars
  PROVE  ParsingInv'
<1>1. CASE UNCHANGED vars
  BY <1>1 DEF vars, ParsingInv, Untroubled, RowIs, AtWork
<1>2. CASE Next
  <2> SUFFICES ASSUME Untroubled', NEW j \in Jobs, RowIs(j, "parsing")'
               PROVE  \E v \in Workers : AtWork(v, j)'
    BY DEF ParsingInv
  <2>1. Untroubled /\ faults'.late = 0
    BY <1>2, TroubleStays
  <2>2. CASE row'[j] = row[j]
    <3>1. PICK v \in Workers : AtWork(v, j)
      BY <2>1, <2>2 DEF ParsingInv, RowIs
    <3>2. CASE Working(v)
      BY <3>1, <3>2, WorkIsSaved DEF RowIs
    <3>3. ASSUME NEW w \in Workers, w # v, Working(w) PROVE AtWork(v, j)'
      BY <3>1, <3>3, OneWorker DEF AtWork
    <3>4. CASE \A w \in Workers : ~Working(w)
      BY <1>2, <3>1, <3>4, OthersStay DEF AtWork
    <3> QED BY <3>2, <3>3, <3>4
  <2>3. CASE row'[j] # row[j]
    BY <1>2, <2>1, <2>3, ParsingSources, OthersStay
  <2> QED BY <2>2, <2>3
<1> QED BY <1>1, <1>2

\* With one service, a job that is being worked on is in one process.
LEMMA AtWorkOnce ==
  ASSUME PlaceInv, OnceInv, service.made <= 1, NEW j \in Jobs, NEW v \in Workers, NEW w \in Workers,
         AtWork(v, j), AtWork(w, j)
  PROVE  v = w
<1>1. \A u \in Workers : AtWork(u, j) => service.boot < u[1] /\ u[1] <= service.made
  BY BusyFacts DEF AtWork
<1>2. v[1] \in Services /\ w[1] \in Services /\ service \in ServiceState
  BY TypeFacts, PlaceFacts
<1>3. v[1] = w[1]
  BY <1>1, <1>2, PipelineBounds DEF Services, ServiceState
<1> QED BY <1>2, <1>3 DEF OnceInv, OnceIn, AtWork

\* With one service, the row and the heartbeats go on naming the process at
\* work.
LEMMA PidStays ==
  ASSUME PlaceInv, OnceInv, PidInv, [Next]_vars
  PROVE  PidInv'
<1>1. CASE UNCHANGED vars
  BY <1>1 DEF vars, PidInv, Untroubled, RowIs, AtWork, Reporting
<1>2. CASE Next
  <2> SUFFICES ASSUME Untroubled', service'.made <= 1
               PROVE  /\ \A j \in Jobs : RowIs(j, "parsing")' =>
                           \E v \in Workers : row'[j].pid = v /\ AtWork(v, j)'
                      /\ \A w \in Workers :
                           Reporting(w)' /\ ~beat'[w].late /\ beat'[w].copy.status = "parsing" =>
                             beat'[w].copy.pid = w
    BY DEF PidInv
  <2>1. Untroubled /\ faults'.late = 0 /\ service.made <= 1
    BY <1>2, TroubleStays
  <2>2. ASSUME NEW j \in Jobs, RowIs(j, "parsing")'
        PROVE  \E v \in Workers : row'[j].pid = v /\ AtWork(v, j)'
    <3>1. CASE row'[j] = row[j]
      <4>1. PICK v \in Workers : row[j].pid = v /\ AtWork(v, j)
        BY <2>1, <2>2, <3>1 DEF PidInv, RowIs
      <4>2. AtWork(v, j)'
        <5>1. CASE Working(v)
          BY <2>2, <4>1, <5>1, WorkIsSaved DEF RowIs
        <5>2. ASSUME NEW w \in Workers, w # v, Working(w) PROVE AtWork(v, j)'
          BY <4>1, <5>2, OneWorker DEF AtWork
        <5>3. CASE \A w \in Workers : ~Working(w)
          BY <1>2, <4>1, <5>3, OthersStay DEF AtWork
        <5> QED BY <5>1, <5>2, <5>3
      <4>3. row'[j].pid = v
        BY <3>1, <4>1
      <4> QED BY <4>2, <4>3
    <3>2. CASE row'[j] # row[j]
      <4>1. PICK w \in Workers : Working(w)
        BY <1>2, <2>2, <3>2, OthersStay
      <4>2. \/ AtWork(w, j)' /\ row'[j].pid = w
            \/ AtWork(w, j)' /\ row'[j] = beat[w].copy /\ Reporting(w) /\ ~beat[w].late
        BY <2>1, <2>2, <3>2, <4>1, ParsingSources
      <4>3. row'[j].pid = w
        BY <2>1, <2>2, <4>2 DEF PidInv, RowIs
      <4> QED BY <4>2, <4>3
    <3> QED BY <3>1, <3>2
  <2>3. ASSUME NEW w \in Workers, Reporting(w)', ~beat'[w].late, beat'[w].copy.status = "parsing"
        PROVE  beat'[w].copy.pid = w
    <3>1. CASE beat'[w] = beat[w]
      BY <2>1, <2>3, <3>1 DEF PidInv, Reporting
    <3>2. CASE beat'[w] # beat[w]
      <4>1. Working(w)
        BY <1>2, <3>2, OneWorker, OthersStay
      <4>2. AtWork(w, worker[w].job) /\ worker[w].job \in Jobs /\ beat'[w].copy = row[worker[w].job]
        BY <2>3, <3>2, <4>1, BeatMoves
      <4>3. row[worker[w].job] # NoRow
        BY <2>3, <4>2 DEF Reporting
      <4>4. \E v \in Workers : row[worker[w].job].pid = v /\ AtWork(v, worker[w].job)
        BY <2>1, <2>3, <4>2, <4>3 DEF PidInv, RowIs
      <4> QED BY <2>1, <4>2, <4>4, AtWorkOnce
    <3> QED BY <3>1, <3>2
  <2> QED BY <2>2, <2>3
<1> QED BY <1>1, <1>2

\* The rule of docs/embedding-handoff.md:46 fails only after a kill, a heartbeat
\* that outlived its conversion, or a restart: otherwise a row says PARSING only
\* while a worker process has the job, however many pools parse side by side.
THEOREM ParsingFailsOnlyInTrouble == Spec => [](Untroubled => ParsingIsRunning)
<1>1. Init => ParsingInv
  BY DEF Init, ParsingInv, RowIs
<1>2. PlaceInv /\ ParsingInv /\ [Next]_vars => ParsingInv'
  BY ParsingStays
<1>3. ParsingInv => (Untroubled => ParsingIsRunning)
  BY DEF ParsingInv, ParsingIsRunning, AtWork
<1> QED BY <1>1, <1>2, <1>3, PlaceInit, PlaceStep, PTL DEF Spec

\* The process a row names is the one that parses the job.
PidIsRight ==
  \A j \in Jobs :
    RowIs(j, "parsing") => row[j].pid \in Workers /\ worker[row[j].pid].job = j

\* The process id DELETE reads from a PARSING row is that of the process that
\* has the job, as long as one service was enough and there was no such
\* trouble: neither the coordinator's saves nor the heartbeats' mix up ids.
THEOREM RowNamesItsProcess == Spec => [](Untroubled /\ service.made <= 1 => PidIsRight)
<1>1. Init => PidInv
  BY DEF Init, PidInv, RowIs, Reporting
<1>2. PlaceInv /\ OnceInv /\ PidInv /\ [Next]_vars => PidInv'
  BY PidStays
<1>3. Init => OnceInv
  BY OnceAlways
<1>4. PidInv => (Untroubled /\ service.made <= 1 => PidIsRight)
  BY DEF PidInv, PidIsRight, AtWork
<1> QED BY <1>1, <1>2, <1>4, PlaceInit, PlaceStep, OnceAlways, PTL DEF Spec

-----------------------------------------------------------------------------
(* When the budget of a job is exact                                       *)

\* A conversion of the job has failed and its process has yet to say so.
Uncounted(j) == \E w \in Workers : worker[w].job = j /\ worker[w].step \in {"failed", "failing"}

\* The row of a job counts its failures, but one perhaps.
RowCounts(j) ==
  row[j] # NoRow =>
    /\ failures[j] <= row[j].fails + 1
    /\ failures[j] <= row[j].fails \/ Uncounted(j)

\* A process knows of them what it will save.
WorkerCounts(w, j) ==
  worker[w].job = j =>
    /\ worker[w].step \in {"start", "convert", "converted", "parsed", "hand_over", "enqueued", "saved"} =>
         failures[j] <= worker[w].fails
    /\ worker[w].step \in {"failed", "failing"} => failures[j] <= worker[w].fails + 1
    /\ worker[w].step \in {"start", "convert", "retry"} => failures[j] <= MaxRetries

\* A heartbeat that will save has the whole count.
BeatCounts(w, j) ==
  Reporting(w) /\ ~beat[w].late /\ beat[w].job = j => failures[j] <= beat[w].copy.fails

\* A job that is new or waits for a parse has budget left.
HasLeft(j) ==
  /\ failures[j] <= MaxRetries + 1
  /\ request[j].step \in {"new", "settings", "recover", "resolved", "saved"} \/ service.key = 0 =>
       failures[j] = 0
  /\ \A s \in Services : j \in Line(s) => failures[j] <= MaxRetries

Counts(j) ==
  /\ RowCounts(j) /\ HasLeft(j)
  /\ \A w \in Workers : WorkerCounts(w, j) /\ BeatCounts(w, j)

CountInv == Untroubled /\ service.made <= 1 => \A j \in Jobs : Counts(j)

\* A step of somebody while all this holds and goes on to hold.
CountStep ==
  /\ CalmStep /\ Untroubled /\ Untroubled' /\ service.made <= 1
  /\ \A j \in Jobs : Counts(j)

\* What each of these steps can rely on.
LEMMA CountFacts ==
  ASSUME CountStep
  PROVE  /\ Calm /\ PlaceInv /\ PlaceInv' /\ OnceInv /\ NewInv /\ Next
         /\ OneRecovery /\ SavedIsNew
         /\ failures \in [Jobs -> 0..MaxFailures] /\ MaxFailures \in Nat /\ MaxRetries \in Nat
         /\ MaxRetries < MaxFailures
         /\ \A j \in Jobs : failures[j] \in Nat /\ Counts(j)
<1>1. Calm /\ PlaceInv /\ OnceInv /\ Next
  BY CalmActors DEF CountStep
<1>2. PlaceInv'
  BY <1>1, PlaceStep
<1>3. failures \in [Jobs -> 0..MaxFailures] /\ MaxFailures \in Nat /\ MaxRetries \in Nat
      /\ MaxRetries < MaxFailures
  BY <1>1, TypeFacts, PipelineBounds
<1> QED BY <1>1, <1>2, <1>3 DEF Calm, CountStep

\* Only a failed conversion counts, and it counts one.
LEMMA FailsMoves ==
  ASSUME PlaceInv, NEW w \in Workers, Working(w), NEW j \in Jobs
  PROVE  \/ failures'[j] = failures[j] /\ (ConvertFails(w) => worker[w].job # j)
         \/ /\ ConvertFails(w) /\ worker[w].job = j
            /\ failures'[j] = IF failures[j] = MaxFailures THEN failures[j] ELSE failures[j] + 1
<1>1. failures \in [Jobs -> 0..MaxFailures]
  BY TypeFacts
<1>2. CASE ConvertFails(w)
  BY <1>1, <1>2 DEF ConvertFails
<1>3. CASE ~ConvertFails(w)
  <2>1. failures' = failures
    BY <1>3 DEF Working, Process, Reporter, Take, Start, ConvertSucceeds, ReadLatest,
       RetryOrFailJob, SaveParsed, HandOver, Enqueue, EnqueueFails, SaveQueued, SaveAgain, Dispatch,
       BeatStarts, BeatReads, BeatSaves, HandleSubmittedJobResult, ProcessEnds
  <2> QED BY <1>3, <2>1
<1> QED BY <1>2, <1>3

\* The other processes, which have other jobs, go on knowing theirs.
LEMMA OthersCount ==
  ASSUME CountStep, NEW w \in Workers, Working(w), NEW j \in Jobs, NEW v \in Workers, v # w
  PROVE  WorkerCounts(v, j)' /\ BeatCounts(v, j)'
<1>1. PlaceInv /\ Calm /\ WorkerCounts(v, j) /\ BeatCounts(v, j)
  BY CountFacts DEF Counts
<1>2. worker'[v] = worker[v] /\ beat'[v] = beat[v]
  BY <1>1, OneWorker
<1>3. CASE failures'[j] = failures[j]
  BY <1>1, <1>2, <1>3 DEF WorkerCounts, BeatCounts, Reporting
<1>4. CASE worker[w].job = j
  <2>1. worker[v].job # j
    BY <1>1, <1>4, CalmFacts
  <2>2. beat[v] # NoBeat /\ ~beat[v].late => beat[v].job # j
    BY <1>1, <2>1, PlaceFacts DEF WorkerIsSound
  <2> QED BY <1>2, <2>1, <2>2 DEF WorkerCounts, BeatCounts, Reporting
<1> QED BY <1>1, <1>3, <1>4, FailsMoves

\* A failure stays uncounted until its process saves it.
LEMMA UncountedStays ==
  ASSUME CountStep, NEW w \in Workers, Working(w), NEW j \in Jobs, Uncounted(j),
         RetryOrFailJob(w) => worker[w].job # j
  PROVE  Uncounted(j)'
<1>1. PICK v \in Workers : worker[v].job = j /\ worker[v].step \in {"failed", "failing"}
  BY DEF Uncounted
<1>2. PlaceInv /\ worker \in [Workers -> WorkerState]
  BY CountFacts, TypeFacts
<1>3. CASE v # w
  <2>1. worker'[v] = worker[v]
    BY <1>2, <1>3, OneWorker
  <2> QED BY <1>1, <2>1 DEF Uncounted
<1>4. CASE v = w /\ ReadLatest(w)
  <2>1. PICK n \in Nat, y \in {"failing", "parsed"} :
          worker' = [worker EXCEPT ![w] = [step |-> y, job |-> worker[w].job, fails |-> n]]
    BY <1>2, <1>4, LatestFails
  <2>2. worker'[w].step = "failing" /\ worker'[w].job = j
    BY <1>1, <1>2, <1>4 DEF ReadLatest, Doing
  <2> QED BY <2>2 DEF Uncounted
<1>5. CASE v = w /\ ~ReadLatest(w)
  <2>1. ~Take(w) /\ ~Start(w) /\ ~ConvertFails(w) /\ ~ConvertSucceeds(w) /\ ~SaveParsed(w) /\ ~HandOver(w)
        /\ ~HandleSubmittedJobResult(w)
    BY <1>1, <1>5 DEF Take, Start, ConvertFails, ConvertSucceeds, SaveParsed, HandOver, Enqueue,
       EnqueueFails, SaveQueued, SaveAgain, HandleSubmittedJobResult, Doing
  <2>2. worker' = worker
    BY <1>1, <1>5, <2>1, DispatchFacts DEF Working, Process, Reporter, BeatStarts, BeatReads, BeatSaves,
       ProcessEnds
  <2> QED BY <1>1, <2>2 DEF Uncounted
<1> QED BY <1>3, <1>4, <1>5

\* While a process is not at a failure, its job has none uncounted.
LEMMA CountedAtWork ==
  ASSUME CountStep, NEW w \in Workers, NEW j \in Jobs,
         \/ worker[w].job = j /\ worker[w].step \notin {"failed", "failing"}
         \/ \E s \in Services : j \in Line(s)
  PROVE  ~Uncounted(j) /\ (row[j] # NoRow => failures[j] <= row[j].fails)
<1>1. Calm /\ RowCounts(j)
  BY CountFacts DEF Counts
<1>2. ~Uncounted(j)
  BY <1>1, CalmFacts DEF Uncounted
<1> QED BY <1>1, <1>2 DEF RowCounts

\* Before a conversion fails, its job has budget left.
LEMMA FailureFits ==
  ASSUME CountStep, NEW w \in Workers, ConvertFails(w), NEW j \in Jobs, worker[w].job = j
  PROVE  /\ worker[w].step = "convert" /\ worker'[w].step = "failed" /\ worker'[w].job = j
         /\ worker'[w].fails = worker[w].fails
         /\ failures'[j] = failures[j] + 1 /\ failures[j] <= MaxRetries
         /\ failures[j] <= worker[w].fails
<1>1. worker[w].step = "convert" /\ PlaceInv /\ WorkerCounts(w, j)
  BY CountFacts DEF ConvertFails, Doing, Counts
<1>2. /\ worker'[w].step = "failed" /\ worker'[w].job = j /\ worker'[w].fails = worker[w].fails
  BY <1>1, MoveFacts DEF ConvertFails
<1>3. failures[j] <= MaxRetries /\ failures[j] <= worker[w].fails
  BY <1>1 DEF WorkerCounts
<1>4. failures[j] # MaxFailures
  BY <1>3, CountFacts
<1>5. failures'[j] = failures[j] + 1
  BY <1>1, <1>4, FailsMoves DEF Working, Process
<1> QED BY <1>1, <1>2, <1>3, <1>5

\* What the process that goes a step knows of its job's failures.
LEMMA ProcessCounts ==
  ASSUME CountStep, NEW w \in Workers, Working(w), NEW j \in Jobs
  PROVE  WorkerCounts(w, j)'
<1>1. /\ PlaceInv /\ OnceInv /\ WorkerCounts(w, j) /\ HasLeft(j) /\ RowCounts(j) /\ failures[j] \in Nat
      /\ MaxRetries \in Nat
      /\ worker \in [Workers -> WorkerState]
  BY CountFacts, TypeFacts DEF Counts
<1>2. ASSUME worker'[w].job = j, ~ConvertFails(w) PROVE failures'[j] = failures[j]
  BY <1>1, <1>2, FailsMoves
<1>3. CASE Take(w)
  <2>1. PICK k \in Jobs :
           /\ k \in Line(w[1]) /\ worker'[w].job = k
           /\ IF row[k] = NoRow THEN worker'[w].step = "done"
              ELSE worker'[w].step = "start" /\ worker'[w].fails = row[k].fails
    BY <1>1, <1>3, TakeFacts
  <2>2. CASE k = j
    <3>1. w[1] \in Services /\ j \in Line(w[1])
      BY <1>1, <2>1, <2>2, WorkerFacts
    <3>2. row[j] # NoRow => failures[j] <= row[j].fails
      BY <3>1, CountedAtWork
    <3>3. failures[j] <= MaxRetries
      BY <1>1, <3>1 DEF HasLeft
    <3>4. ~ConvertFails(w)
      BY <1>3 DEF Take, ConvertFails, Doing
    <3>5. failures'[j] = failures[j]
      BY <1>2, <2>1, <2>2, <3>4
    <3> QED BY <2>1, <2>2, <3>2, <3>3, <3>5 DEF WorkerCounts
  <2> QED BY <2>1, <2>2 DEF WorkerCounts
<1>4. CASE ConvertFails(w)
  <2>1. worker'[w].step = "failed" /\ worker'[w].job = worker[w].job
    BY <1>1, <1>4, MoveFacts DEF ConvertFails
  <2>2. CASE worker[w].job = j
    <3>1. worker'[w].fails = worker[w].fails /\ failures'[j] = failures[j] + 1
          /\ failures[j] <= worker[w].fails /\ worker[w].fails \in Nat
      BY <1>1, <1>4, <2>2, FailureFits, WorkerFacts
    <3>2. failures'[j] <= worker'[w].fails + 1
      BY <1>1, <3>1
    <3> QED BY <2>1, <3>2 DEF WorkerCounts
  <2> QED BY <2>1, <2>2 DEF WorkerCounts
<1>5. CASE Start(w) \/ ConvertSucceeds(w) \/ SaveParsed(w) \/ Enqueue(w) \/ SaveQueued(w)
  <2>1. /\ worker'[w].job = worker[w].job /\ worker'[w].fails = worker[w].fails
        /\ \/ worker[w].step = "start" /\ worker'[w].step = "convert"
           \/ worker[w].step = "convert" /\ worker'[w].step = "converted"
           \/ worker[w].step = "parsed" /\ worker'[w].step = "hand_over"
           \/ worker[w].step = "hand_over" /\ worker'[w].step = "enqueued"
           \/ worker[w].step = "enqueued" /\ worker'[w].step = "saved"
    BY <1>1, <1>5, MoveFacts DEF Start, ConvertSucceeds, SaveParsed, Enqueue, SaveQueued, Doing
  <2>2. ~ConvertFails(w)
    BY <1>1, <1>5, <2>1, MoveFacts DEF ConvertFails
  <2> QED BY <1>1, <1>2, <2>1, <2>2 DEF WorkerCounts
<1>6. CASE ReadLatest(w)
  <2>1. ~ConvertFails(w) /\ worker[w].step \in {"failed", "converted"}
    BY <1>6 DEF ReadLatest, ConvertFails, Doing
  <2>2. worker' = [worker EXCEPT ![w] =
           [step |-> IF worker[w].step = "failed" THEN "failing" ELSE "parsed",
            job |-> worker[w].job,
            fails |-> IF row[worker[w].job] = NoRow THEN worker[w].fails ELSE row[worker[w].job].fails]]
    BY <1>6 DEF ReadLatest, Doing
  <2>3. /\ worker'[w].job = worker[w].job
        /\ worker'[w].step = IF worker[w].step = "failed" THEN "failing" ELSE "parsed"
        /\ worker'[w].fails = IF row[worker[w].job] = NoRow THEN worker[w].fails ELSE row[worker[w].job].fails
    BY <1>1, <2>2
  <2>4. CASE worker[w].job = j
    <3>1. failures'[j] = failures[j]
      BY <1>2, <2>1, <2>3, <2>4
    <3>2. CASE worker[w].step = "failed"
      <4>1. failures[j] <= worker[w].fails + 1 /\ (row[j] # NoRow => failures[j] <= row[j].fails + 1)
        BY <1>1, <2>4, <3>2 DEF WorkerCounts, RowCounts
      <4> QED BY <2>3, <2>4, <3>1, <3>2, <4>1 DEF WorkerCounts
    <3>3. CASE worker[w].step = "converted"
      <4>1. failures[j] <= worker[w].fails /\ (row[j] # NoRow => failures[j] <= row[j].fails)
        BY <1>1, <2>4, <3>3, CountedAtWork DEF WorkerCounts
      <4> QED BY <2>3, <2>4, <3>1, <3>3, <4>1 DEF WorkerCounts
    <3> QED BY <2>1, <3>2, <3>3
  <2> QED BY <2>3, <2>4 DEF WorkerCounts
<1>7. CASE RetryOrFailJob(w)
  <2>1. worker[w].step = "failing" /\ worker'[w].job = worker[w].job
        /\ (worker'[w].step = "done" \/ (worker'[w].step = "retry" /\ HasBudget(worker[w].fails)))
    BY <1>1, <1>7, MoveFacts DEF RetryOrFailJob, Doing
  <2>2. ~ConvertFails(w)
    BY <2>1 DEF ConvertFails, Doing
  <2>3. CASE worker[w].job = j /\ worker'[w].step = "retry"
    <3>1. failures[j] <= worker[w].fails + 1 /\ worker[w].fails \in Nat
      BY <1>1, <2>1, <2>3, WorkerFacts DEF WorkerCounts
    <3>2. worker[w].fails + 1 <= MaxRetries
      BY <2>1, <2>3 DEF HasBudget, FailureCount
    <3>3. failures[j] <= MaxRetries
      BY <1>1, <3>1, <3>2
    <3> QED BY <1>2, <2>1, <2>2, <2>3, <3>3 DEF WorkerCounts
  <2> QED BY <2>1, <2>3 DEF WorkerCounts
<1>8. CASE EnqueueFails(w) \/ SaveAgain(w)
  BY <1>1, <1>8, MoveFacts DEF EnqueueFails, SaveAgain, WorkerCounts
<1>9. CASE HandleSubmittedJobResult(w)
  BY <1>1, <1>9, HandleFacts, AbsenceIsNone DEF Free, WorkerCounts
<1>10. CASE BeatStarts(w) \/ Reporter(w) \/ ProcessEnds(w) \/ \E k \in Jobs : Dispatch(w, k)
  <2>1. worker' = worker /\ failures' = failures
    BY <1>10, DispatchFacts DEF BeatStarts, Reporter, BeatReads, BeatSaves, ProcessEnds
  <2> QED BY <1>1, <2>1 DEF WorkerCounts
<1> QED BY <1>3, <1>4, <1>5, <1>6, <1>7, <1>8, <1>9, <1>10 DEF Working, Process, HandOver

\* What its heartbeat will save.
LEMMA HeartbeatCounts ==
  ASSUME CountStep, NEW w \in Workers, Working(w), NEW j \in Jobs
  PROVE  BeatCounts(w, j)'
<1>1. /\ PlaceInv /\ BeatCounts(w, j) /\ beat \in [Workers -> Beat \union {NoBeat}]
      /\ WorkerIsSound(w)
  BY CountFacts, TypeFacts, PlaceFacts DEF Counts
<1> SUFFICES ASSUME Reporting(w)', ~beat'[w].late, beat'[w].job = j
             PROVE  failures'[j] <= beat'[w].copy.fails
  BY DEF BeatCounts
<1>2. beat'[w] # NoBeat /\ beat'[w].copy # NoRow
  BY DEF Reporting
<1>3. CASE ConvertFails(w) \/ ConvertSucceeds(w)
  <2>1. beat' = [beat EXCEPT ![w] = IF beat[w] = NoBeat THEN beat[w] ELSE [beat[w] EXCEPT !.late = TRUE]]
    BY <1>3 DEF ConvertFails, ConvertSucceeds, StopBeat
  <2>2. beat[w] # NoBeat /\ beat'[w] = [beat[w] EXCEPT !.late = TRUE]
    BY <1>1, <1>2, <2>1
  <2>3. beat[w] \in Beat
    BY <1>1, <2>2
  <2>4. beat'[w].late
    BY <2>2, <2>3 DEF Beat
  <2> QED BY <2>4
<1>4. CASE BeatStarts(w)
  BY <1>1, <1>2, <1>4 DEF BeatStarts
<1>5. CASE BeatReads(w)
  <2>1. beat[w] # NoBeat /\ beat[w] \in Beat /\ failures' = failures
    BY <1>1, <1>5 DEF BeatReads
  <2>2. beat' = [beat EXCEPT ![w] =
           IF row[beat[w].job] = NoRow THEN NoBeat ELSE [beat[w] EXCEPT !.copy = row[beat[w].job]]]
    BY <1>5 DEF BeatReads
  <2>3. beat'[w] = [beat[w] EXCEPT !.copy = row[beat[w].job]]
    BY <1>1, <1>2, <2>2
  <2>4. beat'[w].copy = row[j] /\ beat'[w].late = beat[w].late /\ beat[w].job = j
    BY <2>1, <2>3 DEF Beat
  <2>5. worker[w].step = "convert" /\ worker[w].job = j
    BY <1>1, <2>1, <2>4 DEF WorkerIsSound
  <2>6. failures[j] <= row[j].fails
    BY <1>2, <2>4, <2>5, CountedAtWork
  <2> QED BY <2>1, <2>4, <2>6
<1>6. CASE BeatSaves(w)
  BY <1>1, <1>2, <1>6 DEF BeatSaves
<1>7. CASE \/ Take(w) \/ Start(w) \/ ReadLatest(w) \/ RetryOrFailJob(w) \/ SaveParsed(w) \/ HandOver(w)
           \/ HandleSubmittedJobResult(w) \/ \E k \in Jobs : Dispatch(w, k)
  <2>1. beat' = beat /\ failures' = failures
    BY <1>7, DispatchFacts DEF Take, Start, ReadLatest, RetryOrFailJob, SaveParsed, HandOver, Enqueue,
       EnqueueFails, SaveQueued, SaveAgain, HandleSubmittedJobResult
  <2> QED BY <1>1, <2>1 DEF Reporting, BeatCounts
<1>8. CASE ProcessEnds(w)
  BY <1>1, <1>2, <1>8 DEF ProcessEnds
<1> QED BY <1>3, <1>4, <1>5, <1>6, <1>7, <1>8 DEF Working, Process, Reporter

\* What a process or its thread saves has the whole count.
LEMMA SavedCounts ==
  ASSUME CountStep, NEW w \in Workers, Working(w), NEW j \in Jobs, row'[j] # NoRow
  PROVE  \/ row'[j] = row[j] /\ (RetryOrFailJob(w) => worker[w].job # j)
         \/ failures'[j] <= row'[j].fails
         \/ row[j] # NoRow /\ row'[j].fails = row[j].fails /\ failures'[j] = failures[j] /\ worker' = worker
<1>1. /\ PlaceInv /\ row \in [Jobs -> Row \union {NoRow}] /\ WorkerCounts(w, j) /\ BeatCounts(w, j)
      /\ failures[j] \in Nat
  BY CountFacts, TypeFacts DEF Counts
<1>2. CASE Start(w) \/ SaveParsed(w) \/ EnqueueFails(w) \/ SaveQueued(w) \/ SaveAgain(w)
  <2>1. /\ worker[w].job \in Jobs /\ worker[w].step \in {"start", "parsed", "hand_over", "enqueued", "saved"}
        /\ failures' = failures
    BY <1>1, <1>2, WorkerFacts DEF Start, SaveParsed, EnqueueFails, SaveQueued, SaveAgain, Doing
  <2>2. \E status, pid : Save(worker[w].job, status, worker[w].fails, pid)
    BY <1>2 DEF Start, SaveParsed, EnqueueFails, SaveQueued, SaveAgain
  <2>3. CASE j = worker[w].job
    <3>1. row'[j].fails = worker[w].fails
      BY <1>1, <2>2, <2>3 DEF Save
    <3> QED BY <1>1, <2>1, <2>3, <3>1 DEF WorkerCounts
  <2>4. CASE j # worker[w].job
    <3>1. row'[j] = row[j]
      BY <1>1, <2>2, <2>4 DEF Save
    <3> QED BY <2>4, <3>1
  <2> QED BY <2>3, <2>4
<1>3. CASE RetryOrFailJob(w)
  <2>1. worker[w].job \in Jobs /\ worker[w].step = "failing" /\ failures' = failures
    BY <1>1, <1>3, WorkerFacts DEF RetryOrFailJob, Doing
  <2>2. \E status : Save(worker[w].job, status, worker[w].fails + 1, NoPid)
    BY <1>3 DEF RetryOrFailJob, FailureCount
  <2>3. CASE j = worker[w].job
    <3>1. row'[j].fails = worker[w].fails + 1
      BY <1>1, <2>2, <2>3 DEF Save
    <3> QED BY <1>1, <2>1, <2>3, <3>1 DEF WorkerCounts
  <2>4. CASE j # worker[w].job
    <3>1. row'[j] = row[j]
      BY <1>1, <2>2, <2>4 DEF Save
    <3> QED BY <2>4, <3>1
  <2> QED BY <2>3, <2>4
<1>4. ASSUME NEW k \in Jobs, Dispatch(w, k)
      PROVE  \/ row'[j] = row[j] /\ ~RetryOrFailJob(w)
             \/ row[j] # NoRow /\ row'[j].fails = row[j].fails /\ failures'[j] = failures[j] /\ worker' = worker
  <2>1. worker' = worker /\ failures' = failures
    BY <1>4, DispatchFacts
  <2>2. \/ row' = row
        \/ row[k] # NoRow /\ \E status : Save(k, status, row[k].fails, NoPid)
    BY <1>4, DispatchFacts
  <2>3. ~RetryOrFailJob(w)
    <3> SUFFICES ASSUME RetryOrFailJob(w) PROVE FALSE
      OBVIOUS
    <3>1. worker[w].step = "failing" /\ worker'[w].step \in {"retry", "done"}
      BY <1>1, MoveFacts DEF RetryOrFailJob, Doing
    <3> QED BY <2>1, <3>1
  <2>4. CASE k = j /\ row' # row
    BY <1>1, <2>1, <2>2, <2>4 DEF Save
  <2>5. CASE k # j \/ row' = row
    <3>1. row'[j] = row[j]
      BY <1>1, <2>2, <2>5 DEF Save
    <3> QED BY <2>3, <3>1
  <2> QED BY <2>4, <2>5
<1>5. CASE BeatSaves(w)
  <2>1. Reporting(w) /\ ~beat[w].late /\ row' = [row EXCEPT ![beat[w].job] = beat[w].copy]
        /\ failures' = failures
    BY <1>1, <1>5, QuietSteps, CountFacts DEF BeatSaves, CountStep, CalmStep
  <2>2. worker[w].step = "convert" /\ beat[w].job = worker[w].job
    BY <1>1, <2>1, PlaceFacts DEF WorkerIsSound, Reporting
  <2>3. CASE beat[w].job = j
    BY <1>1, <2>1, <2>3 DEF BeatCounts
  <2>4. CASE beat[w].job # j
    <3>1. row'[j] = row[j]
      BY <1>1, <2>1, <2>4
    <3> QED BY <2>2, <2>4, <3>1
  <2> QED BY <2>3, <2>4
<1>6. CASE \/ Take(w) \/ ConvertFails(w) \/ ConvertSucceeds(w) \/ ReadLatest(w) \/ Enqueue(w)
           \/ BeatStarts(w) \/ BeatReads(w) \/ HandleSubmittedJobResult(w) \/ ProcessEnds(w)
  <2>1. row' = row
    BY <1>6 DEF Take, ConvertFails, ConvertSucceeds, ReadLatest, Enqueue, BeatStarts, BeatReads,
       HandleSubmittedJobResult, ProcessEnds
  <2> QED BY <1>3, <2>1
<1> QED BY <1>2, <1>3, <1>4, <1>5, <1>6 DEF Working, Process, HandOver, Reporter

\* So a row goes on counting.
LEMMA RowGoesOnCounting ==
  ASSUME CountStep, NEW w \in Workers, Working(w), NEW j \in Jobs
  PROVE  RowCounts(j)'
<1> SUFFICES ASSUME row'[j] # NoRow
             PROVE  /\ failures'[j] <= row'[j].fails + 1
                    /\ failures'[j] <= row'[j].fails \/ Uncounted(j)'
  BY DEF RowCounts
<1>1. /\ PlaceInv /\ PlaceInv' /\ RowCounts(j) /\ failures[j] \in Nat
  BY CountFacts DEF Counts
<1>2. row' \in [Jobs -> Row \union {NoRow}] /\ failures' \in [Jobs -> 0..MaxFailures]
  BY <1>1 DEF PlaceInv, LTypeOK
<1>3. failures'[j] \in Nat /\ row'[j].fails \in Nat
  BY <1>2, CountFacts DEF Row
<1>4. CASE failures'[j] <= row'[j].fails
  BY <1>3, <1>4
<1>5. CASE /\ row[j] # NoRow /\ row'[j].fails = row[j].fails /\ failures'[j] = failures[j]
           /\ worker' = worker
  BY <1>1, <1>5 DEF RowCounts, Uncounted
<1>6. CASE row'[j] = row[j] /\ (RetryOrFailJob(w) => worker[w].job # j)
  <2>1. CASE ConvertFails(w) /\ worker[w].job = j
    <3>1. /\ worker[w].step = "convert" /\ worker'[w].step = "failed" /\ worker'[w].job = j
          /\ failures'[j] = failures[j] + 1
      BY <2>1, FailureFits
    <3>2. failures[j] <= row[j].fails
      BY <1>6, <2>1, <3>1, CountedAtWork
    <3>3. Uncounted(j)'
      BY <3>1 DEF Uncounted
    <3> QED BY <1>1, <1>3, <1>6, <3>1, <3>2, <3>3
  <2>2. CASE ~(ConvertFails(w) /\ worker[w].job = j)
    <3>1. failures'[j] = failures[j]
      BY <1>1, <2>2, FailsMoves
    <3>2. Uncounted(j) => Uncounted(j)'
      BY <1>6, UncountedStays
    <3> QED BY <1>1, <1>6, <3>1, <3>2 DEF RowCounts
  <2> QED BY <2>1, <2>2
<1> QED BY <1>4, <1>5, <1>6, SavedCounts

\* Jobs that are new or wait go on having budget left, when a process steps.
LEMMA WaitingKeepsLeft ==
  ASSUME CountStep, NEW w \in Workers, Working(w), NEW j \in Jobs
  PROVE  HasLeft(j)'
<1>1. /\ PlaceInv /\ OnceInv /\ NewInv /\ OneRecovery /\ SavedIsNew /\ Calm
      /\ HasLeft(j) /\ WorkerCounts(w, j) /\ failures[j] \in Nat /\ MaxRetries \in Nat
      /\ pool \in [Services -> PoolState] /\ w[1] \in Services
  BY CountFacts, TypeFacts, PlaceFacts DEF Counts
<1>2. request' = request /\ service' = service
  BY <1>1, OneWorker
<1>3. CASE ConvertFails(w) /\ worker[w].job = j
  <2>1. /\ failures'[j] = failures[j] + 1 /\ failures[j] <= MaxRetries
        /\ worker[w].step = "convert"
    BY <1>3, FailureFits
  <2>2. request[j].step \notin {"new", "settings", "recover", "resolved", "saved"}
    BY <1>1, <1>3 DEF NewInv, Untouched, SavedIsNew, Nowhere
  <2>3. service.key # 0
    BY <1>1, <2>1 DEF OneRecovery, Idle, Free
  <2>4. \A s \in Services : j \notin Line(s)
    BY <1>1, <1>3, CalmFacts
  <2>5. pool' = pool
    BY <1>3 DEF ConvertFails, ServiceUnchanged
  <2>6. \A s \in Services : j \notin Line(s)'
    BY <2>4, <2>5 DEF Line
  <2> QED BY <1>1, <1>2, <2>1, <2>2, <2>3, <2>6 DEF HasLeft
<1>4. CASE failures'[j] = failures[j]
  <2>1. ASSUME NEW s \in Services, j \in Line(s)' PROVE failures[j] <= MaxRetries
    <3>1. CASE j \in Line(s)
      BY <1>1, <3>1 DEF HasLeft
    <3>2. CASE j \notin Line(s)
      <4>1. s = w[1]
        BY <1>1, <2>1, <3>2, OneWorker DEF Line
      <4>2. CASE Take(w)
        BY <1>1, <2>1, <3>2, <4>1, <4>2, TakeFacts DEF Line
      <4>3. CASE HandleSubmittedJobResult(w)
        <5>1. worker[w].job = j /\ worker[w].step = "retry"
          BY <1>1, <2>1, <3>2, <4>1, <4>3, HandleFacts
        <5> QED BY <1>1, <5>1 DEF WorkerCounts
      <4>4. CASE ~Take(w) /\ ~HandleSubmittedJobResult(w)
        <5>1. pool' = pool
          BY <4>4 DEF Working, Process, Reporter, Start, ConvertFails, ConvertSucceeds, ReadLatest,
             RetryOrFailJob, SaveParsed, HandOver, Enqueue, EnqueueFails, SaveQueued, SaveAgain, Dispatch,
             BeatStarts, BeatReads, BeatSaves, ProcessEnds, ServiceUnchanged
        <5> QED BY <2>1, <3>2, <5>1 DEF Line
      <4> QED BY <4>2, <4>3, <4>4
    <3> QED BY <3>1, <3>2
  <2> QED BY <1>1, <1>2, <1>4, <2>1 DEF HasLeft
<1> QED BY <1>1, <1>3, <1>4, FailsMoves

\* Nobody but a worker process fails, and only a new job, without failures, or
\* a recovery, before there are any, is put in a queue by anybody else.
LEMMA OutsideCounts ==
  ASSUME CountStep, \A w \in Workers : ~Working(w), NEW j \in Jobs
  PROVE  Counts(j)'
<1>1. /\ PlaceInv /\ NewInv /\ OneRecovery /\ Calm /\ Next /\ Untroubled' /\ ~Restart
      /\ Counts(j) /\ failures[j] \in Nat /\ MaxRetries \in Nat
      /\ request \in [Requests -> RequestState] /\ row \in [Jobs -> Row \union {NoRow}]
      /\ j \in Requests
  BY CountFacts, TypeFacts, PlaceFacts DEF CountStep, CalmStep
<1>2. worker' = worker /\ beat' = beat
  BY <1>1, OthersStay
<1>3. failures' = failures
  <2>1. \A s \in Services : ~PoolBreaks(s)
    BY <1>1, QuietSteps DEF CountStep, CalmStep
  <2> QED BY <1>1, <2>1, NextActors DEF GetService, ReadSettings, UseService, CreateService,
        RecoverActiveJobs, Upload, SaveUpload, SubmitUpload, SaveRejected, ChangeSettings,
        RemovalReads, RemovalActs, PipelineUnchanged
<1>4. row'[j] = row[j] \/ row'[j] = NoRow \/ (failures[j] = 0 /\ row'[j].fails = 0)
  <2>1. CASE SaveUpload(j)
    <3>1. row'[j].fails = 0
      BY <1>1, <2>1 DEF SaveUpload, Save
    <3>2. failures[j] = 0
      BY <1>1, <2>1, RequestMoves DEF Counts, HasLeft
    <3> QED BY <3>1, <3>2
  <2>2. ~SaveRejected(j)
    BY <1>1, RequestMoves DEF OneRecovery
  <2>3. \A w \in Workers :
          ~Start(w) /\ ~SaveParsed(w) /\ ~SaveQueued(w) /\ ~Delivers(w) /\ ~Dispatch(w, j) /\ ~BeatSaves(w)
    BY DEF Working, Process, HandOver, Delivers, Reporter
  <2> QED BY <1>1, <2>1, <2>2, <2>3, RowWriters DEF RowWritten
<1>5. RowCounts(j)'
  BY <1>1, <1>2, <1>3, <1>4 DEF Counts, RowCounts, Uncounted
<1>6. \A w \in Workers : WorkerCounts(w, j)' /\ BeatCounts(w, j)'
  BY <1>1, <1>2, <1>3 DEF Counts, WorkerCounts, BeatCounts, Reporting
<1>7. request'[j].step \in {"new", "settings", "recover", "resolved", "saved"} => failures[j] = 0
  BY <1>1, RequestMoves DEF Counts, HasLeft
<1>8. service'.key = 0 => failures[j] = 0
  <2> SUFFICES ASSUME service'.key = 0, service.key # 0 PROVE FALSE
    BY <1>1 DEF Counts, HasLeft
  <2>1. service \in ServiceState
    BY <1>1, TypeFacts
  <2>2. ASSUME NEW r \in Requests, GetService(r) PROVE FALSE
    <3>1. ~RecoverActiveJobs(r)
      BY <1>1, RequestMoves DEF OneRecovery
    <3>2. service' = service \/ service' = [service EXCEPT !.current = service.made + 1, !.made = @ + 1]
      BY <2>2, <3>1 DEF GetService, ReadSettings, UseService, CreateService
    <3> QED BY <2>1, <3>2 DEF ServiceState
  <2>3. ASSUME ~(\E r \in Requests : GetService(r)) PROVE service'.key = service.key
    <3>1. \A s \in Services : ~PoolBreaks(s)
      BY <1>1, QuietSteps DEF CountStep, CalmStep
    <3>2. service' = service \/ service' = [service EXCEPT !.settings = @ + 1]
      BY <1>1, <2>3, <3>1, NextActors DEF Upload, SaveUpload, SubmitUpload, SaveRejected, ChangeSettings,
         RemovalReads, RemovalActs
    <3> QED BY <2>1, <3>2 DEF ServiceState
  <2> QED BY <2>2, <2>3
<1>9. ASSUME NEW s \in Services, j \in Line(s)' PROVE failures[j] <= MaxRetries
  <2>1. CASE j \in Line(s)
    BY <1>1, <2>1 DEF Counts, HasLeft
  <2>2. CASE j \notin Line(s)
    <3>1. CASE \E r \in Requests : Recovers(s, r)
      <4>1. service.key = 0
        BY <1>1, <3>1, RequestMoves DEF Recovers, OneRecovery
      <4> QED BY <1>1, <4>1 DEF Counts, HasLeft
    <3>2. CASE Submits(s, j)
      <4>1. request[j].step = "saved"
        BY <1>1, <3>2, RequestMoves DEF Submits
      <4> QED BY <1>1, <4>1 DEF Counts, HasLeft
    <3>3. CASE \/ \E r \in Requests : GetService(r)
               \/ \E k \in Jobs : Upload(k)
               \/ ChangeSettings
      BY <1>1, <1>9, <2>2, <3>1, <3>2, <3>3, RequestLines DEF Submits
    <3>4. CASE \E k \in Jobs : RemovalReads(k) \/ RemovalActs(k)
      <4>1. pool' = pool
        BY <3>4 DEF RemovalReads, RemovalActs
      <4> QED BY <1>9, <2>2, <4>1 DEF Line
    <3> QED BY <1>1, <3>3, <3>4, QuietSteps, NextActors DEF CountStep, CalmStep
  <2> QED BY <2>1, <2>2
<1>10. HasLeft(j)'
  BY <1>1, <1>3, <1>7, <1>8, <1>9 DEF Counts, HasLeft
<1> QED BY <1>5, <1>6, <1>10 DEF Counts

\* All in all.
LEMMA CountStays ==
  ASSUME PlaceInv, OnceInv, NewInv, QuietInv, CountInv, [Next]_vars
  PROVE  CountInv'
<1>1. CASE UNCHANGED vars
  BY <1>1 DEF vars, CountInv, Untroubled, Counts, RowCounts, WorkerCounts, BeatCounts, HasLeft, Uncounted,
     Reporting, Line
<1>2. CASE Next
  <2> SUFFICES ASSUME Untroubled', service'.made <= 1, NEW j \in Jobs PROVE Counts(j)'
    BY DEF CountInv
  <2>1. Untroubled /\ ~Restart /\ service.made <= 1
    BY <1>2, TroubleStays
  <2>2. Undisturbed /\ Undisturbed'
    <3>1. PlaceInv'
      BY <1>2, PlaceStep
    <3>2. service.boot \in Nat /\ service.made \in Nat /\ service'.boot \in Nat /\ service'.made \in Nat
      BY <3>1, TypeFacts, PipelineBounds DEF PlaceInv, LTypeOK, ServiceState
    <3> QED BY <2>1, <3>2 DEF Undisturbed, Untroubled
  <2>3. CountStep
    BY <1>2, <2>1, <2>2 DEF CountStep, CalmStep, Calm, QuietInv, CountInv
  <2>4. ASSUME NEW w \in Workers, Working(w) PROVE Counts(j)'
    <3>1. \A v \in Workers : WorkerCounts(v, j)' /\ BeatCounts(v, j)'
      BY <2>3, <2>4, OthersCount, ProcessCounts, HeartbeatCounts
    <3> QED BY <2>3, <2>4, <3>1, RowGoesOnCounting, WaitingKeepsLeft DEF Counts
  <2> QED BY <2>3, <2>4, OutsideCounts
<1> QED BY <1>1, <1>2

\* A job is not converted again once its budget is spent, and FAILED says that
\* it was spent to the last conversion.
BudgetIsExact ==
  \A j \in Jobs :
    /\ failures[j] <= MaxRetries + 1
    /\ RowIs(j, "failed") /\ "refused" \notin outcome[j] => failures[j] = MaxRetries + 1
    /\ row[j] # NoRow /\ ~Uncounted(j) /\ failures[j] < MaxFailures => row[j].fails = failures[j]

\* parser_max_retry_attempts is kept to exactly, as long as one service was
\* enough and there was no such trouble: no save of a copy of the row, by the
\* coordinator or a heartbeat, loses a failure and so grants another attempt.
THEOREM BudgetIsKept == Spec => [](Untroubled /\ service.made <= 1 => BudgetIsExact)
<1> DEFINE AllHold == PlaceInv /\ OnceInv /\ NewInv /\ QuietInv
<1>1. Init => AllHold
  BY PlaceInit, OnceAlways, NewAlways, QuietAlways
<1>2. AllHold /\ [Next]_vars => AllHold'
  BY PlaceStep, OnceAlways, NewAlways, QuietAlways
<1>3. Init => CountInv
  <2> SUFFICES ASSUME Init, NEW j \in Jobs PROVE Counts(j)
    BY DEF CountInv
  <2>1. /\ row[j] = NoRow /\ failures[j] = 0 /\ MaxRetries \in Nat
        /\ \A w \in Workers : worker[w] = Free /\ beat[w] = NoBeat
        /\ \A s \in Services : Line(s) = {}
    BY EmptyLine, PipelineBounds DEF Init, Line, NewPool
  <2> QED BY <2>1, AbsenceIsNone DEF Counts, RowCounts, HasLeft, WorkerCounts, BeatCounts, Reporting, Free
<1>4. AllHold /\ CountInv /\ [Next]_vars => CountInv'
  BY CountStays
<1>5. PlaceInv /\ CountInv /\ FailuresAreReal => (Untroubled /\ service.made <= 1 => BudgetIsExact)
  <2> SUFFICES ASSUME PlaceInv, CountInv, FailuresAreReal, Untroubled, service.made <= 1, NEW j \in Jobs
               PROVE  /\ failures[j] <= MaxRetries + 1
                      /\ RowIs(j, "failed") /\ "refused" \notin outcome[j] => failures[j] = MaxRetries + 1
                      /\ row[j] # NoRow /\ ~Uncounted(j) /\ failures[j] < MaxFailures
                           => row[j].fails = failures[j]
    BY DEF BudgetIsExact
  <2>1. failures[j] \in Nat /\ MaxRetries \in Nat
    BY TypeFacts, PipelineBounds
  <2>2. failures[j] <= MaxRetries + 1 /\ (row[j] # NoRow /\ ~Uncounted(j) => failures[j] <= row[j].fails)
    BY DEF CountInv, Counts, RowCounts, HasLeft
  <2>3. /\ RowIs(j, "failed") /\ "refused" \notin outcome[j] => failures[j] > MaxRetries
        /\ row[j] # NoRow /\ failures[j] < MaxFailures => row[j].fails <= failures[j]
    BY DEF FailuresAreReal
  <2>4. row[j] # NoRow => row[j].fails \in Nat
    BY TypeFacts DEF Row
  <2> QED BY <2>1, <2>2, <2>3, <2>4
<1> QED BY <1>1, <1>2, <1>3, <1>4, <1>5, FailuresAreReported, PTL DEF Spec

-----------------------------------------------------------------------------
\* The life of a row

RowIn(j, statuses) == row[j] # NoRow => row[j].status \in statuses

\* What a process is at, and what the row of its job says.
WorkerFits(w, j) ==
  worker[w].job = j =>
    /\ worker[w].step = "start" => RowIn(j, {"parser_queued", "retrying"})
    /\ worker[w].step \in {"convert", "failed", "failing", "converted", "parsed"} => RowIn(j, {"parsing"})
    /\ worker[w].step = "hand_over" => RowIn(j, {"parsed"})
    /\ worker[w].step \in {"enqueued", "saved"} => RowIn(j, {"parsed", "dispatch_queued", "completed", "failed"})
    /\ worker[w].step = "retry" => RowIn(j, {"retrying"})

BeatFits(w) == Reporting(w) /\ ~beat[w].late => beat[w].copy.status = "parsing"

HandedFits(w, j) == j \in handed[w] => RowIn(j, {"parsed", "dispatch_queued"})

\* Before a process has it.
WaitingFits(j) ==
  /\ \A s \in Services : j \in Line(s) => RowIn(j, {"parser_queued", "retrying"})
  /\ request[j].step = "saved" => RowIn(j, {"parser_queued"})
  /\ service.key = 0 => row[j] = NoRow

StagesFit ==
  /\ \A w \in Workers : BeatFits(w)
  /\ \A j \in Jobs : WaitingFits(j) /\ \A w \in Workers : WorkerFits(w, j) /\ HandedFits(w, j)

StageInv == Untroubled /\ service.made <= 1 => StagesFit

\* A step of somebody while all this holds and goes on to hold.
StageStep == CalmStep /\ Untroubled /\ Untroubled' /\ service.made <= 1 /\ StagesFit

\* What each of these steps can rely on.
LEMMA StageFacts ==
  ASSUME StageStep
  PROVE  /\ Calm /\ PlaceInv /\ PlaceInv' /\ OnceInv /\ NewInv /\ Next /\ ~Restart /\ Undisturbed'
         /\ OneRecovery /\ SavedIsNew /\ HandedOnce
         /\ row \in [Jobs -> Row \union {NoRow}] /\ row' \in [Jobs -> Row \union {NoRow}]
<1>1. Calm /\ PlaceInv /\ OnceInv /\ Next
  BY CalmActors DEF StageStep
<1>2. PlaceInv'
  BY <1>1, PlaceStep
<1>3. row \in [Jobs -> Row \union {NoRow}] /\ row' \in [Jobs -> Row \union {NoRow}]
  BY <1>1, <1>2 DEF PlaceInv, LTypeOK
<1> QED BY <1>1, <1>2, <1>3 DEF Calm, StageStep, CalmStep

\* A save shows the status it is of, and touches no other row.
LEMMA SavedStatus ==
  ASSUME row \in [Jobs -> Row \union {NoRow}], NEW k \in Jobs, NEW status, NEW n, NEW pid,
         Save(k, status, n, pid), NEW j \in Jobs
  PROVE  IF j = k THEN row'[j].status = status ELSE row'[j] = row[j]
BY DEF Save

\* A process or its threads change the row of their job only, and to what
\* comes next.
StageWritten(w, j) ==
  \/ /\ worker[w].job = j
     /\ \/ Start(w) /\ row'[j].status = "parsing"
        \/ RetryOrFailJob(w) /\ row'[j].status = "retrying" /\ worker'[w].step = "retry"
        \/ RetryOrFailJob(w) /\ row'[j].status = "failed" /\ worker'[w].step = "done"
        \/ SaveParsed(w) /\ row'[j].status = "parsed"
        \/ EnqueueFails(w) /\ row'[j].status = "retryable_failure"
        \/ (SaveQueued(w) \/ SaveAgain(w)) /\ row'[j].status = "dispatch_queued"
        \/ BeatSaves(w) /\ worker[w].step = "convert" /\ row'[j].status = "parsing"
  \/ Dispatch(w, j) /\ row[j] # NoRow /\ row'[j].status \in {"completed", "failed"}

LEMMA WorkersWriteStages ==
  ASSUME StageStep, NEW w \in Workers, Working(w), NEW j \in Jobs
  PROVE  row'[j] = row[j] \/ StageWritten(w, j)
<1>1. /\ PlaceInv /\ row \in [Jobs -> Row \union {NoRow}] /\ BeatFits(w)
      /\ worker[w].step \notin {"free", "dead"} => worker[w].job \in Jobs
  BY StageFacts, WorkerFacts DEF StageStep, StagesFit
<1>2. CASE Start(w)
  BY <1>1, <1>2, SavedStatus DEF Start, Doing, StageWritten
<1>3. CASE RetryOrFailJob(w)
  <2>1. worker[w].job \in Jobs
    BY <1>1, <1>3 DEF RetryOrFailJob, Doing
  <2>2. \/ /\ Save(worker[w].job, "retrying", FailureCount(worker[w].fails), NoPid)
           /\ Returns(w, "retry")
        \/ /\ Save(worker[w].job, "failed", FailureCount(worker[w].fails), NoPid)
           /\ Returns(w, "done")
    BY <1>3 DEF RetryOrFailJob
  <2> QED BY <1>1, <1>3, <2>1, <2>2, SavedStatus, MoveFacts DEF StageWritten
<1>4. CASE SaveParsed(w)
  BY <1>1, <1>4, SavedStatus DEF SaveParsed, Doing, StageWritten
<1>5. CASE EnqueueFails(w) \/ SaveQueued(w) \/ SaveAgain(w)
  <2>1. worker[w].job \in Jobs
    BY <1>1, <1>5 DEF EnqueueFails, SaveQueued, SaveAgain, Doing
  <2>2. Save(worker[w].job, IF EnqueueFails(w) THEN "retryable_failure" ELSE "dispatch_queued",
             worker[w].fails, NoPid)
    <3>1. EnqueueFails(w) => ~SaveQueued(w) /\ ~SaveAgain(w)
      BY DEF EnqueueFails, SaveQueued, SaveAgain, Doing
    <3> QED BY <1>5, <3>1 DEF EnqueueFails, SaveQueued, SaveAgain
  <2>3. IF j = worker[w].job
          THEN row'[j].status = IF EnqueueFails(w) THEN "retryable_failure" ELSE "dispatch_queued"
          ELSE row'[j] = row[j]
    BY <1>1, <2>1, <2>2, SavedStatus
  <2> QED BY <1>5, <2>3 DEF StageWritten
<1>6. ASSUME NEW k \in Jobs, Dispatch(w, k) PROVE row'[j] = row[j] \/ StageWritten(w, j)
  <2>1. \/ row' = row
        \/ /\ row[k] # NoRow
           /\ Save(k, "completed", row[k].fails, NoPid) \/ Save(k, "failed", row[k].fails, NoPid)
    BY <1>6, DispatchFacts
  <2> QED BY <1>1, <1>6, <2>1, SavedStatus DEF StageWritten
<1>7. CASE BeatSaves(w)
  <2>1. Reporting(w) /\ ~beat[w].late /\ row' = [row EXCEPT ![beat[w].job] = beat[w].copy]
    BY <1>7, QuietSteps, StageFacts DEF BeatSaves
  <2>2. worker[w].step = "convert" /\ beat[w].job = worker[w].job
    BY <1>1, <2>1, PlaceFacts DEF WorkerIsSound, Reporting
  <2>3. beat[w].copy.status = "parsing"
    BY <1>1, <2>1 DEF BeatFits
  <2> QED BY <1>1, <1>7, <2>1, <2>2, <2>3 DEF StageWritten
<1>8. CASE \/ Take(w) \/ ConvertFails(w) \/ ConvertSucceeds(w) \/ ReadLatest(w) \/ Enqueue(w)
           \/ BeatStarts(w) \/ BeatReads(w) \/ HandleSubmittedJobResult(w) \/ ProcessEnds(w)
  <2>1. row' = row
    BY <1>8 DEF Take, ConvertFails, ConvertSucceeds, ReadLatest, Enqueue, BeatStarts, BeatReads,
       HandleSubmittedJobResult, ProcessEnds
  <2> QED BY <2>1
<1> QED BY <1>2, <1>3, <1>4, <1>5, <1>6, <1>7, <1>8 DEF Working, Process, HandOver, Reporter

\* Who writes a row has the job at a step of its own, or is a dispatcher that
\* was handed it.
LEMMA WritersHaveTheJob ==
  ASSUME StageStep, NEW w \in Workers, Working(w), NEW j \in Jobs, row'[j] # row[j]
  PROVE  \/ worker[w].job = j /\ worker[w].step \notin {"free", "done", "retry"}
         \/ j \in handed[w] /\ Dispatch(w, j)
BY WorkersWriteStages, DispatchFacts DEF StageWritten, Start, RetryOrFailJob, SaveParsed, EnqueueFails,
   SaveQueued, SaveAgain, BeatSaves, Doing

\* So the rows others have to do with stay as they are, but for a hand-over and
\* the verdict on it.
LEMMA OthersRowsStay ==
  ASSUME StageStep, NEW w \in Workers, Working(w), NEW j \in Jobs
  PROVE  /\ \A v \in Workers : v # w /\ worker[v].job = j =>
              /\ worker[v].step \notin Ending => row'[j] = row[j]
              /\ row'[j] = row[j] \/ row'[j].status \in {"completed", "failed"}
         /\ \A v \in Workers : v # w /\ j \in handed[v] =>
              row'[j] = row[j] \/ row'[j].status = "dispatch_queued"
         /\ \A s \in Services : j \in Line(s) => row'[j] = row[j]
         /\ request[j].step = "saved" => row'[j] = row[j]
         /\ service.key = 0 => row'[j] = row[j]
<1>1. /\ Calm /\ HandedOnce /\ SavedIsNew /\ OneRecovery /\ w[1] \in Services
      /\ worker[w].job = j => worker[w].job \in Jobs
  BY StageFacts, PlaceFacts
<1> SUFFICES ASSUME row'[j] # row[j]
             PROVE  /\ \A v \in Workers : v # w /\ worker[v].job = j =>
                         worker[v].step \in Ending /\ row'[j].status \in {"completed", "failed"}
                    /\ \A v \in Workers : v # w /\ j \in handed[v] => row'[j].status = "dispatch_queued"
                    /\ \A s \in Services : j \notin Line(s)
                    /\ request[j].step # "saved"
                    /\ service.key # 0
  OBVIOUS
<1>2. CASE worker[w].job = j /\ worker[w].step \notin {"free", "done", "retry"}
  <2>1. \A v \in Workers : v # w => worker[v].job # j
    BY <1>1, <1>2, CalmFacts
  <2>2. ASSUME NEW v \in Workers, v # w, j \in handed[v] PROVE row'[j].status = "dispatch_queued"
    <3>1. worker[w].step \in {"enqueued", "saved"} /\ j \notin handed[w]
      BY <1>1, <1>2, <2>2 DEF HandedOnce, Ending
    <3>2. StageWritten(w, j)
      BY WorkersWriteStages
    <3> QED BY <3>1, <3>2, DispatchFacts
         DEF StageWritten, Start, RetryOrFailJob, SaveParsed, EnqueueFails, Doing
  <2>3. \A s \in Services : j \notin Line(s)
    BY <1>1, <1>2, CalmFacts
  <2>4. request[j].step # "saved" /\ service.key # 0
    BY <1>1, <1>2 DEF SavedIsNew, Nowhere, OneRecovery, Idle, Free
  <2> QED BY <2>1, <2>2, <2>3, <2>4
<1>3. CASE j \in handed[w] /\ Dispatch(w, j)
  <2>1. \A v \in Workers : /\ worker[v].job = j => worker[v].step \in Ending
                           /\ j \in handed[v] => v = w
    BY <1>1, <1>3 DEF HandedOnce
  <2>2. row'[j].status \in {"completed", "failed"}
    BY <1>3, StageFacts, SavedStatus, DispatchFacts
  <2> QED BY <1>1, <1>3, <2>1, <2>2 DEF HandedOnce, SavedIsNew, Nowhere, OneRecovery, Idle
<1> QED BY <1>2, <1>3, WritersHaveTheJob

\* A process that steps goes to where the row of its job is.
LEMMA ProcessFits ==
  ASSUME StageStep, NEW w \in Workers, Working(w), NEW j \in Jobs
  PROVE  WorkerFits(w, j)'
<1>1. /\ PlaceInv /\ OnceInv /\ WorkerFits(w, j) /\ WaitingFits(j) /\ HandedOnce
      /\ worker \in [Workers -> WorkerState] /\ w[1] \in Services
  BY StageFacts, TypeFacts, PlaceFacts DEF StageStep, StagesFit
<1>2. CASE Take(w)
  <2>1. PICK k \in Jobs :
           /\ k \in Line(w[1]) /\ worker'[w].job = k /\ worker[w] = Free
           /\ worker'[w].step \in {"done", "start"}
    BY <1>1, <1>2, TakeFacts
  <2>2. row' = row
    BY <1>2 DEF Take
  <2> QED BY <1>1, <2>1, <2>2 DEF WorkerFits, WaitingFits, RowIn
<1>3. CASE Start(w) \/ SaveParsed(w)
  <2>1. /\ worker'[w].job = worker[w].job
        /\ \/ Start(w) /\ worker[w].step = "start" /\ worker'[w].step = "convert"
           \/ SaveParsed(w) /\ worker[w].step = "parsed" /\ worker'[w].step = "hand_over"
    BY <1>1, <1>3, MoveFacts DEF Start, SaveParsed, Doing
  <2>2. ASSUME worker[w].job = j
        PROVE  row'[j].status = IF Start(w) THEN "parsing" ELSE "parsed"
    BY <1>3, <2>1, <2>2, StageFacts, SavedStatus DEF Start, SaveParsed, Doing
  <2>3. ~(Start(w) /\ worker[w].step = "parsed")
    BY DEF Start, Doing
  <2> QED BY <2>1, <2>2, <2>3 DEF WorkerFits, RowIn
<1>4. CASE ConvertFails(w) \/ ConvertSucceeds(w)
  <2>1. /\ worker'[w].job = worker[w].job /\ worker[w].step = "convert"
        /\ worker'[w].step \in {"failed", "converted"} /\ row' = row
    BY <1>1, <1>4, MoveFacts DEF ConvertFails, ConvertSucceeds, Doing
  <2> QED BY <1>1, <2>1 DEF WorkerFits, RowIn
<1>5. CASE ReadLatest(w)
  <2>1. worker[w].step \in {"failed", "converted"} /\ row' = row
    BY <1>5 DEF ReadLatest, Doing
  <2>2. PICK n \in Nat, y \in {"failing", "parsed"} :
          worker' = [worker EXCEPT ![w] = [step |-> y, job |-> worker[w].job, fails |-> n]]
    BY <1>1, <1>5, LatestFails
  <2>3. worker'[w].job = worker[w].job /\ worker'[w].step \in {"failing", "parsed"}
    BY <1>1, <2>2
  <2> QED BY <1>1, <2>1, <2>3 DEF WorkerFits, RowIn
<1>6. CASE RetryOrFailJob(w)
  <2>1. worker[w].step = "failing" /\ worker'[w].job = worker[w].job
    BY <1>1, <1>6, MoveFacts DEF RetryOrFailJob, Doing
  <2>2. \/ worker'[w].step = "done"
        \/ /\ worker'[w].step = "retry"
           /\ Save(worker[w].job, "retrying", FailureCount(worker[w].fails), NoPid)
    BY <1>1, <1>6, MoveFacts DEF RetryOrFailJob
  <2>3. worker[w].job = j /\ worker'[w].step = "retry" => row'[j].status = "retrying"
    BY <2>2, StageFacts, SavedStatus
  <2> QED BY <2>1, <2>2, <2>3 DEF WorkerFits, RowIn
<1>7. CASE HandOver(w)
  <2>1. CASE Enqueue(w)
    <3>1. /\ worker'[w].job = worker[w].job /\ worker[w].step = "hand_over"
          /\ worker'[w].step = "enqueued" /\ row' = row
      BY <1>1, <2>1, MoveFacts DEF Enqueue, Doing
    <3> QED BY <1>1, <3>1 DEF WorkerFits, RowIn
  <2>2. CASE SaveQueued(w)
    <3>1. /\ worker'[w].job = worker[w].job /\ worker[w].step = "enqueued"
          /\ worker'[w].step = "saved"
      BY <1>1, <2>2, MoveFacts DEF SaveQueued, Doing
    <3>2. worker[w].job = j => row'[j].status = "dispatch_queued"
      BY <2>2, StageFacts, SavedStatus DEF SaveQueued
    <3> QED BY <3>1, <3>2 DEF WorkerFits, RowIn
  <2>3. CASE EnqueueFails(w) \/ SaveAgain(w)
    BY <1>1, <2>3, MoveFacts DEF EnqueueFails, SaveAgain, WorkerFits
  <2> QED BY <1>7, <2>1, <2>2, <2>3 DEF HandOver
<1>8. CASE HandleSubmittedJobResult(w)
  BY <1>1, <1>8, HandleFacts, AbsenceIsNone DEF Free, WorkerFits
<1>9. CASE BeatStarts(w) \/ BeatReads(w) \/ ProcessEnds(w)
  <2>1. worker' = worker /\ row' = row
    BY <1>9 DEF BeatStarts, BeatReads, ProcessEnds
  <2> QED BY <1>1, <2>1 DEF WorkerFits, RowIn
<1>10. CASE BeatSaves(w)
  <2>1. worker' = worker
    BY <1>10 DEF BeatSaves
  <2>2. Reporting(w) /\ ~beat[w].late /\ row' = [row EXCEPT ![beat[w].job] = beat[w].copy]
    BY <1>10, QuietSteps, StageFacts DEF BeatSaves
  <2>3. worker[w].step = "convert" /\ beat[w].job = worker[w].job
    BY <1>1, <2>2, PlaceFacts DEF WorkerIsSound, Reporting
  <2>4. BeatFits(w)
    BY DEF StageStep, StagesFit
  <2>5. worker[w].job = j => row'[j] = beat[w].copy
    BY <2>2, <2>3, StageFacts
  <2> QED BY <2>1, <2>2, <2>3, <2>4, <2>5 DEF BeatFits, WorkerFits, RowIn
<1>11. ASSUME NEW k \in Jobs, Dispatch(w, k) PROVE WorkerFits(w, j)'
  <2>1. worker' = worker /\ k \in handed[w]
    BY <1>11, DispatchFacts
  <2>2. IF k = j THEN row'[j] = row[j] \/ row'[j].status \in {"completed", "failed"} ELSE row'[j] = row[j]
    BY <1>11, StageFacts, SavedStatus, DispatchFacts
  <2>3. k = j /\ worker[w].job = j => worker[w].step \in Ending
    BY <1>1, <2>1 DEF HandedOnce
  <2> QED BY <1>1, <2>1, <2>2, <2>3 DEF WorkerFits, RowIn, Ending
<1> QED BY <1>2, <1>3, <1>4, <1>5, <1>6, <1>7, <1>8, <1>9, <1>10, <1>11 DEF Working, Process, Reporter

\* The other processes are where they were, and so are the rows they have.
LEMMA OthersFit ==
  ASSUME StageStep, NEW w \in Workers, Working(w), NEW j \in Jobs, NEW v \in Workers, v # w
  PROVE  WorkerFits(v, j)' /\ HandedFits(v, j)' /\ BeatFits(v)'
<1>1. /\ PlaceInv /\ WorkerFits(v, j) /\ HandedFits(v, j) /\ BeatFits(v)
  BY StageFacts DEF StageStep, StagesFit
<1>2. worker'[v] = worker[v] /\ beat'[v] = beat[v] /\ handed'[v] = handed[v]
  BY <1>1, OneWorker
<1>3. WorkerFits(v, j)'
  BY <1>1, <1>2, OthersRowsStay DEF WorkerFits, RowIn, Ending
<1>4. HandedFits(v, j)'
  BY <1>1, <1>2, OthersRowsStay DEF HandedFits, RowIn
<1> QED BY <1>1, <1>2, <1>3, <1>4 DEF BeatFits, Reporting

\* What its dispatchers have, when a process or its thread steps.
LEMMA OwnHandedFits ==
  ASSUME StageStep, NEW w \in Workers, Working(w), NEW j \in Jobs
  PROVE  HandedFits(w, j)'
<1>1. /\ PlaceInv /\ HandedFits(w, j) /\ HandedOnce /\ handed \in [Workers -> SUBSET Jobs]
      /\ worker[w].step # "free" => worker[w].job \in Jobs
  BY StageFacts, TypeFacts, CalmFacts DEF StageStep, StagesFit
<1>2. CASE Enqueue(w)
  <2>1. worker[w].step = "hand_over" /\ worker[w].job \in Jobs /\ row' = row
    BY <1>1, <1>2 DEF Enqueue, Doing
  <2>2. handed'[w] = handed[w] \union {worker[w].job}
    BY <1>1, <1>2 DEF Enqueue
  <2>3. worker[w].job = j => RowIn(j, {"parsed"})
    BY <2>1 DEF StageStep, StagesFit, WorkerFits
  <2> QED BY <1>1, <2>1, <2>2, <2>3 DEF HandedFits, RowIn
<1>5. CASE EnqueueFails(w) \/ SaveQueued(w) \/ SaveAgain(w)
  <2>1. worker[w].job \in Jobs /\ handed' = handed
    BY <1>1, <1>5 DEF EnqueueFails, SaveQueued, SaveAgain, Doing
  <2>2. EnqueueFails(w) => worker[w].job \notin handed[w]
    BY <1>1, <2>1 DEF EnqueueFails, Doing, HandedOnce, Ending
  <2>3. \E status, n : /\ status = "dispatch_queued" \/ EnqueueFails(w)
                      /\ Save(worker[w].job, status, n, NoPid)
    BY <1>5 DEF EnqueueFails, SaveQueued, SaveAgain
  <2>4. IF j = worker[w].job THEN EnqueueFails(w) \/ row'[j].status = "dispatch_queued"
        ELSE row'[j] = row[j]
    BY <2>1, <2>3, StageFacts, SavedStatus
  <2> QED BY <1>1, <2>1, <2>2, <2>4 DEF HandedFits, RowIn
<1>3. ASSUME NEW k \in Jobs, Dispatch(w, k) PROVE HandedFits(w, j)'
  <2>1. handed'[w] = handed[w] \ {k}
    BY <1>1, <1>3, DispatchFacts
  <2>2. k # j => row'[j] = row[j]
    BY <1>3, StageFacts, SavedStatus, DispatchFacts
  <2> QED BY <1>1, <2>1, <2>2 DEF HandedFits, RowIn
<1>6. CASE ProcessEnds(w)
  <2>1. handed'[w] = {}
    BY <1>1, <1>6 DEF ProcessEnds
  <2> QED BY <2>1 DEF HandedFits
<1>4. CASE ~HandOver(w) /\ ~ProcessEnds(w) /\ ~(\E k \in Jobs : Dispatch(w, k))
  <2>1. handed' = handed
    BY <1>4 DEF Working, Process, Reporter, Take, Start, ConvertFails, ConvertSucceeds, ReadLatest,
       RetryOrFailJob, SaveParsed, BeatStarts, BeatReads, BeatSaves, HandleSubmittedJobResult
  <2>2. ASSUME j \in handed[w], row'[j] # row[j] PROVE FALSE
    <3>1. worker[w].job = j => worker[w].step \in Ending
      BY <1>1, <2>2 DEF HandedOnce
    <3>2. StageWritten(w, j)
      BY <2>2, WorkersWriteStages
    <3> QED BY <1>4, <3>1, <3>2
         DEF StageWritten, Start, RetryOrFailJob, SaveParsed, HandOver, Doing, Ending
  <2> QED BY <1>1, <2>1, <2>2 DEF HandedFits, RowIn
<1> QED BY <1>2, <1>3, <1>4, <1>5, <1>6 DEF HandOver

\* What its heartbeat has read.
LEMMA OwnBeatFits ==
  ASSUME StageStep, NEW w \in Workers, Working(w)
  PROVE  BeatFits(w)'
<1>1. PlaceInv /\ BeatFits(w)
  BY StageFacts DEF StageStep, StagesFit
<1> SUFFICES ASSUME Reporting(w)', ~beat'[w].late PROVE beat'[w].copy.status = "parsing"
  BY DEF BeatFits
<1>2. CASE Reporting(w) /\ beat'[w] = beat[w]
  BY <1>1, <1>2 DEF BeatFits
<1>3. CASE AtWork(w, worker[w].job) /\ worker[w].job \in Jobs /\ beat'[w].copy = row[worker[w].job]
  <2>1. row[worker[w].job] # NoRow
    BY <1>3 DEF Reporting
  <2>2. WorkerFits(w, worker[w].job)
    BY <1>3 DEF StageStep, StagesFit
  <2> QED BY <1>3, <2>1, <2>2 DEF WorkerFits, AtWork, RowIn
<1> QED BY <1>1, <1>2, <1>3, BeatMoves

\* Jobs that wait go on waiting in such a row, when a process steps.
LEMMA WaitersFit ==
  ASSUME StageStep, NEW w \in Workers, Working(w), NEW j \in Jobs
  PROVE  WaitingFits(j)'
<1>1. /\ PlaceInv /\ OnceInv /\ WaitingFits(j) /\ WorkerFits(w, j) /\ w[1] \in Services
  BY StageFacts, PlaceFacts DEF StageStep, StagesFit
<1>2. request' = request /\ service' = service
  BY <1>1, OneWorker
<1>3. ASSUME NEW s \in Services, j \in Line(s)' PROVE RowIn(j, {"parser_queued", "retrying"})'
  <2>1. CASE j \in Line(s)
    BY <1>1, <2>1, OthersRowsStay DEF WaitingFits, RowIn
  <2>2. CASE j \notin Line(s)
    <3>1. s = w[1]
      BY <1>1, <1>3, <2>2, OneWorker DEF Line
    <3>2. ~Take(w)
      BY <1>1, <1>3, <2>2, <3>1, TakeFacts DEF Line
    <3>3. HandleSubmittedJobResult(w)
      <4> SUFFICES ASSUME ~HandleSubmittedJobResult(w) PROVE pool' = pool
        BY <1>3, <2>2 DEF Line
      <4> QED BY <3>2 DEF Working, Process, Reporter, Start, ConvertFails, ConvertSucceeds, ReadLatest,
           RetryOrFailJob, SaveParsed, HandOver, Enqueue, EnqueueFails, SaveQueued, SaveAgain, Dispatch,
           BeatStarts, BeatReads, BeatSaves, ProcessEnds, ServiceUnchanged
    <3>4. worker[w].job = j /\ worker[w].step = "retry" /\ row' = row
      BY <1>1, <1>3, <2>2, <3>1, <3>3, HandleFacts
    <3> QED BY <1>1, <3>4 DEF WorkerFits, RowIn
  <2> QED BY <2>1, <2>2
<1> QED BY <1>1, <1>2, <1>3, OthersRowsStay DEF WaitingFits, RowIn

\* Outside the processes, a row is only made or removed.
LEMMA OutsideRows ==
  ASSUME StageStep, \A w \in Workers : ~Working(w), NEW j \in Jobs
  PROVE  IF SaveUpload(j) THEN row[j] = NoRow /\ row'[j].status = "parser_queued"
         ELSE row'[j] = row[j] \/ row'[j] = NoRow
<1>1. /\ PlaceInv /\ NewInv /\ OneRecovery /\ Next /\ row \in [Jobs -> Row \union {NoRow}] /\ j \in Requests
  BY StageFacts, PlaceFacts
<1>2. CASE SaveUpload(j)
  <2>1. row'[j].status = "parser_queued"
    BY <1>1, <1>2, SavedStatus DEF SaveUpload
  <2>2. row[j] = NoRow
    BY <1>1, <1>2, RequestMoves DEF NewInv, Untouched
  <2> QED BY <1>2, <2>1, <2>2
<1>3. ~SaveRejected(j)
  BY <1>1, RequestMoves DEF OneRecovery
<1>4. \A w \in Workers :
        ~Start(w) /\ ~SaveParsed(w) /\ ~SaveQueued(w) /\ ~Delivers(w) /\ ~Dispatch(w, j) /\ ~BeatSaves(w)
  BY DEF Working, Process, HandOver, Delivers, Reporter
<1> QED BY <1>1, <1>2, <1>3, <1>4, RowWriters DEF RowWritten

\* A request puts in a queue only what waits, a recovery nothing at all: there
\* are no rows yet.
LEMMA OutsideFits ==
  ASSUME StageStep, \A w \in Workers : ~Working(w), NEW j \in Jobs
  PROVE  WaitingFits(j)' /\ \A w \in Workers : WorkerFits(w, j)' /\ HandedFits(w, j)' /\ BeatFits(w)'
<1>1. /\ PlaceInv /\ NewInv /\ OneRecovery /\ Calm /\ Next /\ Untroubled' /\ ~Restart
      /\ WaitingFits(j) /\ \A w \in Workers : WorkerFits(w, j) /\ HandedFits(w, j) /\ BeatFits(w)
      /\ j \in Requests /\ service \in ServiceState
  BY StageFacts, TypeFacts, PlaceFacts DEF StageStep, StagesFit
<1>2. worker' = worker /\ beat' = beat
  BY <1>1, OthersStay
<1>3. /\ handed' = handed
      /\ \A s \in Services : ~PoolBreaks(s)
      /\ \A k \in Jobs : RemovalReads(k) \/ RemovalActs(k) => pool' = pool /\ service' = service
  <2>1. \A s \in Services : ~PoolBreaks(s)
    BY <1>1, QuietSteps, StageFacts
  <2>2. \A k \in Jobs : RemovalReads(k) \/ RemovalActs(k) => pool' = pool /\ service' = service /\ handed' = handed
    BY <1>1, QuietSteps, StageFacts DEF RemovalReads, PipelineUnchanged
  <2>3. CASE \E r \in Requests : GetService(r)
    BY <2>1, <2>2, <2>3 DEF GetService, ReadSettings, UseService, CreateService, RecoverActiveJobs, PipelineUnchanged
  <2>4. CASE ChangeSettings \/ \E k \in Jobs : Upload(k)
    BY <2>1, <2>2, <2>4 DEF Upload, SaveUpload, SubmitUpload, SaveRejected, ChangeSettings, PipelineUnchanged
  <2> QED BY <1>1, <2>1, <2>2, <2>3, <2>4, NextActors
<1>4. IF SaveUpload(j) THEN row[j] = NoRow /\ row'[j].status = "parser_queued"
      ELSE row'[j] = row[j] \/ row'[j] = NoRow
  BY OutsideRows
<1>5. SaveUpload(j) => /\ Nowhere(j) /\ pool' = pool /\ service' = service
                       /\ request[j].step = "resolved" /\ request'[j].step = "saved" /\ service.key # 0
  BY <1>1, RequestMoves DEF NewInv, Untouched, SaveUpload, OneRecovery
<1>6. \A w \in Workers : WorkerFits(w, j)' /\ HandedFits(w, j)' /\ BeatFits(w)'
  BY <1>1, <1>2, <1>3, <1>4, <1>5 DEF Nowhere, WorkerFits, HandedFits, BeatFits, RowIn, Reporting
<1>7. ASSUME NEW s \in Services, j \in Line(s)' PROVE RowIn(j, {"parser_queued", "retrying"})'
  <2>1. CASE SaveUpload(j)
    BY <1>4, <1>5, <1>7, <2>1 DEF RowIn
  <2>2. CASE ~SaveUpload(j) /\ j \in Line(s)
    BY <1>1, <1>4, <2>2 DEF WaitingFits, RowIn
  <2>3. CASE ~SaveUpload(j) /\ j \notin Line(s)
    <3>1. CASE \E r \in Requests : Recovers(s, r)
      <4>1. service.key = 0
        BY <1>1, <3>1, RequestMoves DEF Recovers, OneRecovery
      <4> QED BY <1>1, <1>4, <2>3, <4>1 DEF WaitingFits, RowIn
    <3>2. CASE Submits(s, j)
      <4>1. request[j].step = "saved"
        BY <1>1, <3>2, RequestMoves DEF Submits
      <4> QED BY <1>1, <1>4, <2>3, <4>1 DEF WaitingFits, RowIn
    <3>3. CASE \/ \E r \in Requests : GetService(r)
               \/ \E k \in Jobs : Upload(k)
               \/ ChangeSettings
      BY <1>1, <1>7, <2>3, <3>1, <3>2, <3>3, RequestLines DEF Submits
    <3>4. CASE \E k \in Jobs : RemovalReads(k) \/ RemovalActs(k)
      <4>1. pool' = pool
        BY <1>3, <3>4
      <4> QED BY <1>7, <2>3, <4>1 DEF Line
    <3> QED BY <1>1, <1>3, <3>3, <3>4, NextActors
  <2> QED BY <2>1, <2>2, <2>3
<1>8. request'[j].step = "saved" => RowIn(j, {"parser_queued"})'
  <2>1. CASE SaveUpload(j)
    BY <1>4, <2>1 DEF RowIn
  <2>2. CASE ~SaveUpload(j)
    <3>1. request'[j].step = "saved" => request[j].step = "saved"
      BY <1>1, <2>2, RequestMoves
    <3> QED BY <1>1, <1>4, <2>2, <3>1 DEF WaitingFits, RowIn
  <2> QED BY <2>1, <2>2
<1>9. service'.key = 0 => service.key = 0
  <2> SUFFICES ASSUME service'.key = 0, service.key # 0 PROVE FALSE
    OBVIOUS
  <2>1. ASSUME NEW r \in Requests, GetService(r) PROVE FALSE
    <3>1. ~RecoverActiveJobs(r)
      BY <1>1, RequestMoves DEF OneRecovery
    <3>2. service' = service \/ service' = [service EXCEPT !.current = service.made + 1, !.made = @ + 1]
      BY <2>1, <3>1 DEF GetService, ReadSettings, UseService, CreateService
    <3> QED BY <1>1, <3>2 DEF ServiceState
  <2>2. ASSUME ~(\E r \in Requests : GetService(r)) PROVE service'.key = service.key
    <3>1. service' = service \/ service' = [service EXCEPT !.settings = @ + 1]
      BY <1>1, <1>3, <2>2, NextActors DEF Upload, SaveUpload, SubmitUpload, SaveRejected, ChangeSettings
    <3> QED BY <1>1, <3>1 DEF ServiceState
  <2> QED BY <2>1, <2>2
<1>10. service'.key = 0 => row'[j] = NoRow
  BY <1>1, <1>4, <1>5, <1>9 DEF WaitingFits
<1>11. WaitingFits(j)'
  BY <1>7, <1>8, <1>10 DEF WaitingFits
<1> QED BY <1>6, <1>11

\* All in all.
LEMMA StagesStay ==
  ASSUME PlaceInv, OnceInv, NewInv, QuietInv, StageInv, Next, Untroubled', service'.made <= 1
  PROVE  StageStep /\ StagesFit'
<1>1. Untroubled /\ ~Restart /\ service.made <= 1
  BY TroubleStays
<1>2. Undisturbed /\ Undisturbed'
  <2>1. PlaceInv'
    BY PlaceStep
  <2>2. service.boot \in Nat /\ service.made \in Nat /\ service'.boot \in Nat /\ service'.made \in Nat
    BY <2>1, TypeFacts, PipelineBounds DEF PlaceInv, LTypeOK, ServiceState
  <2> QED BY <1>1, <2>2 DEF Undisturbed, Untroubled
<1>3. StageStep
  BY <1>1, <1>2 DEF StageStep, CalmStep, Calm, QuietInv, StageInv
<1>4. ASSUME NEW w \in Workers, Working(w) PROVE StagesFit'
  <2>1. \A j \in Jobs : WaitingFits(j)' /\ WorkerFits(w, j)' /\ HandedFits(w, j)' /\ BeatFits(w)'
    BY <1>3, <1>4, WaitersFit, ProcessFits, OwnHandedFits, OwnBeatFits
  <2>2. \A v \in Workers : v # w => BeatFits(v)' /\ \A j \in Jobs : WorkerFits(v, j)' /\ HandedFits(v, j)'
    <3>1. \A v \in Workers : \A j \in Jobs : v # w => BeatFits(v)' /\ WorkerFits(v, j)' /\ HandedFits(v, j)'
      BY <1>3, <1>4, OthersFit
    <3>2. \A v \in Workers : v # w => beat'[v] = beat[v] /\ BeatFits(v)
      BY <1>3, <1>4, OneWorker DEF StageStep, StagesFit
    <3> QED BY <3>1, <3>2 DEF BeatFits, Reporting
  <2>3. BeatFits(w)'
    BY <1>3, <1>4, OwnBeatFits
  <2> QED BY <2>1, <2>2, <2>3 DEF StagesFit
<1>5. ASSUME \A w \in Workers : ~Working(w) PROVE StagesFit'
  <2>1. \A j \in Jobs : WaitingFits(j)' /\ \A w \in Workers : WorkerFits(w, j)' /\ HandedFits(w, j)'
    BY <1>3, <1>5, OutsideFits
  <2>2. \A w \in Workers : BeatFits(w)'
    <3>1. beat' = beat
      BY <1>5, OthersStay
    <3> QED BY <1>3, <3>1 DEF StageStep, StagesFit, BeatFits, Reporting
  <2> QED BY <2>1, <2>2 DEF StagesFit
<1> QED BY <1>3, <1>4, <1>5

\* What a status may be followed by.
NextStatuses(status) ==
  CASE status \in {"parser_queued", "retrying"} -> {"parsing"}
    [] status = "parsing" -> {"parsed", "retrying", "failed"}
    [] status = "parsed" -> {"dispatch_queued", "retryable_failure", "completed", "failed"}
    [] status = "dispatch_queued" -> {"completed", "failed"}
    [] OTHER -> {}

\* The row of a job whose process is yet to save DISPATCH_QUEUED.
HandingOver(j) == \E w \in Workers : worker[w].job = j /\ worker[w].step \in {"enqueued", "saved"}

RowsMoveOn ==
  \A j \in Jobs :
    row[j] # NoRow /\ row'[j] # NoRow /\ row'[j].status # row[j].status =>
      \/ row'[j].status \in NextStatuses(row[j].status)
      \/ /\ row[j].status \in {"completed", "failed"} /\ row'[j].status = "dispatch_queued"
         /\ HandingOver(j)

\* A row goes from where the job is to what comes next.
LEMMA StagesMoveOn ==
  ASSUME StageStep
  PROVE  RowsMoveOn
<1> SUFFICES ASSUME NEW j \in Jobs, row[j] # NoRow, row'[j] # NoRow, row'[j].status # row[j].status
             PROVE  \/ row'[j].status \in NextStatuses(row[j].status)
                    \/ /\ row[j].status \in {"completed", "failed"} /\ row'[j].status = "dispatch_queued"
                       /\ HandingOver(j)
  BY DEF RowsMoveOn
<1>1. PICK w \in Workers : Working(w)
  BY OutsideRows
<1>2. WorkerFits(w, j) /\ HandedFits(w, j)
  BY DEF StageStep, StagesFit
<1>3. StageWritten(w, j)
  BY <1>1, WorkersWriteStages
<1>4. CASE worker[w].job = j /\ Start(w) /\ row'[j].status = "parsing"
  <2>1. row[j].status \in {"parser_queued", "retrying"}
    BY <1>2, <1>4 DEF WorkerFits, RowIn, Start, Doing
  <2> QED BY <1>4, <2>1 DEF NextStatuses
<1>5. CASE /\ worker[w].job = j /\ RetryOrFailJob(w)
           /\ row'[j].status \in {"retrying", "failed"}
  <2>1. row[j].status = "parsing"
    BY <1>2, <1>5 DEF WorkerFits, RowIn, RetryOrFailJob, Doing
  <2> QED BY <1>5, <2>1 DEF NextStatuses
<1>6. CASE worker[w].job = j /\ SaveParsed(w) /\ row'[j].status = "parsed"
  <2>1. row[j].status = "parsing"
    BY <1>2, <1>6 DEF WorkerFits, RowIn, SaveParsed, Doing
  <2> QED BY <1>6, <2>1 DEF NextStatuses
<1>7. CASE /\ worker[w].job = j /\ EnqueueFails(w)
           /\ row'[j].status = "retryable_failure"
  <2>1. row[j].status = "parsed"
    BY <1>2, <1>7 DEF WorkerFits, RowIn, EnqueueFails, Doing
  <2> QED BY <1>7, <2>1 DEF NextStatuses
<1>10. CASE /\ worker[w].job = j /\ (SaveQueued(w) \/ SaveAgain(w))
            /\ row'[j].status = "dispatch_queued"
  <2>1. worker[w].step \in {"enqueued", "saved"} /\ HandingOver(j)
    BY <1>10 DEF SaveQueued, SaveAgain, Doing, HandingOver
  <2>2. row[j].status \in {"parsed", "completed", "failed"}
    BY <1>2, <1>10, <2>1 DEF WorkerFits, RowIn
  <2> QED BY <1>10, <2>1, <2>2 DEF NextStatuses
<1>8. CASE worker[w].job = j /\ worker[w].step = "convert" /\ row'[j].status = "parsing"
  BY <1>2, <1>8 DEF WorkerFits, RowIn
<1>9. CASE Dispatch(w, j) /\ row'[j].status \in {"completed", "failed"}
  <2>1. row[j].status \in {"parsed", "dispatch_queued"}
    BY <1>2, <1>9, DispatchFacts DEF HandedFits, RowIn
  <2> QED BY <1>9, <2>1 DEF NextStatuses
<1> QED BY <1>3, <1>4, <1>5, <1>6, <1>7, <1>8, <1>9, <1>10 DEF StageWritten

\* The statuses of a row follow one another in the order the sequence diagram of
\* docs/embedding-handoff.md draws (RETRYING, which it leaves out, leads back to
\* PARSING, and a dispatcher may be done before the row says DISPATCH_QUEUED), as
\* long as one service was enough and there was no such trouble: of the saves of
\* whole rows, by the coordinator, its dispatchers and the heartbeats, none sets a
\* row back or reopens a verdict, but the two that end the hand-over.
THEOREM StatusesFollow == Spec => [][Untroubled' /\ service'.made <= 1 => RowsMoveOn]_vars
<1> DEFINE AllHold == PlaceInv /\ OnceInv /\ NewInv /\ QuietInv
           GoesOn == Untroubled' /\ service'.made <= 1 => RowsMoveOn
<1>1. Init => AllHold
  BY PlaceInit, OnceAlways, NewAlways, QuietAlways
<1>2. AllHold /\ [Next]_vars => AllHold'
  BY PlaceStep, OnceAlways, NewAlways, QuietAlways
<1>3. Init => StageInv
  <2> SUFFICES ASSUME Init PROVE StagesFit
    BY DEF StageInv
  <2>1. /\ \A j \in Jobs : row[j] = NoRow
        /\ \A w \in Workers : beat[w] = NoBeat
    BY DEF Init
  <2> QED BY <2>1 DEF StagesFit, BeatFits, WaitingFits, WorkerFits, HandedFits, RowIn, Reporting
<1>4. AllHold /\ StageInv /\ [Next]_vars => StageInv'
  <2>1. AllHold /\ StageInv /\ Next => StageInv'
    BY StagesStay DEF StageInv
  <2>2. StageInv /\ UNCHANGED vars => StageInv'
    BY DEF vars, StageInv, StagesFit, Untroubled, BeatFits, WaitingFits, WorkerFits, HandedFits, RowIn,
       Reporting, Line
  <2> QED BY <2>1, <2>2
<1>5. AllHold /\ StageInv /\ [Next]_vars => [GoesOn]_vars
  <2>1. AllHold /\ StageInv /\ Next => GoesOn
    BY StagesStay, StagesMoveOn
  <2> QED BY <2>1
<1> QED BY <1>1, <1>2, <1>3, <1>4, <1>5, PTL DEF Spec
=============================================================================
