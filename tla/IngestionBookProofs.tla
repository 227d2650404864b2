------------------------ MODULE IngestionBookProofs -------------------------
(***************************************************************************)
(* The books of Ingestion: jobs, runs, calls and workers.  The invariant   *)
(* says of each job what its call, its worker, its row and its run have to *)
(* do with one another, and of a removal that it is about a job whose call *)
(* has saved a row; every action keeps it.                                 *)
(***************************************************************************)
EXTENDS Ingestion, TLAPS

(* The steps of a worker.                                                  *)
WorkSteps == {"idle", "parsing", "handed", "writing", "stored", "done", "lost"}

(* Which fields each record has.                                           *)
IsPast(p) ==
  p = [runsMade |-> p.runsMade, clashed |-> p.clashed, mixed |-> p.mixed, removed |-> p.removed,
       early |-> p.early, overtaken |-> p.overtaken, recoveries |-> p.recoveries,
       recovered |-> p.recovered, refused |-> p.refused]

Shapes ==
  /\ call = [j \in Jobs |-> [at |-> call[j].at, seen |-> call[j].seen,
                             input |-> call[j].input, attempt |-> call[j].attempt]]
  /\ request = [j \in Jobs |-> request[j]]
  /\ docs = [c \in Contents |-> docs[c]]
  /\ rows \in [Jobs -> Row \union {NoRow}]
  /\ runs \in [Jobs -> Run \union {NoRun}]
  /\ worker = [j \in Jobs |-> [at |-> worker[j].at, using |-> worker[j].using,
                               job |-> worker[j].job, left |-> worker[j].left]]
  /\ removal = [at |-> removal.at, job |-> removal.job, row |-> removal.row]
  /\ IsPast(past) /\ queue \subseteq Jobs

(* Calls whose row is saved and whose run is not, and calls that saved.    *)
Inserting == {"saved", "counted"}
Saved == Inserting \union {"created", "answered"}

(* The ways in which a job may still come to a parse: its call, its place  *)
(* in the queue, its worker.                                               *)
One(is) == IF is THEN 1 ELSE 0
Pending(j) == One(call[j].at # "answered") + One(j \in queue) + One(j \in Busy)

(* A row with failures to spare for each of them.                          *)
Affordable(j, row) == row.failures + Pending(j) <= MaxRetries + 1 + past.recoveries

(* A call: of which request, with which file.                              *)
CallIsSound(j) ==
  /\ call[j].at \in CallSteps /\ call[j].input \in Owners /\ call[j].attempt \in Nat
  /\ call[j].at # "none" => IsRequest(request[j])
  /\ call[j].at = "found" => docs[ContentOf(j)].file \in Jobs
  /\ call[j].at \in {"waiting", "receiving"} => call[j].input = NoJob

(* A worker: works for a call that has saved its row, and before the run   *)
(* is inserted only if a recovery submitted the job.                       *)
WorkIsSound(j) ==
  /\ worker[j].at \in WorkSteps
  /\ j \in queue \/ worker[j].at # "idle" => call[j].at \in Saved
  /\ call[j].at \in Inserting => worker[j].at = "idle" \/ j \in past.overtaken
  /\ worker[j].at \notin {"idle", "lost"} =>
       worker[j].job \in Row /\ worker[j].job.input = call[j].input

(* Every recovery adds one way to a parse at most, and one failure.        *)
BudgetIsSound(j) ==
  /\ Pending(j) <= 1 + past.recoveries
  /\ rows[j] # NoRow => Affordable(j, rows[j])
  /\ j \in Busy => Affordable(j, worker[j].job)

(* A row: saved by its call, missing only if it was removed.               *)
RowIsSound(j) ==
  /\ rows[j] # NoRow =>
       /\ call[j].at \in Saved \union {"refused"} /\ rows[j].input = call[j].input
       /\ call[j].at \in Inserting => rows[j].status = "PARSER_QUEUED" \/ j \in past.overtaken
       /\ call[j].at = "refused" => rows[j].doc = NoDoc /\ rows[j].status = "FAILED"
  /\ rows[j] = NoRow =>
       /\ call[j].at \in Inserting => j \in past.early
       /\ call[j].at \in Saved => j \in past.removed

(* A run: at the status of its job, or one of the two was removed, or the  *)
(* job was worked on before the run was inserted.                          *)
RunIsSound(j) ==
  /\ runs[j] # NoRun /\ rows[j] # NoRow =>
       runs[j].status = rows[j].status \/ (j \in past.overtaken /\ runs[j].status = "PARSER_QUEUED")
  /\ runs[j] # NoRun /\ rows[j] = NoRow => j \in past.early
  /\ rows[j] # NoRow /\ runs[j] = NoRun =>
       call[j].at \in Inserting \union {"refused"} \/ j \in past.removed

JobIsSound(j) ==
  CallIsSound(j) /\ WorkIsSound(j) /\ BudgetIsSound(j) /\ RowIsSound(j) /\ RunIsSound(j)

(* A removal under way has read the row of a saved call.                   *)
RemovalIsSound ==
  removal.at # "idle" => removal.job \in Jobs /\ removal.row \in Row
                         /\ removal.row.input = call[removal.job].input
                         /\ call[removal.job].at \in Saved \union {"refused"}

(* Any runs there are have one with the greatest attempt number.           *)
RunsHaveLatest ==
  \A some \in SUBSET {k \in Jobs : runs[k] # NoRun} :
    some # {} => \E k \in some : \A l \in some : runs[l].attempt <= runs[k].attempt

(* The inductive invariant of rows, runs, calls and workers.               *)
BookInv ==
  /\ Shapes /\ RemovalIsSound /\ RunsHaveLatest
  /\ past.runsMade \in Nat /\ past.recoveries \in Nat
  /\ \A j \in Jobs : JobIsSound(j)

(* The runs there are, some of them removed. *)
RunsKept ==
  \A k \in Jobs : runs'[k] # NoRun =>
    /\ runs[k] # NoRun /\ runs'[k].attempt = runs[k].attempt
    /\ runs'[k].doc = runs[k].doc /\ runs'[k].made = runs[k].made

(* Removing runs, or changing their status, leaves a latest one among any. *)
LEMMA LatestKept ==
  ASSUME RunsHaveLatest, RunsKept
  PROVE  RunsHaveLatest'
<1> SUFFICES ASSUME NEW some \in SUBSET {k \in Jobs : runs'[k] # NoRun}, some # {}
             PROVE  \E k \in some : \A l \in some : runs'[l].attempt <= runs'[k].attempt
  BY DEF RunsHaveLatest
<1>1. some \in SUBSET {k \in Jobs : runs[k] # NoRun}
  BY DEF RunsKept
<1>2. PICK k \in some : \A l \in some : runs[l].attempt <= runs[k].attempt
  BY <1>1 DEF RunsHaveLatest
<1> QED BY <1>2 DEF RunsKept

(* What save does to the tables: one row, and the status of its run.       *)
LEMMA Saving ==
  ASSUME NEW j \in Jobs, NEW row \in Row, Shapes, Save(j, row)
  PROVE  /\ rows' \in [Jobs -> Row \union {NoRow}] /\ runs' \in [Jobs -> Run \union {NoRun}]
         /\ rows'[j] = row
         /\ \A k \in Jobs \ {j} : rows'[k] = rows[k] /\ runs'[k] = runs[k]
         /\ runs[j] = NoRun => runs'[j] = NoRun
         /\ runs[j] # NoRun => /\ runs'[j] # NoRun /\ runs'[j].status = row.status
                               /\ runs'[j].doc = runs[j].doc /\ runs'[j].made = runs[j].made
                               /\ runs'[j].attempt = runs[j].attempt
<1>1. row.status \in Statuses
  BY DEF Row
<1>2. CASE runs[j] = NoRun
  BY <1>2 DEF Save, RunSnapshot, Shapes
<1>3. CASE runs[j] # NoRun
  <2> DEFINE run == [runs[j] EXCEPT !.status = row.status]
  <2>1. /\ run \in Run /\ run.status = row.status
        /\ run.doc = runs[j].doc /\ run.made = runs[j].made /\ run.attempt = runs[j].attempt
    BY <1>1, <1>3 DEF Shapes, Run
  <2>2. runs' = [runs EXCEPT ![j] = run] /\ rows' = [rows EXCEPT ![j] = row]
    BY <1>3 DEF Save, RunSnapshot
  <2> HIDE DEF run
  <2> QED BY <1>3, <2>1, <2>2, AbsenceAssumption DEF Shapes
<1> QED BY <1>2, <1>3

(* The budget of a job whose ways to a parse get no more, and whose row is *)
(* as before, removed or new.                                              *)
LEMMA BudgetKept ==
  ASSUME Shapes, NEW k \in Jobs, WorkIsSound(k), BudgetIsSound(k),
         past.recoveries \in Nat, past'.recoveries = past.recoveries,
         rows'[k] \in {rows[k], NoRow} \/ (rows'[k] \in Row /\ rows'[k].failures = 0),
         call[k].at = "answered" => call'[k].at = "answered",
         k \in queue' => k \in queue \/ (call[k].at # "answered" /\ call'[k].at = "answered"),
         worker'[k].at \in {worker[k].at, "lost"}, worker'[k].job = worker[k].job
  PROVE  BudgetIsSound(k)'
<1>1. Pending(k)' <= Pending(k) /\ Pending(k)' \in Nat /\ Pending(k) \in Nat
  BY DEF Pending, One, Busy
<1>2. k \in Busy' => k \in Busy
  BY DEF Busy
<1>3. rows[k] # NoRow => rows[k].failures \in Nat
  BY DEF Shapes, Row
<1>4. k \in Busy => worker[k].job.failures \in Nat
  BY DEF WorkIsSound, Busy, Row
<1> QED BY <1>1, <1>2, <1>3, <1>4, RetriesAssumption DEF BudgetIsSound, Affordable

(* A job that a step leaves alone stays sound. *)
LEMMA Untouched ==
  ASSUME BookInv, NEW k \in Jobs,
         call'[k] = call[k], request'[k] = request[k], rows'[k] = rows[k], runs'[k] = runs[k],
         worker'[k].at \in {worker[k].at, "lost"}, worker'[k].job = worker[k].job,
         worker'[k].at = "lost" => worker[k].at # "idle",
         k \in queue' <=> k \in queue,
         past.removed \subseteq past'.removed, past.early \subseteq past'.early,
         past.overtaken \subseteq past'.overtaken, past'.recoveries = past.recoveries,
         call[k].at = "found" => docs'[ContentOf(k)].file \in Jobs
  PROVE  JobIsSound(k)'
<1>0. JobIsSound(k) /\ Shapes /\ past.recoveries \in Nat
  BY DEF BookInv
<1>1. CallIsSound(k)'
  BY <1>0 DEF JobIsSound, CallIsSound, ContentOf
<1>2. WorkIsSound(k)'
  BY <1>0 DEF JobIsSound, WorkIsSound, WorkSteps, Inserting, Saved
<1>3. RowIsSound(k)'
  BY <1>0 DEF JobIsSound, RowIsSound, Inserting, Saved
<1>4. RunIsSound(k)'
  BY <1>0 DEF JobIsSound, RunIsSound, Inserting
<1>5. BudgetIsSound(k)'
  BY <1>0, BudgetKept DEF JobIsSound
<1> QED BY <1>1, <1>2, <1>3, <1>4, <1>5 DEF JobIsSound

(* A row with another status is a row, the same but for that.              *)
LEMMA StatusTypes == ASSUME NEW row \in Row, NEW status \in Statuses
  PROVE /\ [row EXCEPT !.status = status] \in Row
        /\ [row EXCEPT !.status = status].status = status
        /\ [row EXCEPT !.status = status].input = row.input
        /\ [row EXCEPT !.status = status].doc = row.doc
        /\ [row EXCEPT !.status = status].failures = row.failures
BY DEF Row

(* Only the call of j changes.                                             *)
CallBecomes(j, moved) ==
  call' = [k \in Jobs |-> call'[k]] /\ call'[j] = moved /\ \A k \in Jobs \ {j} : call'[k] = call[k]

(* A call that moves on with what it has read.                             *)
LEMMA CallMoves ==
  ASSUME Shapes, NEW j \in Jobs, NEW at, call' = [call EXCEPT ![j].at = at]
  PROVE  CallBecomes(j, CallAt(at, call[j].seen, call[j].input, call[j].attempt))
<1>1. call = [k \in Jobs |-> [at |-> call[k].at, seen |-> call[k].seen,
                            input |-> call[k].input, attempt |-> call[k].attempt]]
  BY DEF Shapes
<1> QED BY <1>1 DEF CallAt, CallBecomes

(* A call that moves on with something read.                               *)
LEMMA CallChanges ==
  ASSUME Shapes, NEW j \in Jobs, NEW moved, call' = [call EXCEPT ![j] = moved]
  PROVE  CallBecomes(j, moved)
BY DEF Shapes, CallBecomes

(* What the steps of a call leave alone. *)
LEMMA CallFrame ==
  ASSUME NEW j \in Jobs, NEW moved, BookInv,
         moved = [at |-> moved.at, seen |-> moved.seen, input |-> moved.input, attempt |-> moved.attempt],
         CallBecomes(j, moved), removal' = removal, worker' = worker,
         queue' = queue \/ queue' = queue \union {j},
         j \in queue' => j \in queue \/ (call[j].at # "answered" /\ moved.at = "answered"),
         call[j].at = "answered" => moved.at = "answered",
         rows'[j] = rows[j] \/ (rows'[j] \in Row /\ rows'[j].failures = 0),
         docs' = [c \in Contents |-> docs'[c]],
         \A c \in Contents : docs[c].file \in Jobs => docs'[c].file \in Jobs,
         request' = [k \in Jobs |-> request'[k]], \A k \in Jobs \ {j} : request'[k] = request[k],
         past'.removed = past.removed, past'.early = past.early, past'.overtaken = past.overtaken,
         past'.recoveries = past.recoveries, IsPast(past'),
         rows' \in [Jobs -> Row \union {NoRow}], runs' \in [Jobs -> Run \union {NoRun}],
         \A k \in Jobs \ {j} : rows'[k] = rows[k] /\ runs'[k] = runs[k],
         call[j].at \in Saved \union {"refused"} =>
           moved.at \in Saved \union {"refused"} /\ moved.input = call[j].input
  PROVE  /\ Shapes' /\ RemovalIsSound' /\ call'[j] = moved
         /\ BudgetIsSound(j)' /\ \A k \in Jobs \ {j} : JobIsSound(k)'
<1>1. call'[j] = moved /\ \A k \in Jobs \ {j} : call'[k] = call[k]
  BY DEF CallBecomes
<1>2. Shapes'
  <2>1. call' = [k \in Jobs |-> [at |-> call'[k].at, seen |-> call'[k].seen,
                                 input |-> call'[k].input, attempt |-> call'[k].attempt]]
    BY DEF BookInv, Shapes, CallBecomes
  <2> QED BY <2>1 DEF BookInv, Shapes
<1>3. RemovalIsSound'
  BY <1>1 DEF BookInv, RemovalIsSound
<1>4. ASSUME NEW k \in Jobs \ {j}
      PROVE  JobIsSound(k)'
  <2>1. JobIsSound(k)
    BY DEF BookInv
  <2>2. call[k].at = "found" => docs'[ContentOf(k)].file \in Jobs
    BY <2>1 DEF JobIsSound, CallIsSound, IsRequest, ContentOf
  <2> QED BY <1>1, <2>2, Untouched
<1>5. BudgetIsSound(j)'
  <2>1. WorkIsSound(j) /\ BudgetIsSound(j) /\ Shapes /\ past.recoveries \in Nat
    BY DEF BookInv, JobIsSound
  <2> QED BY <1>1, <2>1, BudgetKept
<1> QED BY <1>1, <1>2, <1>3, <1>4, <1>5

(* A call is about a document of the model.                                *)
LEMMA RequestsHaveContents ==
  ASSUME BookInv, NEW j \in Jobs, call[j].at # "none"
  PROVE  ContentOf(j) \in Contents
BY DEF BookInv, JobIsSound, CallIsSound, ContentOf, IsRequest

(* The row a call inserts is one, with no failure yet.                     *)
LEMMA NewRows ==
  ASSUME NEW doc \in Contents \union {NoDoc}, NEW status \in Statuses, NEW input \in Owners
  PROVE  LET row == NewRow(status, input, doc)
         IN  row \in Row /\ row.status = status /\ row.input = input /\ row.doc = doc
             /\ row.failures = 0
BY DEF NewRow, Row

(* The files, the request and the past of most calls. *)
QuietCall ==
  UNCHANGED <<docs, request, past, removal, worker>> /\ UNCHANGED queue

(* Only the row and the run of j change.                                   *)
RowsOf(j) ==
  /\ rows' \in [Jobs -> Row \union {NoRow}] /\ runs' \in [Jobs -> Run \union {NoRun}]
  /\ \A k \in Jobs \ {j} : rows'[k] = rows[k] /\ runs'[k] = runs[k]

(* Tables left alone.                                                      *)
LEMMA RowsQuiet ==
  ASSUME BookInv, NEW j \in Jobs, UNCHANGED <<rows, runs>>
  PROVE  RowsOf(j) /\ RunsHaveLatest'
BY DEF BookInv, Shapes, RowsOf, RunsHaveLatest

(* save leaves other jobs alone and a latest run among any.                *)
LEMMA RowsSaved ==
  ASSUME BookInv, NEW j \in Jobs, NEW row \in Row, Save(j, row)
  PROVE  RowsOf(j) /\ RunsHaveLatest' /\ RunsKept
<1>1. RowsOf(j) /\ RunsKept
  BY Saving DEF BookInv, RowsOf, RunsKept
<1> QED BY <1>1, LatestKept DEF BookInv

(* The frame of the calls that touch no file, queue or history.            *)
LEMMA QuietCallFrame ==
  ASSUME NEW j \in Jobs, NEW at, NEW seen, NEW input, NEW attempt, BookInv,
         CallBecomes(j, CallAt(at, seen, input, attempt)), QuietCall, RowsOf(j),
         call[j].at = "answered" => at = "answered",
         rows'[j] = rows[j] \/ (rows'[j] \in Row /\ rows'[j].failures = 0),
         call[j].at \in Saved \union {"refused"} =>
           at \in Saved \union {"refused"} /\ input = call[j].input
  PROVE  /\ Shapes' /\ RemovalIsSound' /\ BudgetIsSound(j)'
         /\ \A k \in Jobs \ {j} : JobIsSound(k)'
         /\ call'[j] = [at |-> at, seen |-> seen, input |-> input, attempt |-> attempt]
<1> DEFINE moved == CallAt(at, seen, input, attempt)
<1>1. moved = [at |-> at, seen |-> seen, input |-> input, attempt |-> attempt]
  BY DEF CallAt
<1>2. CallBecomes(j, moved)
  OBVIOUS
<1> HIDE DEF moved
<1>3. moved = [at |-> moved.at, seen |-> moved.seen, input |-> moved.input, attempt |-> moved.attempt]
  BY <1>1
<1>4. /\ docs' = [c \in Contents |-> docs'[c]] /\ request' = [k \in Jobs |-> request'[k]]
      /\ IsPast(past')
  BY DEF QuietCall, BookInv, Shapes
<1>5. /\ past'.removed = past.removed /\ past'.early = past.early
      /\ past'.overtaken = past.overtaken /\ past'.recoveries = past.recoveries
  BY DEF QuietCall
<1> QED BY <1>1, <1>2, <1>3, <1>4, <1>5, CallFrame DEF QuietCall, RowsOf

(* A refusal keeps the books, with or without its FAILED row.              *)
LEMMA RefusedCall ==
  ASSUME BookInv, NEW j \in Jobs, Reject(j), QuietCall, call[j].at \in {"waiting", "receiving"}
  PROVE  BookInv'
<1>1. CallBecomes(j, CallAt("refused", stored, NoJob, call[j].attempt))
  <2>1. call[j].input = NoJob
    BY DEF BookInv, JobIsSound, CallIsSound
  <2>2. call' = [call EXCEPT ![j] = CallAt("refused", stored, call[j].input, call[j].attempt)]
    BY DEF Reject
  <2> QED BY <2>1, <2>2, CallChanges DEF BookInv
<1>2. /\ RowsOf(j) /\ RunsHaveLatest' /\ rows[j] = NoRow
      /\ rows'[j] = NoRow \/ (rows'[j] \in Row /\ rows'[j].failures = 0)
      /\ rows'[j] # NoRow => rows'[j].doc = NoDoc /\ rows'[j].input = NoJob
                             /\ rows'[j].status = "FAILED"
      /\ runs'[j] # NoRun /\ rows'[j] # NoRow => runs'[j].status = rows'[j].status
      /\ runs'[j] # NoRun => runs[j] # NoRun
  <2>0. rows[j] = NoRow
    BY DEF BookInv, JobIsSound, RowIsSound, Saved, Inserting
  <2>1. CASE request[j].batch
    <3> DEFINE row == NewRow("FAILED", NoJob, NoDoc)
    <3>1. row \in Row /\ row.doc = NoDoc /\ row.input = NoJob /\ row.status = "FAILED"
          /\ row.failures = 0
      <4>1. "FAILED" \in Statuses /\ NoJob \in Owners
        BY DEF Statuses, Owners
      <4> QED BY <4>1, NewRows
    <3>2. Save(j, row)
      BY <2>1 DEF Reject
    <3> HIDE DEF row
    <3>3. RowsOf(j) /\ RunsHaveLatest'
      BY <3>1, <3>2, RowsSaved
    <3> QED BY <2>0, <3>1, <3>2, <3>3, Saving DEF BookInv
  <2>2. CASE ~request[j].batch
    <3>1. UNCHANGED <<rows, runs>>
      BY <2>2 DEF Reject
    <3> QED BY <2>0, <3>1, RowsQuiet
  <2> QED BY <2>1, <2>2
<1>3. /\ Shapes' /\ RemovalIsSound' /\ BudgetIsSound(j)'
      /\ \A k \in Jobs \ {j} : JobIsSound(k)'
      /\ call'[j] = [at |-> "refused", seen |-> stored, input |-> NoJob, attempt |-> call[j].attempt]
  <2>1. call[j].at \notin Saved \union {"refused"}
    BY DEF Saved, Inserting
  <2> QED BY <1>1, <1>2, <2>1, QuietCallFrame
<1>4. JobIsSound(j)'
  BY <1>2, <1>3 DEF BookInv, JobIsSound, CallIsSound, WorkIsSound, RowIsSound, RunIsSound,
       Saved, Inserting, QuietCall, Owners, CallSteps
<1> QED BY <1>2, <1>3, <1>4 DEF BookInv, QuietCall

(* The checks of an upload keep the books.                                 *)
LEMMA CheckUploadStays ==
  ASSUME BookInv, NEW j \in Jobs, CheckUpload(j)
  PROVE  BookInv'
<1>0. QuietCall /\ call[j].at = "waiting"
  BY DEF CheckUpload, QuietCall, quietFiles, quietWork
<1>1. CASE UploadAccepted(Settings(stored), request[j])
  <2>1. /\ call' = [call EXCEPT ![j] = CallAt("receiving", stored, call[j].input, call[j].attempt)]
        /\ UNCHANGED <<rows, runs>>
    BY <1>1 DEF CheckUpload
  <2>2. CallBecomes(j, CallAt("receiving", stored, call[j].input, call[j].attempt))
    BY <2>1, CallChanges DEF BookInv
  <2>3. RowsOf(j) /\ RunsHaveLatest'
    BY <2>1, RowsQuiet
  <2>4. call[j].at \notin Saved \union {"refused"}
    BY <1>0 DEF Saved, Inserting
  <2>5. /\ Shapes' /\ RemovalIsSound' /\ BudgetIsSound(j)'
        /\ \A k \in Jobs \ {j} : JobIsSound(k)'
        /\ call'[j] = [at |-> "receiving", seen |-> stored, input |-> call[j].input,
                       attempt |-> call[j].attempt]
    BY <1>0, <2>1, <2>2, <2>3, <2>4, QuietCallFrame
  <2>6. JobIsSound(j)'
    BY <1>0, <2>1, <2>5 DEF BookInv, JobIsSound, CallIsSound, WorkIsSound, RowIsSound, RunIsSound,
         Saved, Inserting, QuietCall, CallSteps
  <2> QED BY <1>0, <2>3, <2>5, <2>6 DEF BookInv, QuietCall
<1>2. CASE ~UploadAccepted(Settings(stored), request[j])
  <2>1. Reject(j)
    BY <1>2 DEF CheckUpload
  <2> QED BY <1>0, <2>1, RefusedCall
<1> QED BY <1>1, <1>2

(* Storing the file keeps them.                                            *)
LEMMA StoreUploadStays ==
  ASSUME BookInv, NEW j \in Jobs, StoreUpload(j)
  PROVE  BookInv'
<1>0. QuietCall /\ call[j].at = "receiving"
  BY DEF StoreUpload, QuietCall, quietWork
<1>1. CASE SizeValid(Settings(call[j].seen), request[j])
  <2>1. /\ call' = [call EXCEPT ![j] = CallAt("stored", call[j].seen, j, call[j].attempt)]
        /\ UNCHANGED <<rows, runs>>
    BY <1>1 DEF StoreUpload
  <2>2. CallBecomes(j, CallAt("stored", call[j].seen, j, call[j].attempt))
    BY <2>1, CallChanges DEF BookInv
  <2>3. RowsOf(j) /\ RunsHaveLatest'
    BY <2>1, RowsQuiet
  <2>4. call[j].at \notin Saved \union {"refused"}
    BY <1>0 DEF Saved, Inserting
  <2>5. /\ Shapes' /\ RemovalIsSound' /\ BudgetIsSound(j)'
        /\ \A k \in Jobs \ {j} : JobIsSound(k)'
        /\ call'[j] = [at |-> "stored", seen |-> call[j].seen, input |-> j,
                       attempt |-> call[j].attempt]
    BY <1>0, <2>1, <2>2, <2>3, <2>4, QuietCallFrame
  <2>6. JobIsSound(j)'
    BY <1>0, <2>1, <2>5 DEF BookInv, JobIsSound, CallIsSound, WorkIsSound, RowIsSound, RunIsSound,
         Saved, Inserting, QuietCall, CallSteps, Owners
  <2> QED BY <1>0, <2>3, <2>5, <2>6 DEF BookInv, QuietCall
<1>2. CASE ~SizeValid(Settings(call[j].seen), request[j])
  <2>1. Reject(j)
    BY <1>2 DEF StoreUpload
  <2> QED BY <1>0, <2>1, RefusedCall
<1> QED BY <1>1, <1>2

(* Reading the path of a document's file keeps them.                       *)
LEMMA ReadStoragePathStays ==
  ASSUME BookInv, NEW j \in Jobs, ReadStoragePath(j)
  PROVE  BookInv'
<1>0. QuietCall /\ call[j].at = "found" /\ UNCHANGED <<rows, runs>>
  BY DEF ReadStoragePath, QuietCall, quietWork, quietFiles
<1>1. CallBecomes(j, CallAt("checked", call[j].seen, docs[ContentOf(j)].file, call[j].attempt))
  BY CallChanges DEF ReadStoragePath, BookInv
<1>2. RowsOf(j) /\ RunsHaveLatest'
  BY <1>0, RowsQuiet
<1>3. call[j].at \notin Saved \union {"refused"}
  BY <1>0 DEF Saved, Inserting
<1>4. /\ Shapes' /\ RemovalIsSound' /\ BudgetIsSound(j)'
      /\ \A k \in Jobs \ {j} : JobIsSound(k)'
      /\ call'[j] = [at |-> "checked", seen |-> call[j].seen, input |-> docs[ContentOf(j)].file,
                     attempt |-> call[j].attempt]
  BY <1>0, <1>1, <1>2, <1>3, QuietCallFrame
<1>5. JobIsSound(j)'
  BY <1>0, <1>4 DEF BookInv, JobIsSound, CallIsSound, WorkIsSound, RowIsSound, RunIsSound,
       Saved, Inserting, QuietCall, CallSteps, Owners
<1> QED BY <1>0, <1>2, <1>4, <1>5 DEF BookInv, QuietCall

(* Inserting the job keeps them: from here to its run the job has none.    *)
LEMMA SaveJobStays ==
  ASSUME BookInv, NEW j \in Jobs, SaveJob(j)
  PROVE  BookInv'
<1> DEFINE row == NewRow("PARSER_QUEUED", call[j].input, ContentOf(j))
<1>0. QuietCall /\ call[j].at = "checked" /\ Save(j, row)
  BY DEF SaveJob, QuietCall, quietWork, quietFiles
<1>1. CallBecomes(j, CallAt("saved", call[j].seen, call[j].input, call[j].attempt))
  BY CallMoves DEF SaveJob, BookInv
<1>2. row \in Row /\ row.status = "PARSER_QUEUED" /\ row.input = call[j].input /\ row.failures = 0
  <2>1. "PARSER_QUEUED" \in Statuses /\ call[j].input \in Owners /\ ContentOf(j) \in Contents
    BY <1>0, RequestsHaveContents DEF Statuses, BookInv, JobIsSound, CallIsSound
  <2> QED BY <2>1, NewRows
<1> HIDE DEF row
<1>3. RowsOf(j) /\ RunsHaveLatest' /\ rows'[j] = row /\ row # NoRow
      /\ (runs'[j] # NoRun => runs'[j].status = row.status)
  BY <1>0, <1>2, RowsSaved, Saving, AbsenceAssumption DEF BookInv
<1>4. call[j].at \notin Saved \union {"refused"}
  BY <1>0 DEF Saved, Inserting
<1>5. /\ Shapes' /\ RemovalIsSound' /\ BudgetIsSound(j)'
      /\ \A k \in Jobs \ {j} : JobIsSound(k)'
      /\ call'[j] = [at |-> "saved", seen |-> call[j].seen, input |-> call[j].input,
                     attempt |-> call[j].attempt]
  BY <1>0, <1>1, <1>2, <1>3, <1>4, QuietCallFrame
<1>6. JobIsSound(j)'
  BY <1>0, <1>2, <1>3, <1>5 DEF BookInv, JobIsSound, CallIsSound, WorkIsSound, RowIsSound,
       RunIsSound, Saved, Inserting, QuietCall, CallSteps
<1> QED BY <1>0, <1>3, <1>5, <1>6 DEF BookInv, QuietCall

(* A queue that refuses the job keeps them.                                *)
LEMMA EnqueueFailsStays ==
  ASSUME BookInv, NEW j \in Jobs, EnqueueFails(j)
  PROVE  BookInv'
<1> DEFINE row == NewRow("RETRYABLE_FAILURE", call[j].input, ContentOf(j))
<1>0. QuietCall /\ call[j].at = "created" /\ Save(j, row)
  BY DEF EnqueueFails, QuietCall, quietWork, quietFiles
<1>1. CallBecomes(j, CallAt("answered", call[j].seen, call[j].input, call[j].attempt))
  BY CallMoves DEF EnqueueFails, BookInv
<1>2. row \in Row /\ row.input = call[j].input /\ row.failures = 0
  <2>1. "RETRYABLE_FAILURE" \in Statuses /\ call[j].input \in Owners /\ ContentOf(j) \in Contents
    BY <1>0, RequestsHaveContents DEF Statuses, BookInv, JobIsSound, CallIsSound
  <2> QED BY <2>1, NewRows
<1> HIDE DEF row
<1>3. RowsOf(j) /\ RunsHaveLatest' /\ rows'[j] = row /\ row # NoRow
      /\ (runs'[j] # NoRun => runs'[j].status = row.status)
      /\ (runs'[j] = NoRun => runs[j] = NoRun)
  BY <1>0, <1>2, RowsSaved, Saving, AbsenceAssumption DEF BookInv
<1>4. "answered" \in Saved
  BY DEF Saved
<1>5. /\ Shapes' /\ RemovalIsSound' /\ BudgetIsSound(j)'
      /\ \A k \in Jobs \ {j} : JobIsSound(k)'
      /\ call'[j] = [at |-> "answered", seen |-> call[j].seen, input |-> call[j].input,
                     attempt |-> call[j].attempt]
  BY <1>0, <1>1, <1>2, <1>3, <1>4, QuietCallFrame
<1>6. runs[j] = NoRun => j \in past.removed
  BY <1>0 DEF BookInv, JobIsSound, RowIsSound, RunIsSound, Saved, Inserting
<1>7. JobIsSound(j)'
  BY <1>0, <1>2, <1>3, <1>5, <1>6 DEF BookInv, JobIsSound, CallIsSound, WorkIsSound, RowIsSound,
       RunIsSound, Saved, Inserting, QuietCall, CallSteps
<1> QED BY <1>0, <1>3, <1>5, <1>7 DEF BookInv, QuietCall

(* Submitting the job keeps them.                                          *)
LEMMA EnqueueStays ==
  ASSUME BookInv, NEW j \in Jobs, Enqueue(j)
  PROVE  BookInv'
<1> DEFINE moved == CallAt("answered", call[j].seen, call[j].input, call[j].attempt)
<1>0. /\ call[j].at = "created" /\ (queue' = queue \/ queue' = queue \union {j})
      /\ UNCHANGED <<rows, runs, docs, request, past, removal, worker>>
  BY DEF Enqueue, quietFiles
<1>1. CallBecomes(j, moved)
  BY CallMoves DEF Enqueue, BookInv
<1>2. moved = [at |-> "answered", seen |-> call[j].seen, input |-> call[j].input,
               attempt |-> call[j].attempt]
  BY DEF CallAt
<1> HIDE DEF moved
<1>3. RowsOf(j) /\ RunsHaveLatest'
  BY <1>0, RowsQuiet
<1>4. /\ moved = [at |-> moved.at, seen |-> moved.seen, input |-> moved.input, attempt |-> moved.attempt]
      /\ moved.at \in Saved \union {"refused"} /\ moved.input = call[j].input
  BY <1>2 DEF Saved
<1>5. /\ docs' = [c \in Contents |-> docs'[c]] /\ request' = [k \in Jobs |-> request'[k]]
      /\ IsPast(past')
  BY <1>0 DEF BookInv, Shapes
<1>6. Shapes' /\ RemovalIsSound' /\ call'[j] = moved /\ BudgetIsSound(j)'
      /\ \A k \in Jobs \ {j} : JobIsSound(k)'
  BY <1>0, <1>1, <1>2, <1>3, <1>4, <1>5, CallFrame DEF RowsOf
<1>7. JobIsSound(j)'
  <2>1. runs[j] = NoRun /\ rows[j] # NoRow => j \in past.removed
    BY <1>0 DEF BookInv, JobIsSound, RunIsSound, Saved, Inserting
  <2> QED BY <1>0, <1>2, <1>6, <2>1 DEF BookInv, JobIsSound, CallIsSound, WorkIsSound, RowIsSound,
       RunIsSound, Saved, Inserting, CallSteps
<1> QED BY <1>0, <1>3, <1>6, <1>7 DEF BookInv

(* Moving a document to its newest file keeps them.                        *)
LEMMA UpsertDocumentStays ==
  ASSUME BookInv, NEW j \in Jobs, UpsertDocument(j)
  PROVE  BookInv'
<1> DEFINE moved == CallAt("checked", call[j].seen, call[j].input, call[j].attempt)
           upserted == [name |-> request[j].name, file |-> j]
<1>0. /\ call[j].at = "stored" /\ docs' = [docs EXCEPT ![ContentOf(j)] = upserted]
      /\ UNCHANGED <<rows, runs, request, past, removal, worker, queue>>
  BY DEF UpsertDocument, quietWork
<1>1. CallBecomes(j, moved)
  BY CallMoves DEF UpsertDocument, BookInv
<1>2. moved = [at |-> "checked", seen |-> call[j].seen, input |-> call[j].input,
               attempt |-> call[j].attempt]
  BY DEF CallAt
<1> HIDE DEF moved
<1>3. RowsOf(j) /\ RunsHaveLatest'
  BY <1>0, RowsQuiet
<1>4. /\ moved = [at |-> moved.at, seen |-> moved.seen, input |-> moved.input, attempt |-> moved.attempt]
      /\ call[j].at \notin Saved \union {"refused"}
  BY <1>0, <1>2 DEF Saved, Inserting
<1> HIDE DEF upserted
<1>5. /\ docs' = [c \in Contents |-> docs'[c]] /\ request' = [k \in Jobs |-> request'[k]]
      /\ \A c \in Contents : docs[c].file \in Jobs => docs'[c].file \in Jobs
      /\ IsPast(past')
  <2>1. upserted.file \in Jobs
    BY DEF upserted
  <2> QED BY <1>0, <2>1 DEF BookInv, Shapes
<1>6. Shapes' /\ RemovalIsSound' /\ call'[j] = moved /\ BudgetIsSound(j)'
      /\ \A k \in Jobs \ {j} : JobIsSound(k)'
  BY <1>0, <1>1, <1>3, <1>4, <1>5, CallFrame DEF RowsOf
<1>7. JobIsSound(j)'
  BY <1>0, <1>2, <1>6 DEF BookInv, JobIsSound, CallIsSound, WorkIsSound, RowIsSound,
     RunIsSound, Saved, Inserting, CallSteps
<1> QED BY <1>0, <1>3, <1>6, <1>7 DEF BookInv

(* The first read of a re-run keeps them, if the document's file is some   *)
(* upload.                                                                 *)
LEMMA ReadDocumentStays ==
  ASSUME BookInv, NEW j \in Jobs, ReadDocument(j), docs[ContentOf(j)].file \in Jobs
  PROVE  BookInv'
<1> DEFINE r == [request[j] EXCEPT !.name = docs[ContentOf(j)].name]
           at == IF RerunAccepted(Settings(stored), r) THEN "found" ELSE "refused"
           moved == CallAt(at, stored, call[j].input, call[j].attempt)
<1>0. /\ call[j].at = "waiting" /\ request' = [request EXCEPT ![j] = r]
      /\ call' = [call EXCEPT ![j] = moved]
      /\ UNCHANGED <<rows, runs, docs, past, removal, worker, queue>>
  BY DEF ReadDocument, quietFiles
<1>1. at \in {"found", "refused"}
  OBVIOUS
<1>2. moved = [at |-> at, seen |-> stored, input |-> call[j].input, attempt |-> call[j].attempt]
  BY DEF CallAt
<1> HIDE DEF at, moved
<1>3. CallBecomes(j, moved)
  BY <1>0, CallChanges DEF BookInv
<1>4. RowsOf(j) /\ RunsHaveLatest'
  BY <1>0, RowsQuiet
<1>5. /\ moved = [at |-> moved.at, seen |-> moved.seen, input |-> moved.input, attempt |-> moved.attempt]
      /\ call[j].at \notin Saved \union {"refused"}
  BY <1>0, <1>2 DEF Saved, Inserting
<1>6. IsRequest(r) /\ r.content = ContentOf(j)
  BY <1>0 DEF BookInv, JobIsSound, CallIsSound, IsRequest, ContentOf
<1> HIDE DEF r
<1>7. /\ docs' = [c \in Contents |-> docs'[c]] /\ request' = [k \in Jobs |-> request'[k]]
      /\ request'[j] = r /\ \A k \in Jobs \ {j} : request'[k] = request[k]
      /\ IsPast(past')
  BY <1>0 DEF BookInv, Shapes, IsPast
<1>8. Shapes' /\ RemovalIsSound' /\ call'[j] = moved /\ BudgetIsSound(j)'
      /\ \A k \in Jobs \ {j} : JobIsSound(k)'
  BY <1>0, <1>3, <1>4, <1>5, <1>7, CallFrame DEF RowsOf
<1>9. JobIsSound(j)'
  BY <1>0, <1>1, <1>2, <1>6, <1>7, <1>8 DEF BookInv, JobIsSound, CallIsSound, WorkIsSound,
     RowIsSound, RunIsSound, Saved, Inserting, CallSteps, ContentOf
<1> QED BY <1>0, <1>4, <1>8, <1>9 DEF BookInv

(* The next attempt number is above those of all runs of the document.     *)
LEMMA NextAttemptIsNumber ==
  ASSUME BookInv, NEW c
  PROVE  /\ NextAttempt(c) \in Nat
         /\ \A k \in RunsOf(c) : runs[k].attempt < NextAttempt(c)
<1>1. CASE RunsOf(c) = {}
  BY <1>1 DEF NextAttempt
<1>2. CASE RunsOf(c) # {}
  <2>1. \A k \in RunsOf(c) : runs[k].attempt \in Nat
    BY DEF RunsOf, BookInv, Shapes, Run
  <2>2. \E k \in RunsOf(c) : \A l \in RunsOf(c) : runs[l].attempt <= runs[k].attempt
    BY <1>2 DEF RunsOf, BookInv, RunsHaveLatest
  <2> DEFINE last == CHOOSE k \in RunsOf(c) : \A l \in RunsOf(c) : runs[l].attempt <= runs[k].attempt
  <2>3. last \in RunsOf(c) /\ \A l \in RunsOf(c) : runs[l].attempt <= runs[last].attempt
    BY <2>2
  <2>4. NextAttempt(c) = 1 + runs[last].attempt
    BY <1>2 DEF NextAttempt
  <2> HIDE DEF last
  <2> QED BY <2>1, <2>3, <2>4
<1> QED BY <1>1, <1>2

(* Counting the runs keeps the books.                                      *)
LEMMA ReadAttemptStays ==
  ASSUME BookInv, NEW j \in Jobs, ReadAttempt(j)
  PROVE  BookInv'
<1> DEFINE next == NextAttempt(ContentOf(j))
           moved == CallAt("counted", call[j].seen, call[j].input, next)
           clashes == IF \E k \in Jobs : call[k].at = "counted" /\ ContentOf(k) = ContentOf(j)
                      THEN past.clashed \union {ContentOf(j)} ELSE past.clashed
<1>0. /\ call[j].at = "saved" /\ past' = [past EXCEPT !.clashed = clashes]
      /\ call' = [call EXCEPT ![j] = moved]
      /\ UNCHANGED <<rows, runs, docs, request, removal, worker, queue>>
  BY DEF ReadAttempt, quietFiles, quietWork
<1>1. next \in Nat
  BY NextAttemptIsNumber
<1> HIDE DEF next, clashes
<1>2. moved = [at |-> "counted", seen |-> call[j].seen, input |-> call[j].input, attempt |-> next]
  BY DEF CallAt
<1> HIDE DEF moved
<1>3. CallBecomes(j, moved)
  BY <1>0, CallChanges DEF BookInv
<1>4. RowsOf(j) /\ RunsHaveLatest'
  BY <1>0, RowsQuiet
<1>5. /\ moved = [at |-> moved.at, seen |-> moved.seen, input |-> moved.input, attempt |-> moved.attempt]
      /\ moved.at \in Saved \union {"refused"} /\ moved.input = call[j].input
  BY <1>2 DEF Saved, Inserting
<1>6. /\ docs' = [c \in Contents |-> docs'[c]] /\ request' = [k \in Jobs |-> request'[k]]
      /\ past'.runsMade = past.runsMade /\ past'.removed = past.removed
      /\ past'.early = past.early /\ past'.overtaken = past.overtaken
      /\ past'.recoveries = past.recoveries /\ IsPast(past')
  BY <1>0 DEF BookInv, Shapes, IsPast
<1>7. Shapes' /\ RemovalIsSound' /\ call'[j] = moved /\ BudgetIsSound(j)'
      /\ \A k \in Jobs \ {j} : JobIsSound(k)'
  BY <1>0, <1>3, <1>4, <1>5, <1>6, CallFrame DEF RowsOf
<1>8. JobIsSound(j)'
  BY <1>0, <1>1, <1>2, <1>6, <1>7 DEF BookInv, JobIsSound, CallIsSound, WorkIsSound, RowIsSound,
     RunIsSound, Saved, Inserting, CallSteps
<1> QED BY <1>0, <1>4, <1>6, <1>7, <1>8 DEF BookInv

(* Inserting the run keeps them, as its job has the status the run is      *)
(* given.                                                                  *)
LEMMA InsertRunStays ==
  ASSUME BookInv, NEW j \in Jobs, InsertRun(j)
  PROVE  BookInv'
<1> DEFINE run == [doc |-> ContentOf(j), attempt |-> call[j].attempt,
                   status |-> "PARSER_QUEUED", made |-> past.runsMade + 1]
           moved == CallAt("created", call[j].seen, call[j].input, call[j].attempt)
<1>0. /\ call[j].at = "counted" /\ past' = [past EXCEPT !.runsMade = @ + 1]
      /\ runs' = [runs EXCEPT ![j] = run]
      /\ UNCHANGED <<rows, docs, request, removal, worker, queue>>
  BY DEF InsertRun, quietFiles, quietWork
<1>1. CallBecomes(j, moved)
  BY CallMoves DEF InsertRun, BookInv
<1>2. moved = [at |-> "created", seen |-> call[j].seen, input |-> call[j].input,
               attempt |-> call[j].attempt]
  BY DEF CallAt
<1>3. run \in Run /\ run.status = "PARSER_QUEUED" /\ run.attempt = call[j].attempt
  <2>1. ContentOf(j) \in Contents /\ call[j].attempt \in Nat /\ past.runsMade \in Nat
    BY <1>0, RequestsHaveContents DEF BookInv, JobIsSound, CallIsSound
  <2> QED BY <2>1 DEF Run, Statuses
<1> HIDE DEF moved, run
<1>4. /\ RowsOf(j) /\ runs'[j] = run /\ run # NoRun
  BY <1>0, <1>3, AbsenceAssumption DEF BookInv, Shapes, RowsOf
<1>5. RunsHaveLatest'
  <2> SUFFICES ASSUME NEW some \in SUBSET {k \in Jobs : runs'[k] # NoRun}, some # {}
               PROVE  \E k \in some : \A l \in some : runs'[l].attempt <= runs'[k].attempt
    BY DEF RunsHaveLatest
  <2> DEFINE older == some \ {j}
  <2>0. \A k \in Jobs \ {j} : runs'[k] = runs[k]
    BY <1>4 DEF RowsOf
  <2>1. \A k \in some : runs'[k].attempt \in Nat
    BY <1>4 DEF RowsOf, Run
  <2>2. older \in SUBSET {k \in Jobs : runs[k] # NoRun}
    BY <2>0
  <2>3. CASE older = {}
    BY <2>1, <2>3
  <2>4. CASE older # {}
    <3>1. PICK k \in older : \A l \in older : runs[l].attempt <= runs[k].attempt
      BY <2>2, <2>4 DEF BookInv, RunsHaveLatest
    <3>2. \A l \in older : runs'[l].attempt <= runs'[k].attempt
      BY <2>0, <3>1
    <3>3. CASE j \in some /\ ~(runs'[j].attempt <= runs'[k].attempt)
      BY <2>1, <3>2, <3>3
    <3>4. CASE ~(j \in some /\ ~(runs'[j].attempt <= runs'[k].attempt))
      BY <3>2, <3>4
    <3> QED BY <3>3, <3>4
  <2> QED BY <2>3, <2>4
<1>6. /\ moved = [at |-> moved.at, seen |-> moved.seen, input |-> moved.input, attempt |-> moved.attempt]
      /\ moved.at \in Saved \union {"refused"} /\ moved.input = call[j].input
  BY <1>2 DEF Saved
<1>7. /\ docs' = [c \in Contents |-> docs'[c]] /\ request' = [k \in Jobs |-> request'[k]]
      /\ past'.runsMade = past.runsMade + 1 /\ past'.removed = past.removed
      /\ past'.early = past.early /\ past'.overtaken = past.overtaken
      /\ past'.recoveries = past.recoveries /\ IsPast(past')
  BY <1>0 DEF BookInv, Shapes, IsPast
<1>8. Shapes' /\ RemovalIsSound' /\ call'[j] = moved /\ BudgetIsSound(j)'
      /\ \A k \in Jobs \ {j} : JobIsSound(k)'
  BY <1>0, <1>1, <1>4, <1>6, <1>7, CallFrame DEF RowsOf
<1>9. JobIsSound(j)'
  BY <1>0, <1>2, <1>3, <1>4, <1>7, <1>8 DEF BookInv, JobIsSound, CallIsSound, WorkIsSound,
     RowIsSound, RunIsSound, Saved, Inserting, CallSteps
<1>10. past'.runsMade \in Nat /\ past'.recoveries \in Nat
  BY <1>7 DEF BookInv
<1> QED BY <1>5, <1>8, <1>9, <1>10 DEF BookInv

(* Only the worker of j changes.                                           *)
WorkerBecomes(j, after) ==
  worker' = [k \in Jobs |-> IF k = j THEN after ELSE worker[k]]

(* What the steps of workers keep of the past. *)
PastIsKept ==
  /\ IsPast(past') /\ past'.runsMade = past.runsMade /\ past'.recoveries = past.recoveries
  /\ past'.removed = past.removed /\ past'.early = past.early
  /\ past.overtaken \subseteq past'.overtaken

(* A step of a worker keeps them if it saves a row of its job, or none.    *)
LEMMA WorkStep ==
  ASSUME BookInv, NEW j \in Jobs, call[j].at \in Saved,
         call[j].at \in Inserting => j \in past'.overtaken,
         UNCHANGED <<call, docs, request, removal>>,
         NEW after, WorkerBecomes(j, after),
         after = [at |-> after.at, using |-> after.using, job |-> after.job, left |-> after.left],
         after.at \in WorkSteps,
         after.at \notin {"idle", "lost"} => after.job \in Row /\ after.job.input = call[j].input,
         queue' \in {queue, queue \union {j}, queue \ {j}}, PastIsKept, BudgetIsSound(j)',
         \/ UNCHANGED <<rows, runs>>
         \/ \E row \in Row : Save(j, row) /\ row.input = call[j].input
  PROVE  BookInv'
<1>1. /\ RowsOf(j) /\ RunsHaveLatest'
      /\ runs'[j] # NoRun => runs[j] # NoRun
      /\ rows'[j] = NoRow => rows[j] = NoRow
      /\ rows'[j] # NoRow => rows'[j].input = call[j].input
      /\ runs'[j] # NoRun /\ rows'[j] # NoRow =>
           \/ runs'[j].status = rows'[j].status
           \/ j \in past.overtaken /\ runs'[j].status = "PARSER_QUEUED"
      /\ runs'[j] = NoRun /\ rows'[j] # NoRow => call[j].at \in Inserting \/ j \in past.removed
  <2>1. runs[j] = NoRun => call[j].at \in Inserting \/ j \in past.removed
    BY DEF BookInv, JobIsSound, RowIsSound, RunIsSound, Saved, Inserting
  <2>2. CASE UNCHANGED <<rows, runs>>
    BY <2>1, <2>2, RowsQuiet DEF BookInv, JobIsSound, RowIsSound, RunIsSound
  <2>3. CASE \E row \in Row : Save(j, row) /\ row.input = call[j].input
    <3>1. PICK row \in Row : Save(j, row) /\ row.input = call[j].input
      BY <2>3
    <3> QED BY <2>1, <3>1, RowsSaved, Saving, AbsenceAssumption DEF BookInv
  <2> QED BY <2>2, <2>3
<1>2. /\ worker'[j] = after /\ \A k \in Jobs \ {j} : worker'[k] = worker[k]
      /\ worker' = [k \in Jobs |-> [at |-> worker'[k].at, using |-> worker'[k].using,
                                    job |-> worker'[k].job, left |-> worker'[k].left]]
  <2>1. \A k \in Jobs : worker[k] = [at |-> worker[k].at, using |-> worker[k].using,
                                      job |-> worker[k].job, left |-> worker[k].left]
    BY DEF BookInv, Shapes
  <2> QED BY <2>1 DEF WorkerBecomes
<1>3. /\ past'.removed = past.removed /\ past'.early = past.early
      /\ past'.runsMade = past.runsMade /\ past'.recoveries = past.recoveries
      /\ past.overtaken \subseteq past'.overtaken /\ IsPast(past')
  BY DEF PastIsKept
<1>4. Shapes'
  BY <1>1, <1>2, <1>3 DEF BookInv, Shapes, RowsOf
<1>5. ASSUME NEW k \in Jobs \ {j}
      PROVE  JobIsSound(k)'
  <2>1. call[k].at = "found" => docs'[ContentOf(k)].file \in Jobs
    BY DEF BookInv, JobIsSound, CallIsSound
  <2>2. /\ rows'[k] = rows[k] /\ runs'[k] = runs[k] /\ worker'[k] = worker[k]
        /\ k \in queue' <=> k \in queue
    BY <1>1, <1>2 DEF RowsOf
  <2> QED BY <1>3, <2>1, <2>2, Untouched
<1>6. JobIsSound(j)'
  <2>1. CallIsSound(j)'
    BY DEF BookInv, JobIsSound, CallIsSound, ContentOf
  <2>2. WorkIsSound(j)'
    BY <1>2 DEF WorkIsSound
  <2>3. RowIsSound(j)'
    BY <1>1, <1>3 DEF BookInv, JobIsSound, RowIsSound, Saved, Inserting
  <2>4. RunIsSound(j)'
    <3>1. runs'[j] # NoRun /\ rows'[j] = NoRow => j \in past.early
      BY <1>1 DEF BookInv, JobIsSound, RunIsSound
    <3> QED BY <1>1, <1>3, <3>1 DEF RunIsSound
  <2> QED BY <2>1, <2>2, <2>3, <2>4 DEF JobIsSound
<1>7. RemovalIsSound'
  BY DEF BookInv, RemovalIsSound
<1> QED BY <1>1, <1>3, <1>4, <1>5, <1>6, <1>7 DEF BookInv

(* A row that a worker saves, with the changes the workers make.            *)
LEMMA StatusChanges ==
  ASSUME NEW row \in Row, NEW status \in Statuses
  PROVE  /\ [row EXCEPT !.status = status] \in Row
         /\ [row EXCEPT !.status = status].input = row.input
         /\ [row EXCEPT !.status = status].failures = row.failures
BY DEF Row

(* A row that names outputs is a row.                                      *)
LEMMA OutputsChange ==
  ASSUME NEW row \in Row, NEW status \in Statuses
  PROVE  /\ [row EXCEPT !.status = status, !.outputs = TRUE] \in Row
         /\ [row EXCEPT !.status = status, !.outputs = TRUE].input = row.input
         /\ [row EXCEPT !.status = status, !.outputs = TRUE].failures = row.failures
BY DEF Row

(* A worker that goes on.                                                  *)
LEMMA WorkerAt ==
  ASSUME BookInv, NEW j \in Jobs, NEW at, worker' = [worker EXCEPT ![j].at = at]
  PROVE  WorkerBecomes(j, [at |-> at, using |-> worker[j].using, job |-> worker[j].job,
                           left |-> worker[j].left])
<1>1. worker = [k \in Jobs |-> [at |-> worker[k].at, using |-> worker[k].using,
                              job |-> worker[k].job, left |-> worker[k].left]]
  BY DEF BookInv, Shapes
<1> QED BY <1>1 DEF WorkerBecomes

(* A worker that has written a file.                                       *)
LEMMA WorkerLeft ==
  ASSUME BookInv, NEW j \in Jobs, NEW left, worker' = [worker EXCEPT ![j].left = left]
  PROVE  WorkerBecomes(j, [at |-> worker[j].at, using |-> worker[j].using, job |-> worker[j].job,
                           left |-> left])
<1>1. worker = [k \in Jobs |-> [at |-> worker[k].at, using |-> worker[k].using,
                              job |-> worker[k].job, left |-> worker[k].left]]
  BY DEF BookInv, Shapes
<1> QED BY <1>1 DEF WorkerBecomes

(* A worker that begins something.                                         *)
LEMMA WorkerChanges ==
  ASSUME BookInv, NEW j \in Jobs, NEW after, worker' = [worker EXCEPT ![j] = after]
  PROVE  WorkerBecomes(j, after)
<1>1. worker = [k \in Jobs |-> [at |-> worker[k].at, using |-> worker[k].using,
                              job |-> worker[k].job, left |-> worker[k].left]]
  BY DEF BookInv, Shapes
<1> QED BY <1>1 DEF WorkerBecomes

(* The numbers the budget is counted in.                                   *)
LEMMA Counts ==
  ASSUME BookInv, NEW j \in Jobs
  PROVE  /\ Pending(j) \in Nat /\ past.recoveries \in Nat
         /\ rows[j] # NoRow => rows[j] \in Row /\ rows[j].failures \in Nat
         /\ worker[j].at \notin {"idle", "lost"} =>
              worker[j].job \in Row /\ worker[j].job.failures \in Nat
<1>1. Pending(j) \in Nat
  BY DEF Pending, One
<1> QED BY <1>1 DEF BookInv, Shapes, JobIsSound, WorkIsSound, Row

(* Taking a job from the queue keeps the books.                            *)
LEMMA TakeStays ==
  ASSUME BookInv, NEW j \in Jobs, Take(j)
  PROVE  BookInv'
<1> DEFINE overtaken == IF call[j].at \in {"saved", "counted"} THEN past.overtaken \union {j}
                        ELSE past.overtaken
<1>0. /\ j \in queue /\ j \notin Busy /\ queue' = queue \ {j} /\ call[j].at \in Saved
      /\ past' = [past EXCEPT !.overtaken = overtaken]
      /\ UNCHANGED <<call, docs, request, removal>>
  BY DEF Take, workOnly, BookInv, JobIsSound, WorkIsSound
<1>1. PastIsKept /\ (call[j].at \in Inserting => j \in past'.overtaken)
  <2>1. past.overtaken \subseteq overtaken /\ (call[j].at \in Inserting => j \in overtaken)
    BY DEF Inserting
  <2> HIDE DEF overtaken
  <2>2. past'.overtaken = overtaken /\ PastIsKept
    BY <1>0, <2>1 DEF BookInv, Shapes, IsPast, PastIsKept
  <2> QED BY <2>1, <2>2
<1> HIDE DEF overtaken
<1>2. CASE rows[j] = NoRow
  <2>1. UNCHANGED <<rows, runs>> /\ worker' = worker /\ WorkerBecomes(j, worker[j])
    BY <1>2 DEF Take, BookInv, Shapes, WorkerBecomes
  <2>2. /\ worker[j] = [at |-> worker[j].at, using |-> worker[j].using, job |-> worker[j].job,
                        left |-> worker[j].left]
        /\ worker[j].at \in WorkSteps
        /\ worker[j].at \notin {"idle", "lost"} =>
             worker[j].job \in Row /\ worker[j].job.input = call[j].input
    BY DEF BookInv, Shapes, JobIsSound, WorkIsSound
  <2>3. BudgetIsSound(j)'
    <3>1. WorkIsSound(j) /\ BudgetIsSound(j) /\ Shapes /\ past.recoveries \in Nat
      BY DEF BookInv, JobIsSound
    <3> QED BY <1>0, <1>1, <2>1, <3>1, BudgetKept DEF PastIsKept
  <2> QED BY <1>0, <1>1, <2>1, <2>2, <2>3, WorkStep
<1>3. CASE rows[j] # NoRow
  <2> DEFINE running == [rows[j] EXCEPT !.status = "PARSING"]
  <2>1. PICK using : Save(j, running) /\ worker' = [worker EXCEPT ![j] =
                       [at |-> "parsing", using |-> using, job |-> running, left |-> <<>>]]
    BY <1>3 DEF Take
  <2>2. /\ rows[j] \in Row /\ rows[j].input = call[j].input /\ BudgetIsSound(j)
    BY <1>0, <1>3 DEF BookInv, Shapes, JobIsSound, RowIsSound
  <2>3. running \in Row /\ running.input = call[j].input /\ running.failures = rows[j].failures
    <3>1. "PARSING" \in Statuses
      BY DEF Statuses
    <3> QED BY <2>2, <3>1, StatusChanges
  <2> DEFINE after == [at |-> "parsing", using |-> using, job |-> running, left |-> <<>>]
  <2> HIDE DEF running
  <2>4. after = [at |-> after.at, using |-> after.using, job |-> after.job, left |-> after.left]
        /\ after.at = "parsing" /\ after.job = running
    OBVIOUS
  <2>5. worker' = [worker EXCEPT ![j] = after]
    BY <2>1
  <2> HIDE DEF after
  <2>6. WorkerBecomes(j, after) /\ worker'[j] = after
    BY <2>5, WorkerChanges DEF WorkerBecomes
  <2>7. rows'[j] = running
    BY <2>1, <2>3, Saving DEF BookInv
  <2>8. BudgetIsSound(j)'
    <3>1. Pending(j)' = Pending(j) /\ past'.recoveries = past.recoveries
      <4>1. j \in Busy'
        BY <2>4, <2>6 DEF Busy
      <4> QED BY <1>0, <1>1, <4>1 DEF Pending, One, PastIsKept
    <3> QED BY <1>3, <2>2, <2>3, <2>4, <2>6, <2>7, <3>1 DEF BudgetIsSound, Affordable
  <2> QED BY <1>0, <1>1, <2>1, <2>3, <2>4, <2>6, <2>8, WorkStep DEF WorkSteps
<1> QED BY <1>2, <1>3

(* The row a worker would save is of its job, whoever removed the row.      *)
LEMMA LatestJobs ==
  ASSUME BookInv, NEW j \in Jobs, j \in Busy
  PROVE  /\ LatestJob(j) \in Row /\ LatestJob(j).input = call[j].input
         /\ Affordable(j, LatestJob(j))
BY DEF LatestJob, Busy, BookInv, Shapes, JobIsSound, WorkIsSound, RowIsSound, BudgetIsSound

(* What is known of a job in work.                                          *)
LEMMA Working ==
  ASSUME BookInv, NEW j \in Jobs, j \in Busy
  PROVE  /\ call[j].at \in Saved /\ (call[j].at \in Inserting => j \in past.overtaken)
         /\ worker[j].job \in Row /\ worker[j].job.input = call[j].input
BY DEF Busy, BookInv, JobIsSound, WorkIsSound

(* A failure keeps them: it spends the worker's way to a parse, and the    *)
(* queue gives it back only if the failures are within the retries.        *)
LEMMA RetryOrFailStays ==
  ASSUME BookInv, NEW j \in Jobs, worker[j].at = "parsing", NEW reason, RetryOrFail(j, reason),
         UNCHANGED <<call, docs, request, removal>>
  PROVE  BookInv'
<1> DEFINE failures == LatestJob(j).failures + 1
           again == HasBudget(failures)
           status == IF again THEN "RETRYING" ELSE "FAILED"
           row == [LatestJob(j) EXCEPT !.failures = failures, !.status = status]
           after == [at |-> "idle", using |-> worker[j].using, job |-> worker[j].job,
                     left |-> worker[j].left]
           refusal == [reason |-> reason, using |-> worker[j].using]
<1>1. /\ Save(j, row) /\ queue' = (IF again THEN queue \union {j} ELSE queue)
      /\ worker' = [worker EXCEPT ![j].at = "idle"]
      /\ past' = [past EXCEPT !.refused[j] = refusal]
  BY DEF RetryOrFail
<1>2. /\ j \in Busy /\ call[j].at \in Saved /\ (call[j].at \in Inserting => j \in past.overtaken)
      /\ LatestJob(j) \in Row /\ LatestJob(j).input = call[j].input
      /\ LatestJob(j).failures + Pending(j) <= MaxRetries + 1 + past.recoveries
  BY Working, LatestJobs DEF Busy, Affordable
<1>3. failures \in Nat /\ status \in Statuses /\ LatestJob(j).failures \in Nat
  BY <1>2 DEF Row, Statuses
<1>4. row \in Row /\ row.input = call[j].input /\ row.failures = failures
  <2> DEFINE latest == LatestJob(j)
  <2>2. [latest EXCEPT !.failures = failures, !.status = status] \in Row
        /\ [latest EXCEPT !.failures = failures, !.status = status].input = latest.input
        /\ [latest EXCEPT !.failures = failures, !.status = status].failures = failures
    <3>1. latest \in Row
      BY <1>2
    <3> HIDE DEF failures, status, latest
    <3> QED BY <1>3, <3>1 DEF Row
  <2> QED BY <1>2, <2>2
<1>5. again => failures <= MaxRetries
  BY DEF HasBudget
<1>6. PastIsKept /\ past'.overtaken = past.overtaken
  <2> HIDE DEF refusal
  <2> QED BY <1>1 DEF BookInv, Shapes, PastIsKept, IsPast
<1>7. WorkerBecomes(j, after)
  BY <1>1, WorkerAt
<1>8. rows'[j] = row
  BY <1>1, <1>4, Saving DEF BookInv
<1>9. BudgetIsSound(j)'
  <2>1. worker'[j].at = "idle"
    BY <1>7 DEF WorkerBecomes
  <2>2. j \notin Busy'
    BY <2>1 DEF Busy
  <2>3. /\ Pending(j)' = One(call[j].at # "answered") + One(j \in queue')
        /\ Pending(j) = One(call[j].at # "answered") + One(j \in queue) + 1
    BY <1>2, <2>2 DEF Pending, One
  <2>4. One(call[j].at # "answered") \in {0, 1} /\ One(j \in queue) \in {0, 1}
        /\ One(j \in queue') \in {0, 1}
    BY DEF One
  <2>5. ~again => One(j \in queue') = One(j \in queue)
    BY <1>1
  <2>6. Pending(j) <= 1 + past.recoveries /\ past.recoveries \in Nat
    BY DEF BookInv, JobIsSound, BudgetIsSound
  <2>7. past'.recoveries = past.recoveries
    BY <1>6 DEF PastIsKept
  <2>8. failures = LatestJob(j).failures + 1
    OBVIOUS
  <2> HIDE DEF row, failures, again
  <2>9. Pending(j)' <= Pending(j) /\ (~again => Pending(j)' = Pending(j) - 1)
    BY <2>3, <2>4, <2>5
  <2>10. failures + Pending(j)' <= MaxRetries + 1 + past.recoveries
    BY <1>2, <1>3, <1>5, <2>3, <2>4, <2>6, <2>8, <2>9, RetriesAssumption
  <2>11. Pending(j)' <= 1 + past.recoveries
    BY <2>3, <2>4, <2>6, <2>9
  <2> QED BY <1>4, <1>8, <2>2, <2>7, <2>10, <2>11 DEF BudgetIsSound, Affordable
<1>10. after = [at |-> after.at, using |-> after.using, job |-> after.job, left |-> after.left]
       /\ after.at = "idle"
  OBVIOUS
<1>11. queue' \in {queue, queue \union {j}, queue \ {j}}
  BY <1>1
<1> HIDE DEF row, after, status, again, failures
<1> QED BY <1>1, <1>2, <1>4, <1>6, <1>7, <1>9, <1>10, <1>11, WorkStep DEF WorkSteps

(* A worker goes on with its job, and saves its row or leaves it.           *)
LEMMA WorkGoesOn ==
  ASSUME BookInv, NEW j \in Jobs, j \in Busy,
         UNCHANGED <<call, docs, request, removal, queue>>,
         NEW at \in WorkSteps, NEW using, NEW left,
         WorkerBecomes(j, [at |-> at, using |-> using, job |-> worker[j].job, left |-> left]),
         PastIsKept,
         \/ UNCHANGED <<rows, runs>>
         \/ \E row \in Row : Save(j, row) /\ row.input = call[j].input /\ Affordable(j, row)
  PROVE  BookInv'
<1> DEFINE after == [at |-> at, using |-> using, job |-> worker[j].job, left |-> left]
<1>1. after = [at |-> after.at, using |-> after.using, job |-> after.job, left |-> after.left]
      /\ after.at = at /\ after.job = worker[j].job
  OBVIOUS
<1>2. WorkerBecomes(j, after)
  OBVIOUS
<1> HIDE DEF after
<1>3. worker'[j].job = worker[j].job
  BY <1>1, <1>2 DEF WorkerBecomes
<1>4. rows'[j] # NoRow => rows'[j] \in Row /\ Affordable(j, rows'[j])
  <2>1. CASE UNCHANGED <<rows, runs>>
    BY <2>1 DEF BookInv, Shapes, JobIsSound, BudgetIsSound
  <2>2. CASE \E row \in Row : Save(j, row) /\ row.input = call[j].input /\ Affordable(j, row)
    BY <2>2, Saving DEF BookInv
  <2> QED BY <2>1, <2>2
<1>5. BudgetIsSound(j)'
  <2>1. Pending(j)' <= Pending(j) /\ Pending(j)' \in Nat /\ Pending(j) \in Nat
    BY DEF Pending, One
  <2>2. Pending(j) <= 1 + past.recoveries /\ Affordable(j, worker[j].job)
        /\ worker[j].job \in Row /\ past.recoveries \in Nat /\ past'.recoveries = past.recoveries
    BY Working DEF BookInv, JobIsSound, BudgetIsSound, PastIsKept
  <2> QED BY <1>3, <1>4, <2>1, <2>2, RetriesAssumption DEF BudgetIsSound, Affordable, Row
<1>6. /\ call[j].at \in Saved /\ (call[j].at \in Inserting => j \in past'.overtaken)
      /\ after.job \in Row /\ after.job.input = call[j].input
  BY <1>1, Working DEF PastIsKept
<1> QED BY <1>1, <1>2, <1>5, <1>6, WorkStep

(* History left alone.                                                     *)
LEMMA PastUnchanged == ASSUME BookInv, UNCHANGED past PROVE PastIsKept
BY DEF BookInv, Shapes, PastIsKept, IsPast

(* The row of the job, if it is there, with another status.                 *)
LEMMA SavesStatus ==
  ASSUME BookInv, NEW j \in Jobs, rows[j] # NoRow, NEW status \in Statuses,
         Save(j, [rows[j] EXCEPT !.status = status])
  PROVE  \E row \in Row : Save(j, row) /\ row.input = call[j].input /\ Affordable(j, row)
<1>1. rows[j] \in Row
  BY DEF BookInv, Shapes
<1>2. rows[j].input = call[j].input /\ Affordable(j, rows[j])
  BY DEF BookInv, JobIsSound, RowIsSound, BudgetIsSound
<1> DEFINE row == [rows[j] EXCEPT !.status = status]
<1>3. row \in Row /\ row.input = call[j].input /\ Affordable(j, row)
  BY <1>1, <1>2, StatusChanges DEF Affordable
<1>4. Save(j, row)
  OBVIOUS
<1> HIDE DEF row
<1> QED BY <1>3, <1>4

(* Handing a result over, or refusing it, keeps them.                      *)
LEMMA ConvertStays ==
  ASSUME BookInv, NEW j \in Jobs, Convert(j)
  PROVE  BookInv'
<1> DEFINE reason == ResultRefusal(Settings(worker[j].using), request[j])
<1>0. worker[j].at = "parsing" /\ UNCHANGED <<call, docs, request, removal>>
  BY DEF Convert, workOnly
<1>1. CASE reason # "no"
  <2>1. RetryOrFail(j, reason)
    BY <1>1 DEF Convert
  <2> QED BY <1>0, <2>1, RetryOrFailStays
<1>2. CASE ~(reason # "no")
  <2> DEFINE row == [LatestJob(j) EXCEPT !.status = "DISPATCH_QUEUED"]
  <2>1. Save(j, row) /\ worker' = [worker EXCEPT ![j].at = "handed"] /\ UNCHANGED <<queue, past>>
    BY <1>2 DEF Convert
  <2>2. row \in Row /\ row.input = call[j].input /\ Affordable(j, row)
    <3>1. LatestJob(j) \in Row /\ LatestJob(j).input = call[j].input /\ Affordable(j, LatestJob(j))
      BY <1>0, LatestJobs DEF Busy
    <3>2. "DISPATCH_QUEUED" \in Statuses
      BY DEF Statuses
    <3> QED BY <3>1, <3>2, StatusChanges DEF Affordable
  <2> HIDE DEF row
  <2>3. PastIsKept
    BY <2>1, PastUnchanged
  <2>4. WorkerBecomes(j, [at |-> "handed", using |-> worker[j].using, job |-> worker[j].job,
                          left |-> worker[j].left])
    BY <2>1, WorkerAt
  <2>5. "handed" \in WorkSteps
    BY DEF WorkSteps
  <2> QED BY <1>0, <2>1, <2>2, <2>3, <2>4, <2>5, WorkGoesOn DEF Busy
<1> QED BY <1>1, <1>2

(* The beginning of a dispatch keeps them.                                 *)
LEMMA DispatchStays ==
  ASSUME BookInv, NEW j \in Jobs, Dispatch(j)
  PROVE  BookInv'
<1>0. worker[j].at = "handed" /\ UNCHANGED <<call, docs, request, removal, queue, past>>
  BY DEF Dispatch, workOnly
<1>1. PastIsKept
  BY <1>0, PastUnchanged
<1>2. {"idle", "writing"} \subseteq WorkSteps
  BY DEF WorkSteps
<1>3. CASE rows[j] = NoRow
  <2>1. worker' = [worker EXCEPT ![j].at = "idle"] /\ UNCHANGED <<rows, runs>>
    BY <1>3 DEF Dispatch
  <2>2. WorkerBecomes(j, [at |-> "idle", using |-> worker[j].using, job |-> worker[j].job,
                          left |-> worker[j].left])
    BY <2>1, WorkerAt
  <2> QED BY <1>0, <1>1, <1>2, <2>1, <2>2, WorkGoesOn DEF Busy
<1>4. CASE rows[j] # NoRow
  <2> DEFINE left == IF StoresLocal(Settings(worker[j].using), request[j]) THEN WriteOrder(j) ELSE <<>>
             after == [at |-> "writing", using |-> worker[j].using, job |-> worker[j].job, left |-> left]
  <2>1. worker' = [worker EXCEPT ![j] = after] /\ Save(j, [rows[j] EXCEPT !.status = "DISPATCHING"])
    BY <1>4 DEF Dispatch
  <2> HIDE DEF left
  <2>2. WorkerBecomes(j, after)
    BY <2>1, WorkerChanges
  <2>3. \E row \in Row : Save(j, row) /\ row.input = call[j].input /\ Affordable(j, row)
    <3>1. "DISPATCHING" \in Statuses
      BY DEF Statuses
    <3> QED BY <1>4, <2>1, <3>1, SavesStatus
  <2> QED BY <1>0, <1>1, <1>2, <2>2, <2>3, WorkGoesOn DEF Busy
<1> QED BY <1>3, <1>4

(* Writing a file keeps them.                                              *)
LEMMA WriteFileStays ==
  ASSUME BookInv, NEW j \in Jobs, WriteFile(j)
  PROVE  BookInv'
<1>0. PICK mixed, left :
        /\ worker[j].at = "writing" /\ UNCHANGED <<call, docs, request, removal, queue, rows, runs>>
        /\ worker' = [worker EXCEPT ![j].left = left] /\ past' = [past EXCEPT !.mixed = mixed]
  BY DEF WriteFile, CanWrite, workOnly
<1>1. PastIsKept
  BY <1>0 DEF BookInv, Shapes, PastIsKept, IsPast
<1>2. WorkerBecomes(j, [at |-> "writing", using |-> worker[j].using, job |-> worker[j].job,
                        left |-> left])
  BY <1>0, WorkerLeft
<1>3. "writing" \in WorkSteps
  BY DEF WorkSteps
<1> QED BY <1>0, <1>1, <1>2, <1>3, WorkGoesOn DEF Busy

(* A dispatch that fails keeps them.                                       *)
LEMMA DispatchFailsStays ==
  ASSUME BookInv, NEW j \in Jobs, worker[j].at = "writing", DispatchFails(j),
         UNCHANGED <<call, docs, request, removal, queue>>, PastIsKept
  PROVE  BookInv'
<1>1. PICK again \in BOOLEAN :
        /\ worker' = [worker EXCEPT ![j].at = IF again THEN "handed" ELSE "idle"]
        /\ IF rows[j] = NoRow THEN UNCHANGED <<rows, runs>>
           ELSE Save(j, [rows[j] EXCEPT !.status = IF again THEN "DISPATCH_QUEUED" ELSE "FAILED"])
  BY DEF DispatchFails
<1> DEFINE at == IF again THEN "handed" ELSE "idle"
           status == IF again THEN "DISPATCH_QUEUED" ELSE "FAILED"
<1>3. at \in WorkSteps /\ status \in Statuses
  BY DEF WorkSteps, Statuses
<1> HIDE DEF at, status
<1>4. /\ worker' = [worker EXCEPT ![j].at = at]
      /\ IF rows[j] = NoRow THEN UNCHANGED <<rows, runs>>
         ELSE Save(j, [rows[j] EXCEPT !.status = status])
  BY <1>1 DEF at, status
<1>5. WorkerBecomes(j, [at |-> at, using |-> worker[j].using, job |-> worker[j].job,
                        left |-> worker[j].left])
  BY <1>4, WorkerAt
<1> QED BY <1>3, <1>4, <1>5, SavesStatus, WorkGoesOn DEF Busy

(* So does a directory that vanished.                                      *)
LEMMA WriteFailsStays ==
  ASSUME BookInv, NEW j \in Jobs, WriteFails(j)
  PROVE  BookInv'
<1>1. /\ worker[j].at = "writing" /\ DispatchFails(j)
      /\ UNCHANGED <<call, docs, request, removal, queue, past>>
  BY DEF WriteFails, workOnly
<1> QED BY <1>1, PastUnchanged, DispatchFailsStays

(* And any other error of writing.                                         *)
LEMMA WriteBreaksStays ==
  ASSUME BookInv, NEW j \in Jobs, WriteBreaks(j)
  PROVE  BookInv'
<1>1. PICK mixed :
        /\ worker[j].at = "writing" /\ DispatchFails(j)
        /\ UNCHANGED <<call, docs, request, removal, queue>> /\ past' = [past EXCEPT !.mixed = mixed]
  BY DEF WriteBreaks, CanWrite, workOnly
<1>2. PastIsKept
  BY <1>1 DEF BookInv, Shapes, PastIsKept, IsPast
<1> QED BY <1>1, <1>2, DispatchFailsStays

(* A dispatch that has written the files keeps them.                       *)
LEMMA StoredLocalStays ==
  ASSUME BookInv, NEW j \in Jobs, StoredLocal(j)
  PROVE  BookInv'
<1>0. /\ worker[j].at = "writing" /\ UNCHANGED <<call, docs, request, removal, queue, past>>
      /\ worker' = [worker EXCEPT ![j].at = "stored"]
  BY DEF StoredLocal, workOnly
<1>1. PastIsKept
  BY <1>0, PastUnchanged
<1>2. "stored" \in WorkSteps
  BY DEF WorkSteps
<1>3. WorkerBecomes(j, [at |-> "stored", using |-> worker[j].using, job |-> worker[j].job,
                        left |-> worker[j].left])
  BY <1>0, WorkerAt
<1>4. \/ UNCHANGED <<rows, runs>>
      \/ \E row \in Row : Save(j, row) /\ row.input = call[j].input /\ Affordable(j, row)
  <2>1. CASE rows[j] = NoRow
    BY <2>1 DEF StoredLocal
  <2>2. CASE rows[j] # NoRow
    <3> DEFINE row == [rows[j] EXCEPT !.status = "STORED_LOCAL", !.outputs = TRUE]
    <3>1. Save(j, row)
      BY <2>2 DEF StoredLocal
    <3>2. row \in Row /\ row.input = call[j].input /\ Affordable(j, row)
      <4>1. /\ rows[j] \in Row /\ rows[j].input = call[j].input /\ Affordable(j, rows[j])
            /\ "STORED_LOCAL" \in Statuses
        BY <2>2 DEF BookInv, Shapes, JobIsSound, RowIsSound, BudgetIsSound, Statuses
      <4> QED BY <4>1, OutputsChange DEF Affordable
    <3> HIDE DEF row
    <3> QED BY <3>1, <3>2
  <2> QED BY <2>1, <2>2
<1> QED BY <1>0, <1>1, <1>2, <1>3, <1>4, WorkGoesOn DEF Busy

(* The end of a dispatch keeps them.                                       *)
LEMMA CompleteStays ==
  ASSUME BookInv, NEW j \in Jobs, Complete(j)
  PROVE  BookInv'
<1>0. /\ worker[j].at \in {"stored", "writing"}
      /\ UNCHANGED <<call, docs, request, removal, queue, past>>
      /\ worker' = [worker EXCEPT ![j].at = "done"]
      /\ IF rows[j] = NoRow THEN UNCHANGED <<rows, runs>>
         ELSE Save(j, [rows[j] EXCEPT !.status = "COMPLETED"])
  BY DEF Complete, workOnly
<1>1. PastIsKept
  BY <1>0, PastUnchanged
<1>2. "done" \in WorkSteps /\ "COMPLETED" \in Statuses
  BY DEF WorkSteps, Statuses
<1>3. WorkerBecomes(j, [at |-> "done", using |-> worker[j].using, job |-> worker[j].job,
                        left |-> worker[j].left])
  BY <1>0, WorkerAt
<1> QED BY <1>0, <1>1, <1>2, <1>3, SavesStatus, WorkGoesOn DEF Busy

(* A step that leaves the rows and the calls alone.                         *)
LEMMA QuietStep ==
  ASSUME BookInv, UNCHANGED <<call, request, docs, rows, runs, queue, worker, removal, past>>
  PROVE  BookInv'
<1>1. /\ Shapes' /\ RemovalIsSound' /\ RunsHaveLatest'
      /\ past'.runsMade \in Nat /\ past'.recoveries \in Nat
  BY DEF BookInv, Shapes, RemovalIsSound, RunsHaveLatest
<1>2. ASSUME NEW k \in Jobs PROVE JobIsSound(k)'
  BY DEF BookInv, JobIsSound, CallIsSound, WorkIsSound, RowIsSound, RunIsSound, ContentOf,
       BudgetIsSound, Affordable, Pending, Busy
<1> QED BY <1>1, <1>2 DEF BookInv

(* The first step of a removal, and the processes it kills, keep them.     *)
LEMMA RemovalStartsStays ==
  ASSUME BookInv, NEW j \in Jobs, RemovalStarts(j)
  PROVE  BookInv'
<1>0. /\ rows[j] # NoRow /\ removal' = [at |-> "files", job |-> j, row |-> rows[j]]
      /\ UNCHANGED <<call, request, docs, rows, runs, queue>>
  BY DEF RemovalStarts, quietFiles
<1>1. PICK killed \in SUBSET Busy :
        /\ worker' = [k \in Jobs |-> IF k \in killed THEN [worker[k] EXCEPT !.at = "lost"] ELSE worker[k]]
        /\ past' = [past EXCEPT !.mixed = @ \union {ContentOf(k) : k \in {l \in killed : MidWrite(l)}}]
  BY DEF RemovalStarts
<1>2. \A k \in Jobs :
        /\ worker'[k] = [at |-> worker'[k].at, using |-> worker'[k].using,
                         job |-> worker'[k].job, left |-> worker'[k].left]
        /\ worker'[k].at \in {worker[k].at, "lost"} /\ worker'[k].job = worker[k].job
        /\ worker'[k].at = "lost" => worker[k].at # "idle"
  <2> SUFFICES ASSUME NEW k \in Jobs
               PROVE  /\ worker'[k] = [at |-> worker'[k].at, using |-> worker'[k].using,
                                       job |-> worker'[k].job, left |-> worker'[k].left]
                      /\ worker'[k].at \in {worker[k].at, "lost"} /\ worker'[k].job = worker[k].job
                      /\ worker'[k].at = "lost" => worker[k].at # "idle"
    OBVIOUS
  <2>1. worker[k] = [at |-> worker[k].at, using |-> worker[k].using, job |-> worker[k].job,
                     left |-> worker[k].left]
    BY DEF BookInv, Shapes
  <2>2. CASE k \in killed
    <3>1. worker'[k] = [worker[k] EXCEPT !.at = "lost"]
      BY <1>1, <2>2
    <3>2. worker'[k] = [at |-> "lost", using |-> worker[k].using, job |-> worker[k].job,
                        left |-> worker[k].left]
      BY <2>1, <3>1
    <3> QED BY <2>2, <3>2 DEF Busy
  <2>3. CASE k \notin killed
    BY <1>1, <2>1, <2>3
  <2> QED BY <2>2, <2>3
<1>3. /\ IsPast(past') /\ past'.runsMade = past.runsMade /\ past'.recoveries = past.recoveries
      /\ past'.removed = past.removed /\ past'.early = past.early
      /\ past'.overtaken = past.overtaken
  BY <1>1 DEF BookInv, Shapes, IsPast
<1>4. Shapes'
  <2>1. worker' = [k \in Jobs |-> [at |-> worker'[k].at, using |-> worker'[k].using,
                                   job |-> worker'[k].job, left |-> worker'[k].left]]
    <3> DEFINE after == [k \in Jobs |-> IF k \in killed THEN [worker[k] EXCEPT !.at = "lost"]
                                        ELSE worker[k]]
    <3>1. after = [k \in Jobs |-> after[k]] /\ worker' = after
      BY <1>1
    <3> HIDE DEF after
    <3> QED BY <1>2, <3>1
  <2>2. removal' = [at |-> removal'.at, job |-> removal'.job, row |-> removal'.row]
    BY <1>0
  <2> QED BY <1>0, <1>3, <2>1, <2>2 DEF BookInv, Shapes
<1>5. RemovalIsSound'
  BY <1>0 DEF BookInv, Shapes, RemovalIsSound, JobIsSound, RowIsSound
<1>6. ASSUME NEW k \in Jobs PROVE JobIsSound(k)'
  <2>1. call[k].at = "found" => docs'[ContentOf(k)].file \in Jobs
    BY <1>0 DEF BookInv, JobIsSound, CallIsSound
  <2> QED BY <1>0, <1>2, <1>3, <2>1, Untouched
<1>7. RunsHaveLatest'
  BY <1>0 DEF BookInv, RunsHaveLatest
<1> QED BY <1>3, <1>4, <1>5, <1>6, <1>7 DEF BookInv

(* A recovery keeps them: a job it submits has a row saved by its call,    *)
(* and one more way to a parse is what a recovery allows.                  *)
LEMMA RecoverStays ==
  ASSUME BookInv, RecoverActiveJobs
  PROVE  BookInv'
<1> DEFINE found == {j \in Jobs : rows[j] # NoRow /\ rows[j].status \in RecoveredStatuses}
           recovered == past.recovered \union {stored}
<1>0. /\ queue' = queue \union found
      /\ past' = [past EXCEPT !.recoveries = @ + 1, !.recovered = recovered]
      /\ UNCHANGED <<call, request, docs, rows, runs, worker, removal>>
  BY DEF RecoverActiveJobs, quietFiles
<1> HIDE DEF recovered
<1>1. /\ IsPast(past') /\ past'.runsMade = past.runsMade /\ past'.recoveries = past.recoveries + 1
      /\ past'.removed = past.removed /\ past'.early = past.early
      /\ past'.overtaken = past.overtaken
  BY <1>0 DEF BookInv, Shapes, IsPast
<1>2. Shapes' /\ RemovalIsSound' /\ RunsHaveLatest'
  BY <1>0, <1>1 DEF BookInv, Shapes, RemovalIsSound, RunsHaveLatest
<1>3. ASSUME NEW k \in Jobs PROVE JobIsSound(k)'
  <2>0. JobIsSound(k)
    BY DEF BookInv
  <2>1. CallIsSound(k)' /\ RowIsSound(k)' /\ RunIsSound(k)'
    BY <1>0, <1>1, <2>0 DEF JobIsSound, CallIsSound, RowIsSound, RunIsSound, ContentOf
  <2>2. WorkIsSound(k)'
    <3>1. k \in found => call[k].at \in Saved
      BY <2>0 DEF JobIsSound, RowIsSound, RecoveredStatuses, ActiveStatuses
    <3> HIDE DEF found
    <3> QED BY <1>0, <1>1, <2>0, <3>1 DEF JobIsSound, WorkIsSound
  <2>3. BudgetIsSound(k)'
    <3>1. Pending(k)' <= Pending(k) + 1 /\ Pending(k)' \in Nat
      BY <1>0 DEF Pending, One, Busy
    <3>2. k \in Busy' <=> k \in Busy
      BY <1>0 DEF Busy
    <3>3. /\ Pending(k) \in Nat /\ past.recoveries \in Nat
          /\ rows[k] # NoRow => rows[k].failures \in Nat
          /\ k \in Busy => worker[k].job.failures \in Nat
      BY Counts DEF Busy
    <3> HIDE DEF found
    <3> QED BY <1>0, <1>1, <2>0, <3>1, <3>2, <3>3, RetriesAssumption
            DEF JobIsSound, BudgetIsSound, Affordable
  <2> QED BY <2>1, <2>2, <2>3 DEF JobIsSound
<1>4. past'.runsMade \in Nat /\ past'.recoveries \in Nat
  BY <1>1 DEF BookInv
<1> QED BY <1>2, <1>3, <1>4 DEF BookInv

(* Removing files keeps them.                                              *)
LEMMA RemoveArtifactsStays ==
  ASSUME BookInv, RemoveArtifacts
  PROVE  BookInv'
<1>0. /\ removal.at = "files" /\ removal' = [removal EXCEPT !.at = "row"]
      /\ UNCHANGED <<call, request, docs, rows, runs, queue, worker, past>>
  BY DEF RemoveArtifacts
<1>1. /\ Shapes' /\ RemovalIsSound' /\ RunsHaveLatest'
      /\ past'.runsMade \in Nat /\ past'.recoveries \in Nat
  BY <1>0 DEF BookInv, Shapes, RemovalIsSound, RunsHaveLatest
<1>2. ASSUME NEW k \in Jobs PROVE JobIsSound(k)'
  BY <1>0 DEF BookInv, JobIsSound, CallIsSound, WorkIsSound, RowIsSound, RunIsSound, ContentOf,
       BudgetIsSound, Affordable, Pending, Busy
<1> QED BY <1>1, <1>2 DEF BookInv

(* Deleting the row and the run keeps them, as the removal is remembered.  *)
LEMMA DeleteRowStays ==
  ASSUME BookInv, DeleteRow
  PROVE  BookInv'
<1>1. PICK j \in Jobs : j = removal.job
  BY DEF DeleteRow, BookInv, RemovalIsSound
<1> DEFINE removed == past.removed \union {j}
           early == IF call[j].at \in {"saved", "counted"} THEN past.early \union {j} ELSE past.early
<1>0. /\ removal.at = "row" /\ removal' = [at |-> "idle", job |-> NoJob, row |-> NoRow]
      /\ rows' = [rows EXCEPT ![j] = NoRow]
      /\ runs' = IF rows[j] = NoRow THEN runs ELSE [runs EXCEPT ![j] = NoRun]
      /\ past' = [past EXCEPT !.removed = removed, !.early = early]
      /\ UNCHANGED <<call, request, docs, queue, worker>>
  BY <1>1 DEF DeleteRow, quietFiles, RunsWithout
<1>2. past.removed \subseteq removed /\ j \in removed /\ past.early \subseteq early
      /\ (call[j].at \in Inserting => j \in early)
  BY DEF Inserting
<1>4. /\ past'.removed = removed /\ past'.early = early /\ past'.overtaken = past.overtaken
      /\ past'.runsMade = past.runsMade /\ past'.recoveries = past.recoveries /\ IsPast(past')
  <2> HIDE DEF removed, early
  <2> QED BY <1>0 DEF BookInv, Shapes, IsPast
<1> HIDE DEF removed, early
<1>5. /\ RowsOf(j) /\ RunsKept /\ rows'[j] = NoRow
      /\ runs'[j] = IF rows[j] = NoRow THEN runs[j] ELSE NoRun
  BY <1>0 DEF BookInv, Shapes, RowsOf, RunsKept
<1>6. Shapes' /\ RemovalIsSound' /\ RunsHaveLatest'
  <2>1. RunsHaveLatest'
    BY <1>5, LatestKept DEF BookInv
  <2>2. Shapes'
    BY <1>0, <1>4, <1>5 DEF BookInv, Shapes, RowsOf
  <2> QED BY <1>0, <2>1, <2>2 DEF RemovalIsSound
<1>7. ASSUME NEW k \in Jobs \ {j} PROVE JobIsSound(k)'
  <2>1. call[k].at = "found" => docs'[ContentOf(k)].file \in Jobs
    BY <1>0 DEF BookInv, JobIsSound, CallIsSound
  <2>2. rows'[k] = rows[k] /\ runs'[k] = runs[k]
    BY <1>5 DEF RowsOf
  <2> QED BY <1>0, <1>2, <1>4, <2>1, <2>2, Untouched
<1>8. JobIsSound(j)'
  <2>1. CallIsSound(j)' /\ WorkIsSound(j)'
    BY <1>0, <1>4, <1>5 DEF BookInv, JobIsSound, CallIsSound, WorkIsSound, ContentOf
  <2>2. RowIsSound(j)'
    BY <1>0, <1>2, <1>4, <1>5 DEF BookInv, JobIsSound, RowIsSound
  <2>3. RunIsSound(j)'
    <3>1. CASE rows[j] = NoRow
      BY <1>0, <1>2, <1>4, <1>5, <3>1 DEF BookInv, JobIsSound, RunIsSound
    <3>2. CASE rows[j] # NoRow
      BY <1>5, <3>2 DEF RunIsSound
    <3> QED BY <3>1, <3>2
  <2>4. BudgetIsSound(j)'
    <3>1. WorkIsSound(j) /\ BudgetIsSound(j) /\ Shapes /\ past.recoveries \in Nat
      BY DEF BookInv, JobIsSound
    <3> QED BY <1>0, <1>4, <1>5, <3>1, BudgetKept
  <2> QED BY <2>1, <2>2, <2>3, <2>4 DEF JobIsSound
<1>9. past'.runsMade \in Nat /\ past'.recoveries \in Nat
  BY <1>4 DEF BookInv
<1> QED BY <1>6, <1>7, <1>8, <1>9 DEF BookInv

(* The file of a document is some job's upload.                             *)
DocsAreStored == \A c \in Contents : docs[c] # NoDoc => docs[c].file \in Jobs

(* The books are in order before there is a row.                           *)
LEMMA BooksStart ==
  ASSUME Init
  PROVE  BookInv /\ DocsAreStored
<1>1. PICK sc \in Scenarios :
        /\ request = sc.requests
        /\ call = [j \in Jobs |->
                    CallAt(IF sc.requests[j] = None THEN "none" ELSE "waiting", <<>>, NoJob, 0)]
  BY DEF Init
<1>2. /\ docs = [c \in Contents |-> NoDoc] /\ rows = [j \in Jobs |-> NoRow]
      /\ runs = [j \in Jobs |-> NoRun] /\ queue = {}
      /\ worker = [j \in Jobs |-> [at |-> "idle", using |-> <<>>, job |-> NoRow, left |-> <<>>]]
      /\ removal = [at |-> "idle", job |-> NoJob, row |-> NoRow]
      /\ past = [runsMade |-> 0, clashed |-> {}, mixed |-> {}, removed |-> {}, early |-> {},
                 overtaken |-> {}, recoveries |-> 0, recovered |-> {}, refused |-> past.refused]
  BY DEF Init
<1>3. /\ sc.requests = [j \in Jobs |-> sc.requests[j]]
      /\ \A j \in Jobs : sc.requests[j] # None => IsRequest(sc.requests[j])
  BY ScenariosAssumption
<1>4. /\ Shapes /\ RemovalIsSound /\ past.runsMade \in Nat /\ past.recoveries = 0
      /\ DocsAreStored
  BY <1>1, <1>2, <1>3 DEF Shapes, IsPast, CallAt, RemovalIsSound, DocsAreStored
<1>5. RunsHaveLatest
  BY <1>2 DEF RunsHaveLatest
<1>6. ASSUME NEW j \in Jobs PROVE JobIsSound(j)
  <2>1. CallIsSound(j) /\ WorkIsSound(j) /\ RowIsSound(j) /\ RunIsSound(j)
    BY <1>1, <1>2, <1>3 DEF CallIsSound, WorkIsSound, RowIsSound, RunIsSound, CallAt,
       CallSteps, WorkSteps, Owners, Saved, Inserting
  <2>2. BudgetIsSound(j)
    <3>1. j \notin queue /\ j \notin Busy /\ rows[j] = NoRow /\ call[j].at # "answered"
      BY <1>1, <1>2 DEF Busy, CallAt
    <3> QED BY <1>4, <3>1 DEF BudgetIsSound, Pending, One
  <2> QED BY <2>1, <2>2 DEF JobIsSound
<1> QED BY <1>4, <1>5, <1>6 DEF BookInv

(* Every step keeps the books in order.                                    *)
LEMMA BooksStay ==
  ASSUME BookInv, DocsAreStored, [Next]_vars
  PROVE  BookInv' /\ DocsAreStored'
<1>1. ASSUME NEW j \in Jobs, Call(j)
      PROVE  BookInv' /\ DocsAreStored'
  <2>1. BookInv'
    <3>1. CASE ReadDocument(j)
      <4>1. docs[ContentOf(j)].file \in Jobs
        BY <3>1, RequestsHaveContents DEF ReadDocument, DocsAreStored
      <4> QED BY <3>1, <4>1, ReadDocumentStays
    <3> QED BY <1>1, <3>1, CheckUploadStays, StoreUploadStays, UpsertDocumentStays,
               ReadStoragePathStays, SaveJobStays, ReadAttemptStays, InsertRunStays, EnqueueStays,
               EnqueueFailsStays DEF Call
  <2>2. DocsAreStored'
    <3>1. CASE UpsertDocument(j)
      <4> DEFINE upserted == [name |-> request[j].name, file |-> j]
      <4>1. docs' = [docs EXCEPT ![ContentOf(j)] = upserted] /\ upserted.file \in Jobs
        BY <3>1 DEF UpsertDocument
      <4> HIDE DEF upserted
      <4> QED BY <4>1 DEF BookInv, Shapes, DocsAreStored
    <3>2. CASE ~UpsertDocument(j)
      <4>1. docs' = docs
        BY <1>1, <3>2 DEF Call, CheckUpload, StoreUpload, ReadDocument, ReadStoragePath, SaveJob,
           ReadAttempt, InsertRun, Enqueue, EnqueueFails, quietFiles
      <4> QED BY <4>1 DEF DocsAreStored
    <3> QED BY <3>1, <3>2
  <2> QED BY <2>1, <2>2
<1>2. ASSUME NEW j \in Jobs, Work(j)
      PROVE  BookInv' /\ DocsAreStored'
  <2>1. docs' = docs
    BY <1>2 DEF Work, Take, Refuse, ConversionFails, Convert, Dispatch, WriteFile, WriteFails,
       WriteBreaks, StoredLocal, Complete, workOnly
  <2>2. CASE Refuse(j) \/ ConversionFails(j)
    <3>1. PICK reason : RetryOrFail(j, reason)
      BY <2>2 DEF Refuse, ConversionFails
    <3>2. worker[j].at = "parsing" /\ UNCHANGED <<call, docs, request, removal>>
      BY <2>2 DEF Refuse, ConversionFails, workOnly
    <3>3. BookInv'
      BY <3>1, <3>2, RetryOrFailStays
    <3> QED BY <2>1, <3>3 DEF DocsAreStored
  <2>3. CASE ~(Refuse(j) \/ ConversionFails(j))
    <3>1. BookInv'
      BY <1>2, <2>3, TakeStays, ConvertStays, DispatchStays, WriteFileStays, WriteFailsStays,
         WriteBreaksStays, StoredLocalStays, CompleteStays DEF Work
    <3> QED BY <2>1, <3>1 DEF DocsAreStored
  <2> QED BY <2>2, <2>3
<1>3. CASE \E j \in Jobs : RemovalStarts(j)
  BY <1>3, RemovalStartsStays DEF RemovalStarts, quietFiles, DocsAreStored
<1>7. CASE RecoverActiveJobs
  BY <1>7, RecoverStays DEF RecoverActiveJobs, quietFiles, DocsAreStored
<1>4. CASE RemoveArtifacts
  BY <1>4, RemoveArtifactsStays DEF RemoveArtifacts, DocsAreStored
<1>5. CASE DeleteRow
  BY <1>5, DeleteRowStays DEF DeleteRow, quietFiles, DocsAreStored
<1>6. CASE Update \/ Cleanup \/ DaysPass \/ UNCHANGED vars
  <2>1. UNCHANGED <<call, request, docs, rows, runs, queue, worker, removal, past>>
    BY <1>6 DEF Update, Cleanup, CleanupLists, CleanupScans, SweepUpload, SweepDir, DaysPass,
       quietSweep, vars
  <2> QED BY <2>1, QuietStep DEF DocsAreStored
<1> QED BY <1>1, <1>2, <1>3, <1>4, <1>5, <1>6, <1>7 DEF Next

(* _save_run_snapshot keeps a run at the status of its job; one of the two *)
(* is there without the other only as a removal, or the time between the   *)
(* inserts of save and create_run_for_job, explains.                       *)
THEOREM RunsAlwaysMirrorJobs == Spec => []RunMirrorsJob
<1>1. BookInv => RunMirrorsJob
  BY DEF BookInv, JobIsSound, RowIsSound, RunIsSound, RunMirrorsJob, Inserting
<1> QED BY <1>1, BooksStart, BooksStay, PTL DEF Spec
=============================================================================
