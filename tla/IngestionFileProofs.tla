------------------------ MODULE IngestionFileProofs -------------------------
(***************************************************************************)
(* The stored files: StorageCleanupService lists the active jobs first and *)
(* deletes files later, by age; JobRemovalService deletes the file its job *)
(* reads.  A file that an upload waits for is young, or its job was in the *)
(* list, or it went with another job that read it.                         *)
(***************************************************************************)
EXTENDS IngestionBookProofs

(* An upload whose file is stored and whose call has not answered, and a job that waits. *)
Storing == {"stored", "checked", "saved", "counted", "created"}
Waiting == {"PARSER_QUEUED", "RETRYABLE_FAILURE"}
Waits(j) == rows[j] # NoRow /\ rows[j].status \in Waiting

(* The file is gone with a job that was removed and read it, too. *)
GoneWithJob(j) ==
  \/ removal.at = "row" /\ removal.row.input = j
  \/ \E k \in past.removed : call[k].input = j

(* A file is young until its upload is answered, and cleanup spares it later. *)
FileIsSpared(j) ==
  \/ uploads[j] = "new"
  \/ /\ uploads[j] = "old" /\ call[j].at \notin Storing
     /\ cleanup.at = "idle" \/ j \in cleanup.active

FileIsSound(j) ==
  Uploading(j) /\ (call[j].at \in Storing \/ Waits(j)) => GoneWithJob(j) \/ FileIsSpared(j)

(* The inductive invariant of the uploaded files.                          *)
FileInv ==
  /\ uploads = [j \in Jobs |-> uploads[j]]
  /\ cleanup = [at |-> cleanup.at, active |-> cleanup.active, todo |-> cleanup.todo]
  /\ \A k \in past.removed : k \in Jobs /\ call[k].at \in Saved \union {"refused"}
  /\ \A j \in Jobs : FileIsSound(j) /\ (call[j].at = "found" => ~Uploading(j))

(* What a step does to the file of a job, if it does not store or delete it. *)
SparesFile(j) ==
  /\ uploads'[j] = uploads[j]
  /\ Uploading(j)' => Uploading(j)
  /\ Waits(j)' => Waits(j) \/ call[j].at \in Storing
  /\ Uploading(j) /\ call'[j].at \in Storing => call[j].at \in Storing
  /\ \/ cleanup'.at = "idle"
     \/ cleanup.at # "idle" /\ cleanup'.active = cleanup.active
     \/ Waits(j) => j \in cleanup'.active

(* A file that a step spares stays sound.                                  *)
LEMMA FileStays ==
  ASSUME NEW j \in Jobs, FileIsSound(j), GoneWithJob(j) => GoneWithJob(j)', SparesFile(j)
  PROVE  FileIsSound(j)'
<1> SUFFICES ASSUME Uploading(j)', call'[j].at \in Storing \/ Waits(j)', ~GoneWithJob(j)'
             PROVE  FileIsSpared(j)'
  BY DEF FileIsSound
<1>1. FileIsSpared(j) /\ Uploading(j)
  BY DEF FileIsSound, SparesFile
<1>2. CASE uploads[j] = "new"
  BY <1>2 DEF FileIsSpared, SparesFile
<1>3. CASE uploads[j] # "new"
  BY <1>1, <1>3 DEF FileIsSpared, SparesFile
<1> QED BY <1>2, <1>3

(* Calls that have saved or refused keep their input. *)
LEMMA InputsAreKept ==
  ASSUME BookInv, [Next]_vars, NEW k \in Jobs, call[k].at \in Saved \union {"refused"}
  PROVE  call'[k].at \in Saved \union {"refused"} /\ call'[k].input = call[k].input
<1>1. CASE call'[k] = call[k]
  BY <1>1
<1>2. CASE \E j \in Jobs : Call(j)
  <2>1. PICK j \in Jobs : Call(j)
    BY <1>2
  <2>2. CASE j # k
    <3>1. \E moved : call' = [call EXCEPT ![j] = moved]
      BY <2>1 DEF Call, CheckUpload, StoreUpload, UpsertDocument, ReadDocument, ReadStoragePath,
         SaveJob, ReadAttempt, InsertRun, Enqueue, EnqueueFails, Reject
    <3> QED BY <1>1, <2>2, <3>1 DEF BookInv, Shapes
  <2>3. CASE j = k
    <3>1. SaveJob(k) \/ ReadAttempt(k) \/ InsertRun(k) \/ Enqueue(k) \/ EnqueueFails(k)
      BY <2>1, <2>3 DEF Call, CheckUpload, StoreUpload, UpsertDocument, ReadDocument,
         ReadStoragePath, Saved, Inserting
    <3> QED BY <3>1 DEF SaveJob, ReadAttempt, InsertRun, Enqueue, EnqueueFails, CallAt, Saved,
         Inserting, BookInv, Shapes
  <2> QED BY <2>2, <2>3
<1>3. CASE ~\E j \in Jobs : Call(j)
  <2>1. UNCHANGED call
    BY <1>3, ZenonT(60) DEF Next, Update, Work, Take, Refuse, ConversionFails, Convert, Dispatch, WriteFile,
       WriteFails, WriteBreaks, StoredLocal, Complete, workOnly, RecoverActiveJobs, RemovalStarts, RemoveArtifacts, DeleteRow,
       Cleanup, CleanupLists, CleanupScans, SweepUpload, SweepDir, DaysPass, quietSweep, vars
  <2> QED BY <2>1
<1> QED BY <1>2, <1>3

(* Only the last step of a removal adds to the removed jobs.               *)
LEMMA RemovedChange ==
  ASSUME BookInv, [Next]_vars, ~DeleteRow
  PROVE  past'.removed = past.removed
<1>1. ASSUME NEW j \in Jobs, \/ ReadAttempt(j) \/ InsertRun(j) \/ Take(j) \/ WriteFile(j)
                             \/ WriteBreaks(j) \/ RemovalStarts(j)
      PROVE  past'.removed = past.removed
  <2>1. \/ \E clashed : past' = [past EXCEPT !.clashed = clashed]
        \/ \E mixed : past' = [past EXCEPT !.mixed = mixed]
        \/ \E made : past' = [past EXCEPT !.runsMade = made]
        \/ \E overtaken : past' = [past EXCEPT !.overtaken = overtaken]
    BY <1>1 DEF ReadAttempt, InsertRun, Take, WriteFile, WriteBreaks, RemovalStarts
  <2> QED BY <2>1 DEF BookInv, Shapes, IsPast
<1>2. ASSUME NEW j \in Jobs, NEW reason, RetryOrFail(j, reason)
      PROVE  past'.removed = past.removed
  BY <1>2 DEF RetryOrFail, BookInv, Shapes, IsPast
<1>3. \/ UNCHANGED past
      \/ RecoverActiveJobs
      \/ \E j \in Jobs : \/ ReadAttempt(j) \/ InsertRun(j) \/ Take(j) \/ WriteFile(j)
                         \/ WriteBreaks(j) \/ RemovalStarts(j)
                         \/ \E reason : RetryOrFail(j, reason)
  BY ZenonT(60) DEF Next, Update, Call, CheckUpload, StoreUpload, UpsertDocument, ReadDocument,
     ReadStoragePath, SaveJob, Enqueue, EnqueueFails, quietWork, Work, Refuse,
     ConversionFails, Convert, Dispatch, WriteFails, StoredLocal, Complete,
     RemoveArtifacts, Cleanup, CleanupLists, CleanupScans, SweepUpload, SweepDir, DaysPass,
     quietSweep, vars
<1>4. ASSUME RecoverActiveJobs
      PROVE  past'.removed = past.removed
  BY <1>4 DEF RecoverActiveJobs, BookInv, Shapes, IsPast
<1> QED BY <1>1, <1>2, <1>3, <1>4

(* It adds its job.                                                        *)
LEMMA RemovedGrow ==
  ASSUME BookInv, DeleteRow
  PROVE  past'.removed = past.removed \union {removal.job}
<1>1. \E early : past' = [past EXCEPT !.removed = past.removed \union {removal.job}, !.early = early]
  BY DEF DeleteRow
<1> QED BY <1>1 DEF BookInv, Shapes, IsPast

(* A file that went with a job is not missed again.                        *)
LEMMA GoneStays ==
  ASSUME BookInv, FileInv, [Next]_vars, NEW j \in Jobs, GoneWithJob(j)
  PROVE  GoneWithJob(j)'
<1>1. CASE \E k \in past.removed : call[k].input = j
  <2>1. PICK k \in past.removed : call[k].input = j
    BY <1>1
  <2>2. k \in past'.removed /\ call'[k].input = j
    BY <2>1, InputsAreKept, RemovedChange, RemovedGrow DEF FileInv
  <2> QED BY <2>2 DEF GoneWithJob
<1>2. CASE removal.at = "row" /\ removal.row.input = j
  <2>1. CASE DeleteRow
    <3>1. PICK k \in Jobs : k = removal.job /\ call[k].input = j
      BY <1>2, SMTT(20) DEF BookInv, RemovalIsSound
    <3>3. k \in past'.removed
      BY <2>1, <3>1, RemovedGrow
    <3>4. UNCHANGED call
      BY <2>1 DEF DeleteRow
    <3> QED BY <3>1, <3>3, <3>4 DEF GoneWithJob
  <2>2. CASE ~DeleteRow
    <3>1. UNCHANGED removal
      BY <1>2, <2>2, ZenonT(60) DEF Next, Update, Call, CheckUpload, StoreUpload, UpsertDocument, ReadDocument,
         ReadStoragePath, SaveJob, ReadAttempt, InsertRun, Enqueue, EnqueueFails, quietWork, Work,
         Take, Refuse, ConversionFails, Convert, Dispatch, WriteFile, WriteFails, WriteBreaks, StoredLocal,
         Complete, workOnly, RecoverActiveJobs, RemovalStarts, RemoveArtifacts, Cleanup, CleanupLists, CleanupScans,
         SweepUpload, SweepDir, DaysPass, quietSweep, vars
    <3> QED BY <1>2, <3>1 DEF GoneWithJob
  <2> QED BY <2>1, <2>2
<1> QED BY <1>1, <1>2 DEF GoneWithJob

(* save makes a job wait only if the row it saves does.                    *)
LEMMA SavedRowsWait ==
  ASSUME BookInv, NEW j \in Jobs, NEW row, Save(j, row)
  PROVE  /\ \A k \in Jobs \ {j} : Waits(k)' => Waits(k)
         /\ Waits(j)' => row.status \in Waiting
BY DEF Save, Waits, BookInv, Shapes

(* A call deletes no file; it makes a job wait only while its own is       *)
(* young.                                                                  *)
LEMMA CallsSpareFiles ==
  ASSUME BookInv, FileInv, NEW j \in Jobs, Call(j), NEW k \in Jobs
  PROVE  FileIsSpared(k)' \/ SparesFile(k)
<1>1. UNCHANGED cleanup
  BY DEF Call, CheckUpload, StoreUpload, UpsertDocument, ReadDocument, ReadStoragePath, SaveJob,
     ReadAttempt, InsertRun, Enqueue, EnqueueFails, quietWork
<1>2. Uploading(k)' => Uploading(k)
  <2>1. CASE ReadDocument(j)
    <3>1. \E name : request' = [request EXCEPT ![j] = [request[j] EXCEPT !.name = name]]
      BY <2>1 DEF ReadDocument
    <3>2. IsRequest(request[j])
      BY <2>1 DEF ReadDocument, BookInv, JobIsSound, CallIsSound
    <3> QED BY <3>1, <3>2 DEF IsRequest, Uploading, BookInv, Shapes
  <2>2. CASE ~ReadDocument(j)
    <3>1. UNCHANGED request
      BY <2>2 DEF Call, CheckUpload, StoreUpload, UpsertDocument, ReadStoragePath, SaveJob,
         ReadAttempt, InsertRun, Enqueue, EnqueueFails, quietWork
    <3> QED BY <3>1 DEF Uploading
  <2> QED BY <2>1, <2>2
<1>3. Waits(k)' => Waits(k) \/ call[k].at \in Storing
  <2>1. CASE SaveJob(j) \/ EnqueueFails(j)
    <3>1. call[j].at \in Storing /\ \E row : Save(j, row)
      BY <2>1 DEF SaveJob, EnqueueFails, Storing
    <3> QED BY <3>1, SavedRowsWait
  <2>2. CASE Reject(j)
    <3>1. UNCHANGED rows \/ \E row : Save(j, row) /\ row.status = "FAILED"
      BY <2>2 DEF Reject, NewRow
    <3> QED BY <3>1, SavedRowsWait DEF Waits, Waiting
  <2>3. CASE UNCHANGED rows
    BY <2>3 DEF Waits
  <2> QED BY <2>1, <2>2, <2>3 DEF Call, CheckUpload, StoreUpload, UpsertDocument, ReadDocument,
         ReadStoragePath, ReadAttempt, InsertRun, Enqueue
<1>4. Uploading(k) /\ call'[k].at \in Storing => call[k].at \in Storing \/ FileIsSpared(k)'
  <2>1. CASE k # j
    <3>1. \E moved : call' = [call EXCEPT ![j] = moved]
      BY DEF Call, CheckUpload, StoreUpload, UpsertDocument, ReadDocument, ReadStoragePath,
         SaveJob, ReadAttempt, InsertRun, Enqueue, EnqueueFails, Reject
    <3> QED BY <2>1, <3>1 DEF BookInv, Shapes
  <2>2. CASE k = j
    <3>1. CASE StoreUpload(j) /\ SizeValid(Settings(call[j].seen), request[j])
      <4>1. uploads' = [uploads EXCEPT ![j] = "new"]
        BY <3>1 DEF StoreUpload
      <4> QED BY <2>2, <4>1 DEF FileInv, FileIsSpared
    <3>2. CASE CheckUpload(j) \/ (StoreUpload(j) /\ ~SizeValid(Settings(call[j].seen), request[j]))
      <4>1. call'[j].at \notin Storing
        BY <3>2 DEF CheckUpload, StoreUpload, Reject, CallAt, Storing, BookInv, Shapes
      <4> QED BY <2>2, <4>1
    <3>3. CASE ReadDocument(j) \/ ReadStoragePath(j)
      BY <2>2, <3>3 DEF ReadDocument, ReadStoragePath, FileInv
    <3>4. CASE ~(CheckUpload(j) \/ StoreUpload(j) \/ ReadDocument(j) \/ ReadStoragePath(j))
      BY <2>2, <3>4 DEF Call, UpsertDocument, SaveJob, ReadAttempt, InsertRun, Enqueue,
         EnqueueFails, Storing, BookInv, Shapes
    <3> QED BY <3>1, <3>2, <3>3, <3>4
  <2> QED BY <2>1, <2>2
<1>5. uploads'[k] = uploads[k] \/ FileIsSpared(k)'
  <2>1. UNCHANGED uploads \/ uploads' = [uploads EXCEPT ![j] = "new"]
    BY DEF Call, CheckUpload, StoreUpload, UpsertDocument, ReadDocument, ReadStoragePath, SaveJob,
       ReadAttempt, InsertRun, Enqueue, EnqueueFails, quietFiles
  <2> QED BY <2>1 DEF FileIsSpared, FileInv
<1> QED BY <1>1, <1>2, <1>3, <1>4, <1>5 DEF SparesFile

(* A worker deletes no upload and makes no job wait for its first parse.   *)
LEMMA WorkSparesFiles ==
  ASSUME BookInv, NEW j \in Jobs, Work(j), NEW k \in Jobs
  PROVE  SparesFile(k)
<1>1. UNCHANGED <<call, request, uploads, cleanup>>
  BY DEF Work, Take, Refuse, ConversionFails, Convert, Dispatch, WriteFile, WriteFails, WriteBreaks,
     StoredLocal, Complete, workOnly
<1>2. Waits(k)' => Waits(k)
  <2>1. ASSUME NEW row \in Row, NEW status \in Statuses \ Waiting,
               Save(j, [row EXCEPT !.status = status])
        PROVE  Waits(k)' => Waits(k)
    <3>1. [row EXCEPT !.status = status].status = status
      BY DEF Row
    <3> QED BY <2>1, <3>1, SavedRowsWait
  <2>2. {"PARSING", "DISPATCH_QUEUED", "DISPATCHING", "FAILED", "RETRYING", "COMPLETED"}
          \subseteq Statuses \ Waiting
    BY DEF Statuses, Waiting
  <2>3. rows[j] = NoRow \/ rows[j] \in Row
    BY DEF BookInv, Shapes
  <2>4. CASE Take(j)
    BY <2>1, <2>2, <2>3, <2>4 DEF Take, Waits
  <2>5. ASSUME NEW reason, RetryOrFail(j, reason), worker[j].at = "parsing"
        PROVE  Waits(k)' => Waits(k)
    <3> DEFINE latest == LatestJob(j)
               status == IF HasBudget(latest.failures + 1) THEN "RETRYING" ELSE "FAILED"
               row == [latest EXCEPT !.failures = latest.failures + 1, !.status = status]
    <3>1. Save(j, row)
      BY <2>5 DEF RetryOrFail
    <3>2. latest \in Row
      BY <2>5, LatestJobs DEF Busy
    <3>3. status \notin Waiting
      BY DEF Waiting
    <3> HIDE DEF latest, status
    <3>4. row.status = status
      BY <3>2 DEF Row
    <3> HIDE DEF row
    <3> QED BY <3>1, <3>3, <3>4, SavedRowsWait
  <2>6. CASE Refuse(j) \/ ConversionFails(j)
    BY <2>5, <2>6 DEF Refuse, ConversionFails
  <2>7. CASE Convert(j)
    <3>1. worker[j].at = "parsing" /\ LatestJob(j) \in Row
      BY <2>7, LatestJobs DEF Convert, Busy
    <3>2. \/ \E reason : RetryOrFail(j, reason)
          \/ Save(j, [LatestJob(j) EXCEPT !.status = "DISPATCH_QUEUED"])
      BY <2>7 DEF Convert
    <3> QED BY <2>1, <2>2, <2>5, <3>1, <3>2
  <2>8. CASE WriteFile(j)
    BY <2>8 DEF WriteFile, Waits
  <2>9. CASE StoredLocal(j)
    <3>1. rows[j] # NoRow => [rows[j] EXCEPT !.status = "STORED_LOCAL", !.outputs = TRUE].status
                               = "STORED_LOCAL"
      BY <2>3 DEF Row
    <3>2. UNCHANGED rows \/ \E row : Save(j, row) /\ row.status = "STORED_LOCAL"
      BY <2>9, <3>1 DEF StoredLocal
    <3> QED BY <3>2, SavedRowsWait DEF Waits, Waiting
  <2>10. CASE Dispatch(j) \/ Complete(j)
    BY <2>1, <2>2, <2>3, <2>10 DEF Dispatch, Complete, Waits
  <2>11. CASE WriteFails(j) \/ WriteBreaks(j)
    <3>1. DispatchFails(j)
      BY <2>11 DEF WriteFails, WriteBreaks
    <3> QED BY <2>1, <2>2, <2>3, <3>1 DEF DispatchFails, Waits
  <2> QED BY <2>4, <2>6, <2>7, <2>8, <2>9, <2>10, <2>11 DEF Work
<1> QED BY <1>1, <1>2 DEF SparesFile, Uploading

(* A removal deletes a file only of a job it will remember.                *)
LEMMA RemovalsAreKnown ==
  ASSUME BookInv, FileInv, NEW j \in Jobs, FileIsSound(j),
         (\E k \in Jobs : RemovalStarts(k)) \/ RemoveArtifacts \/ DeleteRow
  PROVE  SparesFile(j) \/ GoneWithJob(j)'
<1>1. UNCHANGED <<call, request, cleanup>>
  BY DEF RemovalStarts, RemoveArtifacts, DeleteRow
<1>2. Waits(j)' => Waits(j)
  BY DEF RemovalStarts, RemoveArtifacts, DeleteRow, Waits, BookInv, Shapes
<1>3. uploads'[j] = uploads[j] \/ GoneWithJob(j)'
  <2>1. CASE RemoveArtifacts /\ removal.row.input = j
    BY <2>1 DEF RemoveArtifacts, GoneWithJob, BookInv, Shapes
  <2>2. CASE RemoveArtifacts /\ removal.row.input # j
    BY <2>2 DEF RemoveArtifacts, FileInv
  <2>3. CASE ~RemoveArtifacts
    BY <2>3 DEF RemovalStarts, DeleteRow, quietFiles
  <2> QED BY <2>1, <2>2, <2>3
<1> QED BY <1>1, <1>2, <1>3 DEF SparesFile, Uploading

(* Cleanup deletes no file of a waiting job: it listed it as active, or    *)
(* the file is young.                                                      *)
LEMMA CleanupSparesFiles ==
  ASSUME BookInv, FileInv, NEW j \in Jobs, FileIsSound(j), Cleanup
  PROVE  FileIsSound(j)'
<1>1. UNCHANGED <<call, request, rows, past, removal>>
  BY DEF Cleanup, CleanupLists, CleanupScans, SweepUpload, SweepDir, quietSweep
<1>2. GoneWithJob(j) => GoneWithJob(j)'
  BY <1>1 DEF GoneWithJob
<1>3. Waits(j) => j \in ActiveJobs
  BY DEF Waits, Waiting, ActiveJobs, ActiveStatuses
<1>4. \/ cleanup'.at = "idle"
      \/ cleanup.at # "idle" /\ cleanup'.active = cleanup.active
      \/ Waits(j) => j \in cleanup'.active
  <2>1. CASE CleanupLists
    BY <1>3, <2>1 DEF CleanupLists
  <2>2. CASE ~CleanupLists
    <3>1. cleanup.at # "idle" /\ (cleanup' = CleanupOver \/ \E todo : cleanup' = Left(todo))
      BY <2>2 DEF Cleanup, CleanupScans, SweepUpload, SweepDir
    <3>2. CASE cleanup' = CleanupOver
      BY <3>2 DEF CleanupOver
    <3>3. ASSUME NEW todo, cleanup' = Left(todo)
          PROVE  cleanup'.at = "idle" \/ cleanup'.active = cleanup.active
      BY <3>3 DEF Left, CleanupOver, FileInv
    <3> QED BY <3>1, <3>2, <3>3
  <2> QED BY <2>1, <2>2
<1>5. uploads'[j] = uploads[j] \/ (j \notin cleanup.active /\ uploads[j] = "old" /\ cleanup.at # "idle")
  BY DEF Cleanup, CleanupLists, CleanupScans, SweepUpload, SweepDir, FileInv
<1>6. CASE uploads'[j] = uploads[j]
  BY <1>1, <1>2, <1>4, <1>6, FileStays DEF SparesFile, Uploading, Waits
<1>7. CASE j \notin cleanup.active /\ uploads[j] = "old" /\ cleanup.at # "idle"
  BY <1>1, <1>2, <1>7 DEF FileIsSound, FileIsSpared, Uploading, Waits
<1> QED BY <1>5, <1>6, <1>7

(* Files grow old only when no call and no cleanup is half done.           *)
LEMMA DaysSpareFiles ==
  ASSUME BookInv, FileInv, NEW j \in Jobs, FileIsSound(j), DaysPass
  PROVE  FileIsSound(j)'
<1>1. UNCHANGED <<call, request, rows, past, removal, cleanup>> /\ cleanup.at = "idle"
  BY DEF DaysPass, quietSweep
<1>2. call[j].at \notin Storing
  BY DEF DaysPass, Storing
<1>3. uploads'[j] = IF uploads[j] = "none" THEN "none" ELSE "old"
  BY DEF DaysPass
<1> QED BY <1>1, <1>2, <1>3 DEF FileIsSound, FileIsSpared, GoneWithJob, Uploading, Waits

(* Only a re-run looks for the path of a document's file.                  *)
LEMMA FoundsStay ==
  ASSUME BookInv, [Next]_vars, NEW j \in Jobs, call[j].at = "found" => ~Uploading(j)
  PROVE  call'[j].at = "found" => ~Uploading(j)'
<1>1. ASSUME NEW k \in Jobs, ReadDocument(k)
      PROVE  call'[j].at = "found" => ~Uploading(j)'
  <2>1. PICK name, moved : /\ request' = [request EXCEPT ![k] = [request[k] EXCEPT !.name = name]]
                           /\ call' = [call EXCEPT ![k] = moved]
    BY <1>1 DEF ReadDocument
  <2>2. ~Uploading(k) /\ IsRequest(request[k])
    BY <1>1 DEF ReadDocument, BookInv, JobIsSound, CallIsSound
  <2> QED BY <2>1, <2>2 DEF IsRequest, Uploading, BookInv, Shapes
<1>2. CASE ~\E k \in Jobs : ReadDocument(k)
  <2>1. UNCHANGED request
    BY <1>2, ZenonT(60) DEF Next, Update, Call, CheckUpload, StoreUpload, UpsertDocument, ReadStoragePath,
       SaveJob, ReadAttempt, InsertRun, Enqueue, EnqueueFails, quietWork, Work, Take, Refuse,
       ConversionFails, Convert, Dispatch, WriteFile, WriteFails, WriteBreaks, StoredLocal, Complete, workOnly,
       RecoverActiveJobs, RemovalStarts, RemoveArtifacts, DeleteRow, Cleanup, CleanupLists, CleanupScans, SweepUpload,
       SweepDir, DaysPass, quietSweep, vars
  <2>2. call'[j].at = "found" => call[j].at = "found"
    <3>1. CASE \E k \in Jobs : Call(k)
      <4>1. PICK k \in Jobs : Call(k) /\ ~ReadDocument(k)
        BY <1>2, <3>1
      <4>2. CASE k = j
        BY <4>1, <4>2 DEF Call, CheckUpload, StoreUpload, UpsertDocument, ReadStoragePath, SaveJob,
           ReadAttempt, InsertRun, Enqueue, EnqueueFails, Reject, CallAt, BookInv, Shapes
      <4>3. CASE k # j
        <5>1. \E moved : call' = [call EXCEPT ![k] = moved]
          BY <4>1 DEF Call, CheckUpload, StoreUpload, UpsertDocument, ReadStoragePath,
             SaveJob, ReadAttempt, InsertRun, Enqueue, EnqueueFails, Reject
        <5> QED BY <4>3, <5>1 DEF BookInv, Shapes
      <4> QED BY <4>2, <4>3
    <3>2. CASE ~\E k \in Jobs : Call(k)
      BY <3>2, ZenonT(60) DEF Next, Update, Work, Take, Refuse, ConversionFails, Convert, Dispatch, WriteFile,
         WriteFails, WriteBreaks, StoredLocal, Complete, workOnly, RecoverActiveJobs, RemovalStarts, RemoveArtifacts, DeleteRow,
         Cleanup, CleanupLists, CleanupScans, SweepUpload, SweepDir, DaysPass, quietSweep, vars
    <3> QED BY <3>1, <3>2
  <2> QED BY <2>1, <2>2 DEF Uploading
<1> QED BY <1>1, <1>2

(* Every step leaves a table of files and a cleanup with its three parts.  *)
LEMMA FileShapes ==
  ASSUME BookInv, FileInv, [Next]_vars
  PROVE  /\ uploads' = [j \in Jobs |-> uploads'[j]]
         /\ cleanup' = [at |-> cleanup'.at, active |-> cleanup'.active, todo |-> cleanup'.todo]
<1>1. uploads' = [j \in Jobs |-> uploads'[j]]
  <2>1. \/ UNCHANGED uploads
        \/ \E i, age : uploads' = [uploads EXCEPT ![i] = age]
        \/ uploads' = [j \in Jobs |-> IF uploads[j] = "none" THEN "none" ELSE "old"]
    BY ZenonT(60) DEF Next, Update, Call, CheckUpload, StoreUpload, UpsertDocument, ReadDocument,
       ReadStoragePath, SaveJob, ReadAttempt, InsertRun, Enqueue, EnqueueFails, quietFiles, Work,
       Take, Refuse, ConversionFails, Convert, Dispatch, WriteFile, WriteFails, WriteBreaks, StoredLocal,
       Complete, workOnly, RecoverActiveJobs, RemovalStarts, RemoveArtifacts, DeleteRow, Cleanup, CleanupLists,
       CleanupScans, SweepUpload, SweepDir, DaysPass, vars
  <2> QED BY <2>1 DEF FileInv
<1>2. cleanup' = [at |-> cleanup'.at, active |-> cleanup'.active, todo |-> cleanup'.todo]
  <2>1. \/ UNCHANGED cleanup
        \/ \E active : cleanup' = [at |-> "listed", active |-> active, todo |-> {}]
        \/ cleanup' = CleanupOver
        \/ \E todo : cleanup' = Left(todo)
    BY ZenonT(60) DEF Next, Update, Call, CheckUpload, StoreUpload, UpsertDocument, ReadDocument,
       ReadStoragePath, SaveJob, ReadAttempt, InsertRun, Enqueue, EnqueueFails, quietWork, Work,
       Take, Refuse, ConversionFails, Convert, Dispatch, WriteFile, WriteFails, WriteBreaks, StoredLocal,
       Complete, workOnly, RecoverActiveJobs, RemovalStarts, RemoveArtifacts, DeleteRow, Cleanup, CleanupLists,
       CleanupScans, SweepUpload, SweepDir, DaysPass, vars
  <2>2. ASSUME NEW todo, cleanup' = Left(todo)
        PROVE  cleanup' = [at |-> cleanup'.at, active |-> cleanup'.active, todo |-> cleanup'.todo]
    BY <2>2 DEF Left, CleanupOver, FileInv
  <2> QED BY <2>1, <2>2 DEF FileInv, CleanupOver
<1> QED BY <1>1, <1>2

(* A removed job's call had saved its row or refused: its input is         *)
(* settled.                                                                *)
LEMMA RemovedAreOver ==
  ASSUME BookInv, FileInv, [Next]_vars, NEW k \in past'.removed
  PROVE  k \in Jobs /\ call'[k].at \in Saved \union {"refused"}
<1>1. CASE k \in past.removed
  BY <1>1, InputsAreKept DEF FileInv
<1>2. CASE k \notin past.removed
  <2>1. DeleteRow
    BY <1>2, RemovedChange
  <2>3. past'.removed = past.removed \union {removal.job}
    BY <2>1, RemovedGrow
  <2>4. k = removal.job /\ removal.at = "row" /\ UNCHANGED call
    BY <1>2, <2>1, <2>3 DEF DeleteRow
  <2> QED BY <2>4 DEF BookInv, RemovalIsSound
<1> QED BY <1>1, <1>2

(* Every step keeps the files sound.                                       *)
LEMMA FileInvStays ==
  ASSUME BookInv, FileInv, [Next]_vars
  PROVE  FileInv'
<1>1. ASSUME NEW j \in Jobs
      PROVE  FileIsSound(j)'
  <2>1. FileIsSound(j) /\ (GoneWithJob(j) => GoneWithJob(j)')
    BY GoneStays DEF FileInv
  <2>2. ASSUME SparesFile(j) \/ FileIsSpared(j)' \/ GoneWithJob(j)'
        PROVE  FileIsSound(j)'
    <3>1. CASE SparesFile(j)
      BY <2>1, <3>1, FileStays
    <3> QED BY <2>2, <3>1 DEF FileIsSound
  <2>3. CASE \E k \in Jobs : Call(k)
    BY <2>2, <2>3, CallsSpareFiles
  <2>4. CASE \E k \in Jobs : Work(k)
    BY <2>2, <2>4, WorkSparesFiles
  <2>5. CASE (\E k \in Jobs : RemovalStarts(k)) \/ RemoveArtifacts \/ DeleteRow
    BY <2>1, <2>2, <2>5, RemovalsAreKnown
  <2>6. CASE Cleanup
    BY <2>1, <2>6, CleanupSparesFiles
  <2>7. CASE DaysPass
    BY <2>1, <2>7, DaysSpareFiles
  <2>8. CASE Update \/ RecoverActiveJobs \/ UNCHANGED vars
    <3>1. UNCHANGED <<call, request, rows, uploads, cleanup>>
      BY <2>8 DEF Update, RecoverActiveJobs, quietFiles, vars
    <3>2. SparesFile(j)
      BY <3>1 DEF SparesFile, Uploading, Waits
    <3> QED BY <2>2, <3>2
  <2> QED BY <2>3, <2>4, <2>5, <2>6, <2>7, <2>8 DEF Next
<1>2. ASSUME NEW j \in Jobs PROVE (call[j].at = "found" => ~Uploading(j))'
  BY FoundsStay DEF FileInv
<1>3. \A k \in past'.removed : k \in Jobs /\ call'[k].at \in Saved \union {"refused"}
  BY RemovedAreOver
<1> QED BY <1>1, <1>2, <1>3, FileShapes DEF FileInv

(* There is no file, and no job, in the beginning.                         *)
LEMMA FilesStart == ASSUME Init PROVE FileInv
<1>1. PICK sc \in Scenarios :
        call = [j \in Jobs |->
                  CallAt(IF sc.requests[j] = None THEN "none" ELSE "waiting", <<>>, NoJob, 0)]
  BY DEF Init
<1>2. \A j \in Jobs : call[j].at \in {"none", "waiting"}
  BY <1>1 DEF CallAt
<1>3. /\ rows = [j \in Jobs |-> NoRow] /\ uploads = [j \in Jobs |-> "none"]
      /\ cleanup = [at |-> "idle", active |-> {}, todo |-> {}] /\ past.removed = {}
  BY DEF Init
<1>4. \A j \in Jobs : FileIsSound(j)
  BY <1>2, <1>3 DEF FileIsSound, Storing, Waits
<1> QED BY <1>2, <1>3, <1>4 DEF FileInv

(* The file of an upload that waits for its first parse is there whatever  *)
(* cleanup(dry_run=False) deletes, unless remove_job removed a job that    *)
(* read it.                                                                *)
THEOREM InputAlwaysSurvives == Spec => []InputSurvives
<1>1. Init => BookInv /\ DocsAreStored /\ FileInv
  BY BooksStart, FilesStart
<1>2. BookInv /\ DocsAreStored /\ FileInv /\ [Next]_vars => (BookInv /\ DocsAreStored /\ FileInv)'
  BY BooksStay, FileInvStays
<1>3. FileInv => InputSurvives
  <2> SUFFICES ASSUME FileInv, NEW j \in Jobs, Waits(j), Uploading(j), ~GoneWithJob(j)
               PROVE  uploads[j] # "none"
    BY DEF InputSurvives, Waits, Waiting, GoneWithJob
  <2> QED BY DEF FileInv, FileIsSound, FileIsSpared
<1> QED BY <1>1, <1>2, <1>3, PTL DEF Spec

-----------------------------------------------------------------------------
(* The output files of a document's directory: LocalParseOutputWriter      *)
(* writes them one by one, other runs of the document write the same       *)
(* names, a removal or a cleanup deletes the directory, a killed process   *)
(* or a failed write leaves it half written, until a run writes it alone.  *)


(* What a worker may still have to write.                                  *)
Remaining(j) ==
  IF request[j].html
  THEN {<<"markdown", "rag", "html", "metadata">>, <<"rag", "html", "metadata">>,
        <<"html", "metadata">>, <<"metadata">>, <<>>}
  ELSE {<<"markdown", "rag", "metadata">>, <<"rag", "metadata">>, <<"metadata">>, <<>>}

(* The files still to write, one file later.                               *)
LEMMA Remainders ==
  ASSUME NEW j, NEW left \in Remaining(j), left # <<>>
  PROVE  /\ Tail(left) \in Remaining(j) /\ Tail(left) # WriteOrder(j)
         /\ Head(left) = "markdown" <=> left = WriteOrder(j)
         /\ Head(left) = "markdown" => Tail(left) # <<>> /\ Head(Tail(left)) = "rag"
         /\ Head(left) = "rag" => Tail(left) # <<>> /\ Head(Tail(left)) \in {"html", "metadata"}
                                  /\ (request[j].html <=> Head(Tail(left)) = "html")
         /\ Head(left) = "html" => Tail(left) # <<>> /\ Head(Tail(left)) = "metadata"
         /\ Head(left) = "metadata" <=> Tail(left) = <<>>
         /\ Head(left) \in {"markdown", "rag", "html", "metadata"}
<1>1. CASE request[j].html
  <2>1. CASE left = <<"markdown", "rag", "html", "metadata">>
    BY <1>1, <2>1 DEF Remaining, WriteOrder
  <2>2. CASE left = <<"rag", "html", "metadata">>
    BY <1>1, <2>2 DEF Remaining, WriteOrder
  <2>3. CASE left = <<"html", "metadata">>
    BY <1>1, <2>3 DEF Remaining, WriteOrder
  <2>4. CASE left = <<"metadata">>
    BY <1>1, <2>4 DEF Remaining, WriteOrder
  <2> QED BY <1>1, <2>1, <2>2, <2>3, <2>4 DEF Remaining
<1>2. CASE ~request[j].html
  <2>1. CASE left = <<"markdown", "rag", "metadata">>
    BY <1>2, <2>1 DEF Remaining, WriteOrder
  <2>2. CASE left = <<"rag", "metadata">>
    BY <1>2, <2>2 DEF Remaining, WriteOrder
  <2>3. CASE left = <<"metadata">>
    BY <1>2, <2>3 DEF Remaining, WriteOrder
  <2> QED BY <1>2, <2>1, <2>2, <2>3 DEF Remaining
<1> QED BY <1>1, <1>2

(* A directory: who wrote which file, and its age.                         *)
DirEntries == {"age", "markdown", "rag", "html", "metadata"}
DirShape(dir) == dir = [f \in DirEntries |-> dir[f]]

(* A directory that grows old keeps its files.                             *)
LEMMA DirAged ==
  ASSUME NEW dir, DirShape(dir), NEW age
  PROVE  LET new == [dir EXCEPT !.age = age]
         IN  DirShape(new) /\ \A f \in DirEntries \ {"age"} : new[f] = dir[f]
BY DEF DirShape, DirEntries

(* The call saved its job or refused: its request is final.                *)
Over(k) == call[k].at \in Saved \union {"refused"}

(* The directory of one run, whose call is over.                           *)
Whole(dir) ==
  /\ dir["markdown"] \in Jobs /\ Over(dir["markdown"])
  /\ dir["rag"] = dir["markdown"] /\ dir["metadata"] = dir["markdown"]
  /\ dir["html"] \notin {NoJob, dir["markdown"]} => ~request[dir["markdown"]].html

(* The directory that k has begun to write. *)
Partial(k, dir) ==
  /\ dir["markdown"] = k
  /\ Head(worker[k].left) # "rag" => dir["rag"] = k
  /\ Head(worker[k].left) = "metadata" /\ request[k].html => dir["html"] = k

(* k is between the first and the last file of c.                          *)
MidOn(k, c) == MidWrite(k) /\ ContentOf(k) = c

OneWriter(c) == \A k, l \in Jobs : MidOn(k, c) /\ MidOn(l, c) => k = l

(* A directory is whole, or partly the one writer's.                       *)
DirIsOneRuns(c) ==
  dirs[c] # NoDir =>
    /\ \A k \in Jobs : MidOn(k, c) => Partial(k, dirs[c])
    /\ (\A k \in Jobs : ~MidOn(k, c)) => Whole(dirs[c])

(* A worker's remaining files are a tail of the order.                     *)
LeftIsSound(j) ==
  worker[j].at = "writing" =>
    /\ worker[j].left \in Remaining(j)
    /\ ~StoresLocal(Settings(worker[j].using), request[j]) => worker[j].left = <<>>

(* The inductive invariant of the output directories.                      *)
OutputInv ==
  /\ dirs = [c \in Contents |-> dirs[c]]
  /\ \A c \in Contents : dirs[c] # NoDir => DirShape(dirs[c])
  /\ \A j \in Jobs : LeftIsSound(j)
  /\ \A c \in Contents \ past.mixed : OneWriter(c) /\ DirIsOneRuns(c)

(* Once a call has saved or refused, its request no longer changes.        *)
LEMMA RequestsKept ==
  ASSUME BookInv, [Next]_vars, NEW k \in Jobs, Over(k)
  PROVE  Over(k)' /\ request'[k] = request[k]
<1>1. Over(k)'
  BY InputsAreKept DEF Over
<1>2. CASE \E j \in Jobs : ReadDocument(j)
  <2>1. PICK j \in Jobs :
             call[j].at = "waiting" /\ \E r : request' = [request EXCEPT ![j] = r]
    BY <1>2 DEF ReadDocument
  <2>2. j # k
    BY <2>1 DEF Over, Saved, Inserting
  <2> QED BY <1>1, <2>1, <2>2 DEF BookInv, Shapes
<1>3. CASE ~\E j \in Jobs : ReadDocument(j)
  <2>1. UNCHANGED request
    BY <1>3, ZenonT(60) DEF Next, Update, Call, CheckUpload, StoreUpload, UpsertDocument, ReadStoragePath,
       SaveJob, ReadAttempt, InsertRun, Enqueue, EnqueueFails, quietWork, Work, Take, Refuse,
       ConversionFails, Convert, Dispatch, WriteFile, WriteFails, WriteBreaks, StoredLocal, Complete, workOnly,
       RecoverActiveJobs, RemovalStarts, RemoveArtifacts, DeleteRow, Cleanup, CleanupLists, CleanupScans, SweepUpload,
       SweepDir, DaysPass, quietSweep, vars
  <2> QED BY <1>1, <2>1
<1> QED BY <1>2, <1>3

(* The files of a directory stay, whatever becomes of its age.             *)
FilesStay(c) ==
  dirs'[c] # NoDir => dirs[c] # NoDir /\ \A f \in DirEntries \ {"age"} : dirs'[c][f] = dirs[c][f]

(* Who writes into it goes on, and nobody joins.                           *)
WritersStay(c) ==
  /\ \A k \in Jobs : MidOn(k, c)' => MidOn(k, c) /\ worker'[k].left = worker[k].left
                                     /\ request'[k] = request[k]
  /\ \A k \in Jobs : MidOn(k, c) /\ dirs'[c] # NoDir => MidOn(k, c)'

(* A directory with the same files and writers stays one run's.            *)
LEMMA DirStays ==
  ASSUME BookInv, [Next]_vars, NEW c, OneWriter(c), DirIsOneRuns(c), FilesStay(c), WritersStay(c)
  PROVE  OneWriter(c)' /\ DirIsOneRuns(c)'
<1>1. OneWriter(c)'
  BY DEF OneWriter, WritersStay
<1>2. ASSUME dirs'[c] # NoDir, NEW k \in Jobs, MidOn(k, c)'
      PROVE  Partial(k, dirs[c])'
  <2>1. MidOn(k, c) /\ worker'[k].left = worker[k].left /\ request'[k] = request[k]
    BY <1>2 DEF WritersStay
  <2>2. Partial(k, dirs[c])
    BY <1>2, <2>1 DEF DirIsOneRuns, FilesStay
  <2>3. /\ dirs'[c]["markdown"] = dirs[c]["markdown"] /\ dirs'[c]["rag"] = dirs[c]["rag"]
        /\ dirs'[c]["html"] = dirs[c]["html"]
    BY <1>2 DEF FilesStay, DirEntries
  <2> QED BY <2>1, <2>2, <2>3 DEF Partial
<1>3. ASSUME dirs'[c] # NoDir, \A k \in Jobs : ~MidOn(k, c)'
      PROVE  Whole(dirs[c])'
  <2>1. Whole(dirs[c])
    BY <1>3 DEF WritersStay, FilesStay, DirIsOneRuns
  <2>2. /\ dirs'[c]["markdown"] = dirs[c]["markdown"] /\ dirs'[c]["rag"] = dirs[c]["rag"]
        /\ dirs'[c]["html"] = dirs[c]["html"] /\ dirs'[c]["metadata"] = dirs[c]["metadata"]
    BY <1>3 DEF FilesStay, DirEntries
  <2> DEFINE owner == dirs[c]["markdown"]
  <2>3. owner \in Jobs /\ Over(owner)
    BY <2>1 DEF Whole
  <2>4. PICK k \in Jobs : k = owner
    BY <2>3
  <2>5. Over(k)' /\ request'[k] = request[k]
    BY <2>3, <2>4, RequestsKept
  <2> QED BY <2>1, <2>2, <2>4, <2>5 DEF Whole, Over
<1> QED BY <1>1, <1>2, <1>3 DEF DirIsOneRuns

(* Writing is of a call that has saved its job: its request is settled.    *)
LEMMA WritersAreOver ==
  ASSUME BookInv, NEW k \in Jobs, worker[k].at = "writing"
  PROVE  Over(k) /\ ContentOf(k) \in Contents
BY RequestsHaveContents DEF BookInv, JobIsSound, WorkIsSound, Over, Saved, Inserting

(* A worker that a step leaves alone goes on as it was.                    *)
LEMMA WriterUntouched ==
  ASSUME BookInv, [Next]_vars, NEW k \in Jobs, worker'[k] = worker[k]
  PROVE  /\ \A c : MidOn(k, c)' <=> MidOn(k, c)
         /\ LeftIsSound(k) => LeftIsSound(k)'
         /\ worker[k].at = "writing" => request'[k] = request[k]
<1>1. worker[k].at = "writing" => request'[k] = request[k]
  BY WritersAreOver, RequestsKept
<1>2. ASSUME NEW c PROVE MidOn(k, c)' <=> MidOn(k, c)
  BY <1>1 DEF MidOn, MidWrite, WriteOrder, ContentOf
<1>3. LeftIsSound(k) => LeftIsSound(k)'
  BY <1>1 DEF LeftIsSound, Remaining, StoresLocal, Settings
<1> QED BY <1>1, <1>2, <1>3

NoFileWritten == ~\E j \in Jobs : WriteFile(j)

(* A mixture is remembered, as long as nothing is written there.           *)
LEMMA MixedGrows ==
  ASSUME BookInv, [Next]_vars, NoFileWritten
  PROVE  past.mixed \subseteq past'.mixed
<1>1. ASSUME NEW j \in Jobs, ReadAttempt(j) \/ InsertRun(j) \/ Take(j)
      PROVE  past'.mixed = past.mixed
  <2>1. \/ \E clashed : past' = [past EXCEPT !.clashed = clashed]
        \/ \E made : past' = [past EXCEPT !.runsMade = made]
        \/ \E overtaken : past' = [past EXCEPT !.overtaken = overtaken]
    BY <1>1 DEF ReadAttempt, InsertRun, Take
  <2> QED BY <2>1 DEF BookInv, Shapes, IsPast
<1>2. ASSUME NEW j \in Jobs, NEW reason, RetryOrFail(j, reason)
      PROVE  past'.mixed = past.mixed
  BY <1>2 DEF RetryOrFail, BookInv, Shapes, IsPast
<1>3. ASSUME NEW j \in Jobs, WriteBreaks(j) \/ RemovalStarts(j)
      PROVE  past.mixed \subseteq past'.mixed
  <2>1. PICK mixed : past' = [past EXCEPT !.mixed = mixed] /\ past.mixed \subseteq mixed
    <3>1. CASE WriteBreaks(j)
      BY <3>1 DEF WriteBreaks
    <3>2. CASE RemovalStarts(j)
      <4>1. PICK more : past' = [past EXCEPT !.mixed = @ \union more]
        BY <3>2 DEF RemovalStarts
      <4> QED BY <4>1
    <3> QED BY <1>3, <3>1, <3>2
  <2> QED BY <2>1 DEF BookInv, Shapes, IsPast
<1>4. CASE DeleteRow
  <2>1. \E removed, early : past' = [past EXCEPT !.removed = removed, !.early = early]
    BY <1>4 DEF DeleteRow
  <2> QED BY <2>1 DEF BookInv, Shapes, IsPast
<1>6. CASE RecoverActiveJobs
  BY <1>6 DEF RecoverActiveJobs, BookInv, Shapes, IsPast
<1>5. \/ UNCHANGED past \/ DeleteRow \/ RecoverActiveJobs
      \/ \E j \in Jobs : \/ ReadAttempt(j) \/ InsertRun(j) \/ Take(j)
                         \/ WriteBreaks(j) \/ RemovalStarts(j)
                         \/ \E reason : RetryOrFail(j, reason)
  BY ZenonT(60) DEF Next, Update, Call, CheckUpload, StoreUpload, UpsertDocument, ReadDocument,
     ReadStoragePath, SaveJob, Enqueue, EnqueueFails, quietWork, Work, Refuse,
     ConversionFails, Convert, Dispatch, WriteFails, StoredLocal, Complete,
     RemoveArtifacts, Cleanup, CleanupLists, CleanupScans, SweepUpload, SweepDir, DaysPass,
     quietSweep, vars, NoFileWritten
<1> QED BY <1>1, <1>2, <1>3, <1>4, <1>5, <1>6

(* A step after which every directory has the files and the writers it had. *)
LEMMA OutputsStay ==
  ASSUME BookInv, OutputInv, [Next]_vars, NoFileWritten, dirs' = [c \in Contents |-> dirs'[c]],
         \A c \in Contents : dirs'[c] # NoDir => DirShape(dirs'[c]),
         \A j \in Jobs : LeftIsSound(j)',
         \A c \in Contents : c \notin past'.mixed => FilesStay(c) /\ WritersStay(c)
  PROVE  OutputInv'
<1>1. ASSUME NEW c \in Contents \ past'.mixed
      PROVE  OneWriter(c)' /\ DirIsOneRuns(c)'
  <2>1. OneWriter(c) /\ DirIsOneRuns(c)
    BY MixedGrows DEF OutputInv
  <2> QED BY <2>1, DirStays
<1> QED BY <1>1 DEF OutputInv

(* Steps of no worker: directories vanish or grow old.                     *)
LEMMA QuietWorkersKeepOutputs ==
  ASSUME BookInv, OutputInv, [Next]_vars, NoFileWritten, UNCHANGED worker,
         \/ UNCHANGED dirs
         \/ \E c : dirs' = [dirs EXCEPT ![c] = NoDir]
         \/ DaysPass
  PROVE  OutputInv'
<1>1. ASSUME NEW k \in Jobs
      PROVE  /\ \A c : MidOn(k, c)' <=> MidOn(k, c)
             /\ LeftIsSound(k) => LeftIsSound(k)'
             /\ worker[k].at = "writing" => request'[k] = request[k]
  BY WriterUntouched
<1>2. ASSUME NEW c \in Contents PROVE WritersStay(c)
  <2>1. \A k \in Jobs : MidOn(k, c)' => MidOn(k, c) /\ request'[k] = request[k]
    BY <1>1 DEF MidOn, MidWrite
  <2> QED BY <1>1, <2>1 DEF WritersStay
<1>3. /\ dirs' = [c \in Contents |-> dirs'[c]]
      /\ \A c \in Contents : FilesStay(c) /\ (dirs'[c] # NoDir => DirShape(dirs'[c]))
  <2>1. CASE UNCHANGED dirs
    BY <2>1 DEF OutputInv, FilesStay
  <2>2. CASE \E c : dirs' = [dirs EXCEPT ![c] = NoDir]
    BY <2>2 DEF OutputInv, FilesStay
  <2>3. CASE DaysPass
    <3>1. dirs' = [c \in Contents |-> IF dirs[c] = NoDir THEN NoDir ELSE [dirs[c] EXCEPT !.age = "old"]]
      BY <2>3 DEF DaysPass
    <3>2. ASSUME NEW c \in Contents PROVE FilesStay(c) /\ (dirs'[c] # NoDir => DirShape(dirs'[c]))
      <4>1. CASE dirs[c] = NoDir
        BY <3>1, <4>1 DEF FilesStay
      <4>2. CASE dirs[c] # NoDir
        <5> DEFINE new == [dirs[c] EXCEPT !.age = "old"]
        <5>1. DirShape(new) /\ \A f \in DirEntries \ {"age"} : new[f] = dirs[c][f]
          BY <4>2, DirAged DEF OutputInv
        <5>2. dirs'[c] = new
          BY <3>1, <4>2
        <5> HIDE DEF new
        <5> QED BY <4>2, <5>1, <5>2 DEF FilesStay
      <4> QED BY <4>1, <4>2
    <3> QED BY <3>1, <3>2
  <2> QED BY <2>1, <2>2, <2>3
<1> QED BY <1>1, <1>2, <1>3, OutputsStay DEF OutputInv

(* A step of one worker leaves the others alone.                           *)
LEMMA OtherWorkersStay ==
  ASSUME BookInv, NEW j \in Jobs, Work(j), NEW k \in Jobs \ {j}
  PROVE  worker'[k] = worker[k]
<1>1. \/ UNCHANGED worker
      \/ \E after : worker' = [worker EXCEPT ![j] = after]
      \/ \E at : worker' = [worker EXCEPT ![j].at = at]
      \/ \E left : worker' = [worker EXCEPT ![j].left = left]
  BY DEF Work, Take, Refuse, ConversionFails, Convert, RetryOrFail, Dispatch, WriteFile,
     WriteFails, WriteBreaks, DispatchFails, StoredLocal, Complete
<1> QED BY <1>1 DEF BookInv, Shapes

(* A worker that writes no file: it neither is in the middle of writing     *)
(* before, unless the directory vanished, nor after.                        *)
LEMMA WorkBesidesWriting ==
  ASSUME BookInv, OutputInv, NEW j \in Jobs, Work(j), ~WriteFile(j), ~WriteBreaks(j)
  PROVE  /\ LeftIsSound(j)' /\ ~MidWrite(j)'
         /\ MidWrite(j) => dirs'[ContentOf(j)] = NoDir
<1>0. UNCHANGED <<request, dirs>>
  BY DEF Work, Take, Refuse, ConversionFails, Convert, Dispatch, WriteFails, StoredLocal,
     Complete, workOnly
<1>1. CASE Dispatch(j)
  <2>1. worker[j].at = "handed"
    BY <1>1 DEF Dispatch
  <2> DEFINE left == IF StoresLocal(Settings(worker[j].using), request[j]) THEN WriteOrder(j) ELSE <<>>
  <2>2. \/ worker' = [worker EXCEPT ![j].at = "idle"]
        \/ worker' = [worker EXCEPT ![j] = [at |-> "writing", using |-> worker[j].using,
                                            job |-> worker[j].job, left |-> left]]
    BY <1>1 DEF Dispatch
  <2>3. /\ left \in Remaining(j) /\ left \in {<<>>, WriteOrder(j)}
        /\ ~StoresLocal(Settings(worker[j].using), request[j]) => left = <<>>
    BY DEF Remaining, WriteOrder
  <2> HIDE DEF left
  <2>4. \/ worker'[j].at = "idle"
        \/ worker'[j].at = "writing" /\ worker'[j].using = worker[j].using /\ worker'[j].left = left
    BY <2>2 DEF BookInv, Shapes
  <2>5. LeftIsSound(j)' /\ ~MidWrite(j)'
    BY <1>0, <2>3, <2>4 DEF LeftIsSound, Remaining, MidWrite, WriteOrder, StoresLocal, Settings
  <2> QED BY <2>1, <2>5 DEF MidWrite
<1>2. CASE ~Dispatch(j)
  <2>1. worker'[j].at # "writing"
    <3>0. CASE Take(j)
      <4>1. \/ worker' = worker /\ worker[j].at \in {"idle", "done", "lost"}
            \/ \E using, job : worker' = [worker EXCEPT ![j] =
                 [at |-> "parsing", using |-> using, job |-> job, left |-> <<>>]]
        BY <3>0 DEF Take, Busy, BookInv, JobIsSound, WorkIsSound, WorkSteps
      <4> QED BY <4>1 DEF BookInv, Shapes
    <3>1. CASE ~Take(j)
      <4>1. \E at \in {"idle", "handed", "stored", "done"} : worker' = [worker EXCEPT ![j].at = at]
        <5>1. CASE WriteFails(j)
          BY <5>1 DEF WriteFails, DispatchFails
        <5>2. CASE Refuse(j) \/ ConversionFails(j) \/ Convert(j) \/ StoredLocal(j) \/ Complete(j)
          BY <5>2 DEF Refuse, ConversionFails, Convert, RetryOrFail, StoredLocal, Complete
        <5> QED BY <1>2, <3>1, <5>1, <5>2 DEF Work
      <4> QED BY <4>1 DEF BookInv, Shapes
    <3> QED BY <3>0, <3>1
  <2>2. MidWrite(j) => dirs[ContentOf(j)] = NoDir
    BY <1>2 DEF Work, Take, Refuse, ConversionFails, Convert, WriteFails, CanWrite, StoredLocal,
       Complete, Busy, MidWrite, OutputInv, LeftIsSound
  <2> QED BY <1>0, <2>1, <2>2 DEF LeftIsSound, MidWrite
<1> QED BY <1>1, <1>2

(* The steps of a worker that write no file keep the directories.          *)
LEMMA WorkKeepsOutputs ==
  ASSUME BookInv, OutputInv, [Next]_vars, NoFileWritten, NEW j \in Jobs, Work(j), ~WriteBreaks(j)
  PROVE  OutputInv'
<1>1. UNCHANGED <<request, dirs>>
  BY DEF NoFileWritten, Work, Take, Refuse, ConversionFails, Convert, Dispatch, WriteFails, StoredLocal,
     Complete, workOnly
<1>2. ASSUME NEW k \in Jobs \ {j}
      PROVE  /\ \A c : MidOn(k, c)' <=> MidOn(k, c)
             /\ LeftIsSound(k)' /\ worker'[k] = worker[k]
  BY OtherWorkersStay, WriterUntouched DEF OutputInv
<1>3. /\ LeftIsSound(j)' /\ ~MidWrite(j)'
      /\ MidWrite(j) => dirs'[ContentOf(j)] = NoDir
  BY WorkBesidesWriting DEF NoFileWritten
<1>4. ASSUME NEW c \in Contents PROVE FilesStay(c) /\ WritersStay(c)
  <2>1. FilesStay(c)
    BY <1>1 DEF FilesStay
  <2>2. ASSUME NEW k \in Jobs
        PROVE  /\ MidOn(k, c)' => MidOn(k, c) /\ worker'[k].left = worker[k].left
               /\ MidOn(k, c) /\ dirs'[c] # NoDir => MidOn(k, c)'
    <3>1. CASE k = j
      BY <1>3, <3>1 DEF MidOn
    <3>2. CASE k # j
      BY <1>2, <3>2
    <3> QED BY <3>1, <3>2
  <2> QED BY <1>1, <2>1, <2>2 DEF WritersStay
<1>5. \A k \in Jobs : LeftIsSound(k)'
  BY <1>2, <1>3
<1>6. /\ dirs' = [c \in Contents |-> dirs'[c]]
      /\ \A c \in Contents : dirs'[c] # NoDir => DirShape(dirs'[c])
  BY <1>1 DEF OutputInv
<1> QED BY <1>4, <1>5, <1>6, OutputsStay

(* A new directory has all its entries.                                    *)
LEMMA NewDirShape == DirShape(NewDir)
BY DEF DirShape, NewDir, DirEntries

(* A write that fails leaves the directory as it was, or a mixture.        *)
LEMMA WriteBreaksKeepsOutputs ==
  ASSUME BookInv, OutputInv, [Next]_vars, NoFileWritten, NEW j \in Jobs, WriteBreaks(j)
  PROVE  OutputInv'
<1>1. PICK c \in Contents : c = ContentOf(j)
  BY WritersAreOver DEF WriteBreaks, CanWrite
<1>2. PICK dir \in {dirs[c], DirOf(c), DirWith(j)} : dirs' = [dirs EXCEPT ![c] = dir]
  BY <1>1 DEF WriteBreaks
<1>3. UNCHANGED request /\ \E at \in {"handed", "idle"} : worker' = [worker EXCEPT ![j].at = at]
  BY DEF WriteBreaks, DispatchFails, workOnly
<1>4. worker'[j].at \in {"handed", "idle"}
  BY <1>3 DEF BookInv, Shapes
<1>5. /\ dirs'[c] = dir /\ (\A d \in Contents \ {c} : dirs'[d] = dirs[d])
      /\ dirs' = [d \in Contents |-> dirs'[d]]
  BY <1>2 DEF OutputInv
<1>6. dir # NoDir => DirShape(dir)
  <2>1. DirShape(DirOf(c))
    BY NewDirShape DEF DirOf, OutputInv
  <2>2. DirShape(DirWith(j))
    <3> DEFINE file == Head(worker[j].left)
               old == DirOf(c)
    <3>1. \E age : DirWith(j) = [old EXCEPT ![file] = j, !.age = age]
      BY <1>1 DEF DirWith
    <3> HIDE DEF file, old
    <3> QED BY <2>1, <3>1 DEF DirShape, old
  <2> QED BY <2>1, <2>2 DEF OutputInv
<1>7. MidWrite(j) \/ dirs'[c] # dirs[c] => c \in past'.mixed
  <2> DEFINE mixed == IF MidWrite(j) \/ dirs'[c] # dirs[c] THEN past.mixed \union {c} ELSE past.mixed
  <2>1. past' = [past EXCEPT !.mixed = mixed]
    BY <1>1 DEF WriteBreaks
  <2> HIDE DEF mixed
  <2>2. past'.mixed = mixed
    BY <2>1 DEF BookInv, Shapes, IsPast
  <2> QED BY <2>2 DEF mixed
<1>8. ASSUME NEW k \in Jobs \ {j}
      PROVE  /\ \A d : MidOn(k, d)' <=> MidOn(k, d)
             /\ LeftIsSound(k)' /\ worker'[k] = worker[k]
  <2>1. worker'[k] = worker[k]
    BY OtherWorkersStay DEF Work
  <2> QED BY <2>1, WriterUntouched DEF OutputInv
<1>9. LeftIsSound(j)' /\ ~MidWrite(j)'
  BY <1>4 DEF LeftIsSound, MidWrite
<1>10. ASSUME NEW d \in Contents, d \notin past'.mixed PROVE FilesStay(d) /\ WritersStay(d)
  <2>1. dirs'[d] = dirs[d]
    BY <1>5, <1>7, <1>10
  <2>2. ~MidOn(j, d) /\ ~MidOn(j, d)'
    BY <1>1, <1>7, <1>9, <1>10 DEF MidOn
  <2> QED BY <1>3, <1>8, <2>1, <2>2 DEF FilesStay, WritersStay
<1>11. \A k \in Jobs : LeftIsSound(k)'
  BY <1>8, <1>9
<1>12. \A d \in Contents : dirs'[d] # NoDir => DirShape(dirs'[d])
  BY <1>5, <1>6 DEF OutputInv
<1> QED BY <1>5, <1>10, <1>11, <1>12, OutputsStay

(* A process killed in the middle of a directory makes it a mixture.       *)
LEMMA RemovalKeepsOutputs ==
  ASSUME BookInv, OutputInv, [Next]_vars, NoFileWritten, NEW j \in Jobs, RemovalStarts(j)
  PROVE  OutputInv'
<1>1. PICK killed \in SUBSET Busy :
        /\ worker' = [k \in Jobs |-> IF k \in killed THEN [worker[k] EXCEPT !.at = "lost"] ELSE worker[k]]
        /\ past' = [past EXCEPT !.mixed = @ \union {ContentOf(k) : k \in {l \in killed : MidWrite(l)}}]
  BY DEF RemovalStarts
<1>2. UNCHANGED <<request, dirs>>
  BY DEF RemovalStarts, quietFiles
<1>3. \A k \in killed : MidWrite(k) => ContentOf(k) \in past'.mixed
  <2>1. past'.mixed = past.mixed \union {ContentOf(k) : k \in {l \in killed : MidWrite(l)}}
    <3> DEFINE mixed == past.mixed \union {ContentOf(k) : k \in {l \in killed : MidWrite(l)}}
    <3>1. past' = [past EXCEPT !.mixed = mixed]
      BY <1>1
    <3> HIDE DEF mixed
    <3>2. past'.mixed = mixed
      BY <3>1 DEF BookInv, Shapes, IsPast
    <3> QED BY <3>2 DEF mixed
  <2> QED BY <2>1
<1>4. ASSUME NEW k \in killed PROVE ~MidWrite(k)' /\ LeftIsSound(k)'
  <2>1. worker'[k].at = "lost"
    <3>1. k \in Jobs /\ worker'[k] = [worker[k] EXCEPT !.at = "lost"]
      BY <1>1 DEF Busy
    <3>2. worker[k] = [at |-> worker[k].at, using |-> worker[k].using, job |-> worker[k].job,
                       left |-> worker[k].left]
      BY <3>1 DEF BookInv, Shapes
    <3> QED BY <3>1, <3>2
  <2> QED BY <2>1 DEF MidWrite, LeftIsSound
<1>5. ASSUME NEW k \in Jobs \ killed
      PROVE  /\ \A c : MidOn(k, c)' <=> MidOn(k, c)
             /\ LeftIsSound(k)' /\ worker'[k] = worker[k]
  <2>1. worker'[k] = worker[k]
    BY <1>1
  <2> QED BY <2>1, WriterUntouched DEF OutputInv
<1>6. ASSUME NEW c \in Contents, c \notin past'.mixed PROVE FilesStay(c) /\ WritersStay(c)
  <2>1. FilesStay(c)
    BY <1>2 DEF FilesStay
  <2>2. ASSUME NEW k \in Jobs
        PROVE  /\ MidOn(k, c)' => MidOn(k, c) /\ worker'[k].left = worker[k].left
               /\ MidOn(k, c) => MidOn(k, c)'
    <3>1. CASE k \in killed
      BY <1>3, <1>4, <1>6, <3>1 DEF MidOn
    <3>2. CASE k \notin killed
      BY <1>5, <3>2
    <3> QED BY <3>1, <3>2
  <2> QED BY <1>2, <2>1, <2>2 DEF WritersStay
<1>7. \A k \in Jobs : LeftIsSound(k)'
  BY <1>4, <1>5
<1>8. /\ dirs' = [c \in Contents |-> dirs'[c]]
      /\ \A c \in Contents : dirs'[c] # NoDir => DirShape(dirs'[c])
  BY <1>2 DEF OutputInv
<1> QED BY <1>6, <1>7, <1>8, OutputsStay

(* Writing a file: another who is in the middle makes it a mixture, else   *)
(* the directory is its writer's up to this file, from the first file on.  *)
LEMMA WriteFileKeepsOutputs ==
  ASSUME BookInv, OutputInv, [Next]_vars, NEW j \in Jobs, WriteFile(j)
  PROVE  OutputInv'
<1>1. PICK c \in Contents : c = ContentOf(j)
  BY WritersAreOver DEF WriteFile, CanWrite
<1> DEFINE left == worker[j].left
           file == Head(left)
           dir == DirOf(c)
<1>2. /\ worker[j].at = "writing" /\ left # <<>> /\ left \in Remaining(j)
      /\ dirs[c] # NoDir \/ file = "markdown"
      /\ StoresLocal(Settings(worker[j].using), request[j])
      /\ Over(j)
  BY <1>1, WritersAreOver DEF WriteFile, CanWrite, OutputInv, LeftIsSound
<1>3. PICK age : dirs' = [dirs EXCEPT ![c] = [dir EXCEPT ![file] = j, !.age = age]]
  BY <1>1 DEF WriteFile, DirWith
<1>4. UNCHANGED <<request, call>>
  BY DEF WriteFile, workOnly
<1>5. /\ worker'[j].at = "writing" /\ worker'[j].using = worker[j].using
      /\ worker'[j].left = Tail(left)
  <2>1. worker' = [worker EXCEPT ![j].left = Tail(left)]
    BY DEF WriteFile
  <2> HIDE DEF left
  <2> QED BY <1>2, <2>1 DEF BookInv, Shapes
<1>6. /\ Tail(left) \in Remaining(j) /\ Tail(left) # WriteOrder(j)
      /\ file = "markdown" <=> left = WriteOrder(j)
      /\ file = "markdown" => Tail(left) # <<>> /\ Head(Tail(left)) = "rag"
      /\ file = "rag" => Tail(left) # <<>> /\ Head(Tail(left)) \in {"html", "metadata"}
                         /\ (request[j].html <=> Head(Tail(left)) = "html")
      /\ file = "html" => Tail(left) # <<>> /\ Head(Tail(left)) = "metadata"
      /\ file = "metadata" <=> Tail(left) = <<>>
      /\ file \in {"markdown", "rag", "html", "metadata"}
  BY <1>2, Remainders
<1>7. DirShape(dir)
  BY NewDirShape DEF OutputInv, DirOf
<1> DEFINE new == [dir EXCEPT ![file] = j, !.age = age]
<1>8. DirShape(new) /\ new[file] = j /\ \A f \in DirEntries \ {file, "age"} : new[f] = dir[f]
  <2>1. file \in DirEntries \ {"age"}
    BY <1>6 DEF DirEntries
  <2> HIDE DEF dir, file
  <2> QED BY <1>7, <2>1 DEF DirShape, DirEntries
<1>9. dirs' = [dirs EXCEPT ![c] = new]
  BY <1>3
<1> HIDE DEF new
<1>10. dirs'[c] = new /\ (\A d \in Contents \ {c} : dirs'[d] = dirs[d])
       /\ dirs' = [d \in Contents |-> dirs'[d]]
  BY <1>9 DEF OutputInv
<1>11. ASSUME NEW k \in Jobs \ {j}
       PROVE  /\ \A d : MidOn(k, d)' <=> MidOn(k, d)
              /\ LeftIsSound(k)' /\ worker'[k] = worker[k]
  <2>1. worker'[k] = worker[k]
    BY OtherWorkersStay DEF Work
  <2> QED BY <2>1, WriterUntouched DEF OutputInv
<1>12. LeftIsSound(j)' /\ ContentOf(j)' = c
       /\ (MidWrite(j)' <=> Tail(left) # <<>>) /\ (MidWrite(j) <=> file # "markdown")
  BY <1>1, <1>2, <1>4, <1>5, <1>6 DEF LeftIsSound, Remaining, MidWrite, WriteOrder, StoresLocal,
     Settings, ContentOf
<1>13. /\ past.mixed \subseteq past'.mixed \union {c}
       /\ c \notin past'.mixed =>
            /\ ~\E k \in Jobs \ {j} : MidOn(k, c)
            /\ file # "markdown" => c \notin past.mixed
  <2> DEFINE mixed == IF OtherMidWrite(j) THEN past.mixed \union {c}
                      ELSE IF file = "markdown" THEN past.mixed \ {c} ELSE past.mixed
  <2>1. past' = [past EXCEPT !.mixed = mixed]
    BY <1>1 DEF WriteFile
  <2> HIDE DEF mixed, file
  <2>2. past'.mixed = mixed
    BY <2>1 DEF BookInv, Shapes, IsPast
  <2> QED BY <1>1, <2>2 DEF mixed, MidOn, OtherMidWrite
<1>14. ASSUME NEW d \in Contents \ past'.mixed, d # c
       PROVE  OneWriter(d)' /\ DirIsOneRuns(d)'
  <2>1. FilesStay(d)
    BY <1>10, <1>14 DEF FilesStay
  <2>2. WritersStay(d)
    <3>1. ~MidOn(j, d)' /\ ~MidOn(j, d)
      BY <1>1, <1>12, <1>14 DEF MidOn
    <3> QED BY <1>4, <1>11, <3>1 DEF WritersStay
  <2>3. OneWriter(d) /\ DirIsOneRuns(d)
    BY <1>13, <1>14 DEF OutputInv
  <2> QED BY <2>1, <2>2, <2>3, DirStays
<1>15. ASSUME c \notin past'.mixed
       PROVE  OneWriter(c)' /\ DirIsOneRuns(c)'
  <2>1. \A k \in Jobs : k # j => ~MidOn(k, c) /\ ~MidOn(k, c)'
    BY <1>11, <1>13, <1>15
  <2>2. file # "markdown" => Partial(j, dir)
    <3>1. ASSUME file # "markdown" PROVE c \notin past.mixed /\ dir = dirs[c]
      BY <1>2, <1>13, <1>15, <3>1 DEF DirOf
    <3> QED BY <1>1, <1>2, <1>12, <3>1 DEF OutputInv, DirIsOneRuns, MidOn
  <2> HIDE DEF dir
  <2>3. /\ file = "markdown" => new["markdown"] = j
        /\ file = "rag" => new["markdown"] = j /\ new["rag"] = j
        /\ file = "html" => new["markdown"] = j /\ new["rag"] = j /\ new["html"] = j
        /\ file = "metadata" => /\ new["markdown"] = j /\ new["rag"] = j /\ new["metadata"] = j
                                /\ request[j].html => new["html"] = j
    BY <1>6, <1>8, <2>2 DEF Partial, DirEntries
  <2> HIDE DEF left, file
  <2>4. Tail(left) # <<>> => Partial(j, dirs[c])'
    BY <1>4, <1>5, <1>6, <1>10, <2>3 DEF Partial
  <2>5. Tail(left) = <<>> => Whole(dirs[c])'
    BY <1>2, <1>4, <1>6, <1>10, <2>3 DEF Whole, Over
  <2>6. MidOn(j, c)' <=> Tail(left) # <<>>
    BY <1>12 DEF MidOn
  <2> QED BY <2>1, <2>4, <2>5, <2>6 DEF OneWriter, DirIsOneRuns
<1> QED BY <1>8, <1>10, <1>11, <1>12, <1>14, <1>15 DEF OutputInv

(* Every step keeps the directories.                                       *)
LEMMA OutputInvStays ==
  ASSUME BookInv, OutputInv, [Next]_vars
  PROVE  OutputInv'
<1>1. CASE \E j \in Jobs : WriteFile(j)
  BY <1>1, WriteFileKeepsOutputs
<1>2. CASE NoFileWritten
  <2>1. CASE \E j \in Jobs : WriteBreaks(j)
    BY <1>2, <2>1, WriteBreaksKeepsOutputs
  <2>2. CASE \E j \in Jobs : Work(j) /\ ~WriteBreaks(j)
    BY <1>2, <2>2, WorkKeepsOutputs
  <2>3. CASE \E j \in Jobs : RemovalStarts(j)
    BY <1>2, <2>3, RemovalKeepsOutputs
  <2>4. CASE \/ (\E j \in Jobs : Call(j)) \/ Update \/ RecoverActiveJobs \/ RemoveArtifacts
             \/ DeleteRow \/ Cleanup \/ DaysPass \/ UNCHANGED vars
    <3>1. UNCHANGED worker
      BY <2>4 DEF Call, CheckUpload, StoreUpload, UpsertDocument, ReadDocument, ReadStoragePath,
         SaveJob, ReadAttempt, InsertRun, Enqueue, EnqueueFails, quietWork, Update,
         RecoverActiveJobs, RemoveArtifacts, DeleteRow, Cleanup, CleanupLists, CleanupScans,
         SweepUpload, SweepDir, DaysPass, quietSweep, vars
    <3>2. UNCHANGED dirs \/ (\E c : dirs' = [dirs EXCEPT ![c] = NoDir]) \/ DaysPass
      BY <2>4 DEF Call, CheckUpload, StoreUpload, UpsertDocument, ReadDocument, ReadStoragePath,
         SaveJob, ReadAttempt, InsertRun, Enqueue, EnqueueFails, quietFiles, Update,
         RecoverActiveJobs, RemoveArtifacts, DeleteRow, Cleanup, CleanupLists, CleanupScans,
         SweepUpload, SweepDir, vars
    <3> QED BY <1>2, <3>1, <3>2, QuietWorkersKeepOutputs
  <2> QED BY <2>1, <2>2, <2>3, <2>4 DEF Next
<1> QED BY <1>1, <1>2 DEF NoFileWritten

(* There is none in the beginning.                                         *)
LEMMA OutputsStart == ASSUME Init PROVE OutputInv
<1>1. /\ dirs = [c \in Contents |-> NoDir]
      /\ worker = [j \in Jobs |-> [at |-> "idle", using |-> <<>>, job |-> NoRow, left |-> <<>>]]
  BY DEF Init
<1> QED BY <1>1 DEF OutputInv, LeftIsSound, OneWriter, DirIsOneRuns, MidOn, MidWrite

(* Text, records and metadata of a directory where LocalParseOutputWriter  *)
(* is not writing are one run's, unless two wrote at once, a process was   *)
(* killed or a write failed since a run last wrote the directory alone.    *)
THEOREM OutputsAreAlwaysOneRuns == Spec => []OutputsAreOneRuns
<1>1. Init => BookInv /\ DocsAreStored /\ OutputInv
  BY BooksStart, OutputsStart
<1>2. BookInv /\ DocsAreStored /\ OutputInv /\ [Next]_vars
        => (BookInv /\ DocsAreStored /\ OutputInv)'
  BY BooksStay, OutputInvStays
<1>3. OutputInv => OutputsAreOneRuns
  <2> SUFFICES ASSUME OutputInv, NEW c \in Contents, dirs[c] # NoDir, c \notin past.mixed,
                      \A k \in Jobs : MidWrite(k) => ContentOf(k) # c
               PROVE  LET owner == dirs[c].markdown
                      IN  /\ owner # NoJob /\ dirs[c].rag = owner /\ dirs[c].metadata = owner
                          /\ dirs[c].html \notin {NoJob, owner} => ~request[owner].html
    BY DEF OutputsAreOneRuns
  <2>1. Whole(dirs[c])
    BY DEF OutputInv, DirIsOneRuns, MidOn
  <2> QED BY <2>1, AbsenceAssumption DEF Whole
<1> QED BY <1>1, <1>2, <1>3, PTL DEF Spec
=============================================================================
