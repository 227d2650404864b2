CONSTANTS
  j1 = j1
  j2 = j2
  q1 = q1
  q2 = q2
  w1 = w1
  w2 = w2
  Jobs = {j1, j2}
  QueueIds = {q1, q2}
  Workers = {w1, w2}
  FirstWorkers = {w1, w2}
  WorkerCount = 2
  MaxSize = 2
  MaxBulk = 2
  AttemptCap = 9
  MaxRetries = 0
  MaxDbErrors = 0
  MaxDeletes = 0
  NoJob = NoJob
  NoId = NoId
  NoWorker = NoWorker
  Deleted = Deleted
  SinkMode <- MCSinkMode
SPECIFICATION Spec
INVARIANT DeliveredIsNotFailed
