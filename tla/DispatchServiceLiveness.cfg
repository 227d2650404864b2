CONSTANTS
  j1 = j1
  j2 = j2
  q1 = q1
  q2 = q2
  w1 = w1
  w2 = w2
  Jobs = {j1, j2}
  QueueIds = {q1, q2}
  Workers = {w1, w2}
  FirstWorkers = {w1}
  WorkerCount = 1
  MaxSize = 1
  MaxBulk = 2
  AttemptCap = 9
  MaxRetries = 1
  MaxDbErrors = 1
  MaxDeletes = 1
  NoJob = NoJob
  NoId = NoId
  NoWorker = NoWorker
  Deleted = Deleted
  SinkMode <- MCSinkMode
SPECIFICATION FairSpec
PROPERTIES HandedOverIsSettled
CHECK_DEADLOCK FALSE
