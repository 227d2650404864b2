CONSTANTS
  j1 = j1
  j2 = j2
  q1 = q1
  q2 = q2
  w1 = w1
  w2 = w2
  Jobs = {j1, j2}
  QueueIds = {q1, q2}
  Workers = {w1, w2}
  MaxSize = 1
  MaxBulk = 1
  AttemptCap = 2
  NoJob = NoJob
  NoId = NoId
  NoWorker = NoWorker
SPECIFICATION QFairSpec

PROPERTIES FailedBatchIsGivenBack
CHECK_DEADLOCK FALSE
