CONSTANTS
  j1 = j1
  j2 = j2
  q1 = q1
  q2 = q2
  q3 = q3
  w1 = w1
  w2 = w2
  Jobs = {j1, j2}
  QueueIds = {q1, q2, q3}
  Workers = {w1, w2}
  MaxSize = 2
  MaxBulk = 2
  AttemptCap = 2
  NoJob = NoJob
  NoId = NoId
  NoWorker = NoWorker
SPECIFICATION QFairSpec
INVARIANTS QTypeOK HeldOnce NothingLost IndexIsLive
PROPERTIES PromiseKept WaitingIsTakenUnlessPutBlocks
CHECK_DEADLOCK FALSE
