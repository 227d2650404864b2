CONSTANTS
  Jobs = {j1, j2}
  Visitors = {}
  Slots = {1, 2}
  MaxRetries = 1
  MaxServices = 1
  MaxChanges = 0
  MaxRestarts = 0
  MaxRemovals = 1
  MaxLateBeats = 0
  MaxFaults = 1
  MaxFailures = 3
  NoRow = NoRow
  NoJob = NoJob
  NoBeat = NoBeat
  NoPid = NoPid
  NoRemoval = NoRemoval
SPECIFICATION Spec
INVARIANTS ParsingIsRunning
CHECK_DEADLOCK FALSE
