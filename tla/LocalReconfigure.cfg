CONSTANTS
  Jobs = {j1}
  Visitors = {v1}
  Slots = {1}
  MaxRetries = 1
  MaxServices = 2
  MaxChanges = 1
  MaxRestarts = 1
  MaxRemovals = 0
  MaxLateBeats = 0
  MaxFaults = 1
  MaxFailures = 2
  NoRow = NoRow
  NoJob = NoJob
  NoBeat = NoBeat
  NoPid = NoPid
  NoRemoval = NoRemoval
SPECIFICATION FairSpec

PROPERTIES EveryUploadIsDecided
CHECK_DEADLOCK FALSE
