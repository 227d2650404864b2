CONSTANTS
  Jobs = {j1, j2}
  Visitors = {}
  Slots = {1}
  MaxRetries = 1
  MaxServices = 2
  MaxChanges = 0
  MaxRestarts = 1
  MaxRemovals = 1
  MaxLateBeats = 1
  MaxFaults = 1
  MaxFailures = 4
  NoRow = NoRow
  NoJob = NoJob
  NoBeat = NoBeat
  NoPid = NoPid
  NoRemoval = NoRemoval
SPECIFICATION Spec
INVARIANTS LTypeOK SubmittedOnce FailuresAreReal NoJobIsStranded
 
CHECK_DEADLOCK FALSE
