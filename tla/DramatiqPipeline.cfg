CONSTANTS
  Jobs = {j1}
  Parents = {p1, p2}
  Children = {k1, k2}
  Senders = {d1}
  MaxRetries = 1
  MaxFailures = 3
  MaxFaults = 2
  NoRow = NoRow
  NoJob = NoJob
  NoChild = NoChild
SPECIFICATION Spec
INVARIANTS DTypeOK ParsingIsWorkedOn OneParseAtATime
PROPERTIES PromiseKept SettledEventually
CHECK_DEADLOCK FALSE
