SPECIFICATION Spec
CONSTANTS
  Floor = 1
  Window = 4
  MaxRequests = 5
  Skew = 2
  Slack = 6
  MaxLocateSteps = 40
  Drift = 1
  ClientDates = TRUE
  MaxBlock = 5
  MaxTime = 7
CHECK_DEADLOCK FALSE
INVARIANT
  NothingBeforeStart
