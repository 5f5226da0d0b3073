SPECIFICATION SpecAll
CONSTANTS
  Floor = 1
  Window = 4
  MaxRequests = 5
  Skew = 2
  Slack = 2
  MaxLocateSteps = 40
  Drift = 1
  ClientDates = FALSE
  MaxBlock = 5
  MaxTime = 6
  x1 = x1  x2 = x2
  Runs = {x1, x2}
  None = None
  Confirmations = 2
  Depth = 1
  MaxHeight = 4
  MaxReorgs = 1
  Faults = FALSE
CHECK_DEADLOCK FALSE
INVARIANTS
  EmptyMeansAbsent
  WindowsAdvance
  LearnsTheWindow
  ManifestsTellTheirRun
PROPERTY
  DeploymentsLast
