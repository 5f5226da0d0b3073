SPECIFICATION Spec
CONSTANTS
  None = None
  Issuers = {i1, i2}
  Calls = {c1, c2, c3}
  Issuances = {q1}
  Faults = TRUE
SYMMETRY Symmetry
INVARIANTS
  DidIsPublishable
  ProofsResolve
  AnchorInService
  OrphansAreReported
PROPERTY
  BrokenKeysStayKnown
CHECK_DEADLOCK FALSE
