SPECIFICATION Spec
CONSTANTS
  r1 = r1  e1 = e1  e2 = e2  e3 = e3  p1 = p1  p2 = p2  m1 = m1  m2 = m2
  v1 = v1  v2 = v2
  None = None
  Runs = {r1}
  Executions = {e1}
  Policies = {p1}
  Models = {m1}
  Values = {v1}
  Faults = FALSE
  RunOf <- MCRunOf
  PolicyOf <- MCPolicyOf
  ModelOf <- MCModelOf
PROPERTY
  GroundingFailureIsTerminal
CHECK_DEADLOCK FALSE
