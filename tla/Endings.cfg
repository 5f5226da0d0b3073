SPECIFICATION FairSpecAll
CONSTANTS
  r1 = r1  e1 = e1  e2 = e2  e3 = e3  p1 = p1  p2 = p2  m1 = m1  m2 = m2
  v1 = v1  v2 = v2  c1 = c1  c2 = c2  q1 = q1  t1 = t1  t2 = t2  Gone = Gone
  None = None
  Runs = {r1}
  Executions = {e1, e2, e3}
  Policies = {p1, p2}
  Models = {m1, m2}
  Values = {v1, v2}
  Faults = TRUE
  RunOf <- OnlyRun
  PolicyOf <- Policy
  ModelOf <- Model
INVARIANTS
  OneOwner OneModelPerRun
PROPERTIES
  RefinesRecord NothingBoughtTwice
  RunsEnd WaitingEnds
CHECK_DEADLOCK FALSE
