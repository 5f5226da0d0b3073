SPECIFICATION SpecAll
CONSTANTS
  c1 = c1  c2 = c2  q1 = q1  q2 = q2  r1 = r1  s1 = s1  s2 = s2  d1 = d1  d2 = d2
  Gone = Gone  None = None
  Callers = {c1, c2}
  Requests = {q1}
  RequestOf <- SameRequest
  MaxAttempts = 2
  RunQuota = 1
  QuotaWindow = 2
  LeaseTtl = 1
  ShareExpiresAt = 9
  RequestExpiresAt = 2
  MaxTime = 1
  MaxVersion = 1
  Slow = TRUE
  Faults = TRUE
  Readers = {r1}
  MaxKeys = 2
  MaxDefects = 1
  DidFaults = TRUE
  RpcFaults = TRUE
  Proposers = {c1, c2}
  Sessions = {s1, s2}
  Definitions = {d1, d2}
  MaxActive = 1
  RequestTtl = 3
  Quota = 2
  StartsWindow = 3
  Cooldown = 1
  ProposalLease = 2
  Retries = 2
  Horizon = 3
  NoDefinition = NoDefinition
  Credentials = {d1, d2}
  Tasks = {c1, c2, r1}
  MaxGrants = 1
  MaxVersions = 3
  MaxSealKeys = 1
SYMMETRY Symmetry
INVARIANTS
    BudgetBoundsClaims ProviderWorkIsBounded AnswersAreTruthful VerificationPartsHold
PROPERTIES
    FrozenUnderConsent SharingFollowsIntent SettledStaysSettled
CHECK_DEADLOCK FALSE
