SPECIFICATION Spec
CONSTANTS
  c1 = c1  c2 = c2  i1 = i1  i2 = i2  p1 = p1  p2 = p2  t1 = t1  t2 = t2
  iss1 = iss1  iss2 = iss2  rev1 = rev1  rev2 = rev2  rec1 = rec1
  NoProfile = NoProfile
  NoTx = NoTx
  Stranger = Stranger
  Credentials = {c1}
  Issuers = {i1}
  Profiles = {p1}
  Tasks = {t1}
  Issuances = {iss1}
  Revocations = {rev1}
  Reconciliations = {}
  MaxNonce = 1
  Evictions = FALSE
  IssuerOf <- MCIssuerOf
  CredentialOf <- MCCredentialOf
  TaskOf <- MCTaskOf
  InitialAnchor <- MCInitialAnchor
INVARIANT
  NoSendWhenCompromised
