SPECIFICATION SpecAll
CONSTANTS
    u1 = u1  u2 = u2  p1 = p1  p2 = p2  h1 = h1  h2 = h2  l1 = l1  l2 = l2
    t1 = t1  t2 = t2  t3 = t3
    Users = {u1, u2}
    Passwords = {p1}
    Hosts = {h1}
    Tasks = {l1, l2}
    Ops = {"request", "confirm"}
    Cooldown = 1
    AccountQuota = 2
    AccountWindow = 2
    GlobalQuota = 3
    GlobalWindow = 2
    Ttl = 2
    Retention = 2
    MaxInFlight = 2
    MaxTokens = 4
    MaxTime = 2
SYMMETRY Symmetry
INVARIANTS
    LinksAndSessionsAreTrue
    AccessPartsHold
PROPERTY
    OnlyLinksReset
CHECK_DEADLOCK FALSE
