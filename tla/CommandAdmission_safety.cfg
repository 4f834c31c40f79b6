CONSTANTS
  r1 = r1  r2 = r2  r3 = r3  d1 = d1  d2 = d2  k1 = k1  k2 = k2  h1 = h1  h2 = h2  g1 = g1 g2 = g2  g3 = g3
  e1 = e1  e2 = e2  e3 = e3  n1 = n1  n2 = n2  p1 = p1
  NoGrant = NoGrant
  Requests = {r1, r2, r3}
  Acknowledged = {r3}
  Issuers = {d1, d2}
  Keys = {k1, k2}
  Hashes = {h1, h2}
  Grants = {g1, g2, g3}
  Ids = {e1, e2, e3}
  Cleaners = {n1, n2}
  Panels = {p1}
  RecentAuth = 1
  Lifetime = 2
  RateWindow = 1
  MaxPerWindow = 1
  MaxClock = 2
SYMMETRY Symmetry
CHECK_DEADLOCK FALSE
SPECIFICATION MCSpec
INVARIANTS GrantBacksOne RateBounded NoDeadlock
PROPERTIES ImplementsPromise
