SPECIFICATION GatewaySpec
CONSTANTS
  c1 = c1
  c2 = c2
  c3 = c3
  d1 = d1
  d2 = d2
  d3 = d3
  Requests = {r1, r2}
  Clients = {c1, c2, c3}
  KeysOf <- Scopes
  Limit <- LimitOf
  Window = 2
  SlidingLimit = 1
  Replies = {"done", "refused", "unknown", "half"}
  Errors = {TRUE, FALSE}
  MaxUnseen = 1
  Editors = {e1, e2}
  Viewers = {v1}
  Enrolled <- Present
  Devices = {d1, d2, d3}
  Alerts = {a1}
  Networks = {n1}
  Admins = {w1}
  Orgs = {o1, o2}
  Sessions <- Met
  Listings = {"logs", "alerts"}
  Limits = {0, 1}
  Offsets = {0, 1}
  CanLose = {TRUE, FALSE}
  CanFail = {TRUE, FALSE}
  MaxClock = 2
  Null = Null
SYMMETRY Symmetric
INVARIANTS
  LimitsRespected
  MissingForCause
  ListingsComplete
PROPERTIES
  OverForCause
