SPECIFICATION NatSpec
CONSTANTS
  Handlers = {h1, h2}
  Devices = {d1}
  Endpoints = {e1, e2}
  None = None
  Kinds = {"unknown", "restricted_cone"}
  TTL = 1
  MaxTime = 2
  Null = Null
SYMMETRY Symmetric
INVARIANTS
  NatTypeOK
PROPERTIES
  FreshEndpoint
CHECK_DEADLOCK FALSE
