SPECIFICATION Spec
CONSTANTS
  Instances = {i1, i2}
  Tasks = {}
  AlertIds = {a1, a2, a3}
  Null = Null
  IssueSeverities = {"high"}
  Window = 1
  SilentPeriod = 1
  LockTimeout = 1
  Threshold = 1
  Faults = {"redis", "db", "lost", "crash", "stall"}
  MaxNow = 2
  MaxDetections = 3
SYMMETRY Symmetry
INVARIANTS
  TypeOK
  DedupeNamesAlert
  BurstBound
