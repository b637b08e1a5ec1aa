SPECIFICATION FairSpec
CONSTANTS
  Instances = {i1}
  Tasks = {}
  AlertIds = {a1, a2, a3, a4}
  Null = Null
  IssueSeverities = {"medium", "high"}
  Window = 2
  SilentPeriod = 1
  LockTimeout = 1
  Threshold = 2
  Faults = {}
  MaxNow = 4
  MaxDetections = 4
INVARIANTS
  OnePerWindow
  MergedIntoOpen
PROPERTIES
  SeverityNeverLowered
  DetectionReported
