SPECIFICATION FairSpec
CONSTANTS
  Instances = {i1}
  Tasks = {t1}
  AlertIds = {a1, a2, a3}
  Null = Null
  IssueSeverities = {"high"}
  Window = 2
  SilentPeriod = 1
  LockTimeout = 1
  Threshold = 2
  Faults = {"db", "lost", "crash"}
  MaxNow = 4
  MaxDetections = 3
INVARIANTS
  CountsAgree
PROPERTIES
  EscalatedAfterThreshold
  SilentRespected
  LockFreed
