SPECIFICATION FairSpec
CONSTANTS
  Tasks = {t1, t2, t3, t4, t5}
  Workers = {w1, w2}
  Null = Null
  Capacity = 2
  RateLimit = 1
INVARIANTS
  OnePlace
PROPERTIES
  EveryTaskProcessed
  WorkersExit
