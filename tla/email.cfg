SPECIFICATION FairSpec
CONSTANTS
  Emails = {e1, e2, e3}
  Workers = {w1, w2}
  Null = Null
  QueueSize = 2
  RateLimit = 1
  MaxRetries = 1
  SlowProvider = TRUE
  Provider = "smtp"
INVARIANTS
  OnePlace
  RateRespected
PROPERTIES
  KeepsPromise
  EveryEmailSettles
CHECK_DEADLOCK FALSE
