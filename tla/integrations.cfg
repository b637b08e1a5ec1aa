SPECIFICATION FairSpec
CONSTANTS
  Callers = {c1, c2}
  Platforms <- Two
  MaxRetries = 1
  MaxCalls = 1
  Null = Null
PROPERTIES
  SendReturns
CHECK_DEADLOCK FALSE
