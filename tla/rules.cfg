SPECIFICATION RulesSpec
CONSTANTS
  a1 = a1
  a2 = a2
  d1 = d1
  d2 = d2
  Null = Null
  CheckOrder <- Order
  DeviceOf <- Devices
  Files <- LimitFiles
  Retries = 1
  FaultyNet = TRUE
  MaxAge = 2
  Nothing = Nothing
  Ranges <- SomeRanges
  Zones <- SomeZones
  Conditions <- SomeConditions
  Depth <- SomeDepth
  Nesting = 2
  Inputs <- SomeInputs
INVARIANTS
  RateRespected
  MatcherAgrees
CHECK_DEADLOCK FALSE
