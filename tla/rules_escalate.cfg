SPECIFICATION FairSpec
CONSTANTS
  a1 = a1
  a2 = a2
  d1 = d1
  d2 = d2
  Null = Null
  CheckOrder <- Order
  DeviceOf <- Devices
  Files <- AckFiles
  Retries = 1
  FaultyNet = FALSE
  MaxAge = 2
INVARIANTS
  RepeatBound
  AckStops
PROPERTIES
  EscalationDelivered
