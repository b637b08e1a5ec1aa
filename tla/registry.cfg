SPECIFICATION Spec
CONSTANTS
  Handlers = {h1, h2}
  Threads = {t1, t2}
  Networks = {n1, n2}
  Low <- LowOf
  High <- HighOf
  Constant = 2
  Psks = {k}
  MaxUses <- OneUse
  PublicKeys = {c1, c2}
  n1 = n1
  n2 = n2
  Asked = {n1}
  MaxCreated = 3
  Null = Null
INVARIANTS
  TypeOK
  UsesBound
  MarksMatch
PROPERTIES
  NeverGivenTwice
SYMMETRY Symmetric
CHECK_DEADLOCK FALSE
