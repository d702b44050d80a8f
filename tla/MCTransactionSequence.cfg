SPECIFICATION FairSpec
CONSTANTS
  Callers = {c1, c2, c3}
  FirstId = 1
  MaxDay = 1
  MaxCalls = 4
  MaxLost = 1
INVARIANTS
  TypeOK
  FreshIds
PROPERTIES
  CallsReturn
CHECK_DEADLOCK FALSE
