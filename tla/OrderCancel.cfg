SPECIFICATION Spec
CONSTANTS
  None = None
  Order = {o1}
  Worker = {}
  MaxRequests = 4
  MaxConcurrent = 1
  MaxLate = 1
  MaxTries = 1
  Total = 1
  Repaired = {}
INVARIANTS
  CancelledOrdersAreRefunded
CHECK_DEADLOCK FALSE
