SPECIFICATION Spec
CONSTANTS
  None = None
  Order = {o1}
  Worker = {}
  MaxRequests = 3
  MaxConcurrent = 1
  MaxLate = 1
  MaxTries = 2
  Total = 2
  Repaired = {"paymentIntentId", "expiresAt"}
INVARIANTS
  TypeOK
  RecordedRefundsAreReal
  StatusIsEarned
CHECK_DEADLOCK FALSE
