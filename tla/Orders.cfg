SPECIFICATION Spec
CONSTANTS
  None = None
  Order = {o1}
  Worker = {w}
  MaxRequests = 3
  MaxConcurrent = 2
  MaxLate = 0
  MaxTries = 1
  Total = 1
  Repaired = {"paymentIntentId", "expiresAt"}
INVARIANTS
  StatusIsEarned
  TicketsFollowStatus
PROPERTIES
  UndisturbedTransitions
CHECK_DEADLOCK FALSE
