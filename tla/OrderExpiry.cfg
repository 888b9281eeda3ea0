SPECIFICATION JobSpec
CONSTANTS
  None = None
  Order = {o1}
  Worker = {w}
  MaxRequests = 2
  MaxConcurrent = 1
  MaxLate = 1
  MaxTries = 1
  Total = 1
  Repaired = {}
PROPERTIES
  TimedOutReservationsEnd
CHECK_DEADLOCK FALSE
