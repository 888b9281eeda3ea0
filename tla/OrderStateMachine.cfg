SPECIFICATION Spec
CONSTANTS
  None = None
  Order = {o1}
  Worker = {}
  MaxRequests = 4
  MaxConcurrent = 2
  MaxLate = 1
  MaxTries = 2
  Total = 1
  Repaired = {}
PROPERTIES
  StatusFollowsStateMachine
CHECK_DEADLOCK FALSE
