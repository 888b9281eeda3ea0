SPECIFICATION Spec
CONSTANTS
  a = a
  b = b
  Instances <- OneInstance
  Executions <- TwoExecutions
  Attempts <- TwoAttempts
  LockTTL = 2
  BreakerTimeout = 2
  FailureThreshold = 1
  SuccessThreshold = 2
  ResetTimeout = 1
  MaxTries = 2
  MaxBusy = 2
  MaxRuns = 2
  MaxHung = 1
  MaxExits = 1
  NoExecution = NoExecution
  NoOwner = NoOwner
  Gone = Gone
PROPERTIES
  ExecutionsEnd
  JobKeepsRunning
