SPECIFICATION Spec
CONSTANTS
  a = a
  b = b
  Instances <- TwoInstances
  Executions <- TwoExecutions
  Attempts <- TwoAttempts
  LockTTL = 2
  BreakerTimeout = 2
  FailureThreshold = 2
  SuccessThreshold = 2
  ResetTimeout = 1
  MaxTries = 2
  MaxBusy = 2
  MaxRuns = 2
  MaxHung = 0
  MaxExits = 1
  NoExecution = NoExecution
  NoOwner = NoOwner
  Gone = Gone
SYMMETRY Symmetry
INVARIANTS
  TypeOK
  CoresExclude
