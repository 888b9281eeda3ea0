SPECIFICATION FairSpec
CONSTANTS
  a = a
  b = b
  c = c
  None = None
  Caller = {a, b, c}
  LockValue = {1, 2}
  ValueOf <- MCValues
  TTL = 2
  MaxRetries = 2
INVARIANTS
  TypeOK
  ExclusionWithinTTL
  LeaseKept
PROPERTIES
  ImplementsLease
  CrashedHolderFreed
CHECK_DEADLOCK FALSE
