SPECIFICATION Spec
CONSTANTS
  s1 = s1
  s2 = s2
  o1 = o1
  o2 = o2
  b1 = b1
  b2 = b2
  t1 = t1
  t2 = t2
  Scans <- TwoScans
  Offline <- TwoOffline
  Batches <- TwoBatches
  Tickets <- TwoTickets
  TicketOf <- DoorTickets
  Items <- Crossed
  PoolSize = 2
  MaxReentries = 1
INVARIANTS
  TypeOK
  NoSecondEntry
  CountMatchesEntries
  DuplicateHasCause
  RecordedOnce
PROPERTIES
  RequestsEnd
CHECK_DEADLOCK FALSE
