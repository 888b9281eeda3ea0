SPECIFICATION Spec
CONSTANTS
  r1 = r1
  r2 = r2
  r3 = r3
  Requests <- ThreeRequests
  Orders <- ThreeOrders
  NoOrder = NoOrder
  MaxFaults = 2
INVARIANTS
  TypeOK
  OneOrder
  RepeatsMakeNoOrder
  ToldOrdersAreWhole
  MarkerIsOwned
PROPERTIES
  ClientIsAnswered
CHECK_DEADLOCK FALSE
