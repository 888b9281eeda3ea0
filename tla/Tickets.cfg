SPECIFICATION FairSpec
CONSTANTS
  floor = floor
  stand = stand
  r1 = r1
  r2 = r2
  h1 = h1
  h2 = h2
  None = None
  Type = {floor, stand}
  Reservation = {r1, r2}
  Handler = {h1, h2}
  Cart <- MCCart
  Seats <- MCSeats
  Quantity = {1}
  MaxRequests = 3
  MayExpire = {r1}
INVARIANTS
  TypeOK
  TicketsMatchReservation
  SeatsAccounted
PROPERTIES
  EndedStaysEnded
  ImplementsPool
  RequestsEnd
CHECK_DEADLOCK FALSE
