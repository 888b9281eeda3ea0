--------------------------- MODULE TicketInventory ---------------------------
(***************************************************************************)
(* The seats of an event in ticket-service: createReservation,             *)
(* confirmPurchase, releaseReservation and updateTicketType of             *)
(* ticketService.ts.  The first three run under a Redis lock, inside a     *)
(* PostgreSQL transaction (READ COMMITTED) that takes row locks in the     *)
(* order of the request.  What a transaction has done is seen by others    *)
(* only at its COMMIT; an error, a timeout or a crash rolls it back.       *)
(***************************************************************************)
EXTENDS Integers, Sequences, FiniteSets

CONSTANTS
  Type,        \* ticket types of the event
  Reservation, \* ids of reservations
  Handler,     \* requests served at a time
  Cart,        \* what a request may ask for: sequences of [type, quantity]
  Seats,       \* quantity of each type when it was created
  Quantity,    \* quantities an administrator may set
  MaxRequests, \* bound: requests in a behaviour
  MayExpire,   \* bound: reservations that may reach their expires_at
  None         \* no lock owner, no reservation

ASSUME InventoryAssumption ==
  /\ Seats \in [Type -> Nat \ {0}]
  /\ Quantity \subseteq Nat \ {0}
  /\ MaxRequests \in Nat
  /\ MayExpire \subseteq Reservation
  /\ None \notin Handler /\ None \notin Reservation
  /\ Type \cap Reservation = {}

(* A cart names at least one type and no type twice. *)
ASSUME CartAssumption ==
  \A c \in Cart : /\ c \in Seq([type : Type, quantity : Nat \ {0}])
                  /\ c # <<>>
                  /\ \A i, j \in 1..Len(c) : c[i].type = c[j].type => i = j

VARIABLES
  types,    \* ticket_types: quantity and the three counters
  resv,     \* reservations: status and the JSON of its items
  tickets,  \* tickets inserted for a reservation, per type
  queued,   \* times mint jobs for the tickets of a reservation were published
  due,      \* reservations whose expires_at has passed
  rowLock,  \* the transaction that holds a row
  key,      \* the Redis lock of a type or of a reservation
  handler,  \* the requests being served
  requests  \* requests received so far

tables == <<types, resv, tickets>>
vars == <<types, resv, tickets, queued, due, rowLock, key, handler, requests>>

Row == Type \cup Reservation
NoSeats == [t \in Type |-> 0]
Idle == [op |-> "none", step |-> "idle", resv |-> None, cart |-> <<>>, done |-> 0]
Transaction == {"read", "items", "publish", "commit"}

(* What the first n items of a cart ask of each type. *)
Needs(c, n) == [t \in Type |-> IF \E i \in 1..n : c[i].type = t
                                 THEN c[CHOOSE i \in 1..n : c[i].type = t].quantity
                                 ELSE 0]

Init ==
  /\ types = [t \in Type |-> [quantity |-> Seats[t], available |-> Seats[t],
                              sold |-> 0, reserved |-> 0]]
  /\ resv = [r \in Reservation |-> [status |-> "absent", cart |-> <<>>]]
  /\ tickets = [r \in Reservation |-> NoSeats]
  /\ queued = [r \in Reservation |-> 0]
  /\ due = {}
  /\ rowLock = [x \in Row |-> None]
  /\ key = [x \in Row |-> None]
  /\ handler = [h \in Handler |-> Idle]
  /\ requests = 0

At(h, step) == handler[h].step = step
Goto(h, step) == handler' = [handler EXCEPT ![h].step = step]
ReleaseRows(h) == rowLock' = [x \in Row |-> IF rowLock[x] = h THEN None ELSE rowLock[x]]

------------------------------------------------------------------------------
(* A request arrives.  The id of a new reservation is a fresh UUID. *)
Receive(h) ==
  /\ At(h, "idle") /\ requests < MaxRequests
  /\ requests' = requests + 1
  /\ \/ \E c \in Cart, r \in Reservation :
          /\ resv[r].status = "absent" /\ \A g \in Handler : handler[g].resv # r
          /\ handler' = [handler EXCEPT ![h] = [op |-> "reserve", step |-> "lock",
                                                resv |-> r, cart |-> c, done |-> 0]]
     \/ \E op \in {"confirm", "release"}, r \in Reservation :
          /\ resv[r].status # "absent"
          /\ handler' = [handler EXCEPT ![h] = [op |-> op, step |-> "lock",
                                                resv |-> r, cart |-> <<>>, done |-> 0]]
  /\ UNCHANGED <<tables, queued, due, rowLock, key>>

(* The Redis lock: of the first type of a cart, or of the reservation. *)
KeyOf(h) == IF handler[h].op = "reserve" THEN handler[h].cart[1].type ELSE handler[h].resv

Enter(h) ==
  /\ At(h, "lock") /\ key[KeyOf(h)] = None
  /\ key' = [key EXCEPT ![KeyOf(h)] = h]
  /\ Goto(h, IF handler[h].op = "reserve" THEN "items" ELSE "read")
  /\ UNCHANGED <<tables, queued, due, rowLock, requests>>

(* Contention, the retries used up, or Redis down: 409, nothing was done. *)
Refused(h) ==
  /\ At(h, "lock")
  /\ handler' = [handler EXCEPT ![h] = Idle]
  /\ UNCHANGED <<tables, queued, due, rowLock, key, requests>>

(* ROLLBACK; then the finally of withLock. *)
Abort(h) ==
  /\ ReleaseRows(h)
  /\ Goto(h, "finally")
  /\ UNCHANGED <<tables, queued, due, key, requests>>

(* Mutant of ReadReservation: SELECT without FOR UPDATE. *)
ReadWithoutLock(h) ==
  /\ At(h, "read")
  /\ IF resv[handler[h].resv].status = "pending"
       THEN /\ handler' = [handler EXCEPT ![h].step = "items",
                                          ![h].cart = resv[handler[h].resv].cart]
            /\ UNCHANGED <<tables, queued, due, rowLock, key, requests>>
       ELSE Abort(h)

(* Mutant of ReadReservation: the status is not tested. *)
ReadAnyStatus(h) ==
  LET r == handler[h].resv IN
  /\ At(h, "read") /\ rowLock[r] = None
  /\ rowLock' = [rowLock EXCEPT ![r] = h]
  /\ handler' = [handler EXCEPT ![h].step = "items", ![h].cart = resv[r].cart]
  /\ UNCHANGED <<tables, queued, due, key, requests>>

(* SELECT ... FOR UPDATE of the reservation; it must still be pending.     *)
(* Whether it is past expires_at is not asked.                             *)
ReadReservation(h) ==
  LET r == handler[h].resv IN
  /\ At(h, "read") /\ rowLock[r] = None
  /\ IF resv[r].status = "pending"
       THEN /\ rowLock' = [rowLock EXCEPT ![r] = h]
            /\ handler' = [handler EXCEPT ![h].step = "items", ![h].cart = resv[r].cart]
            /\ UNCHANGED <<tables, queued, due, key, requests>>
       ELSE Abort(h)

Item(h) == handler[h].cart[handler[h].done + 1]

(* Mutant of Fits: the test of the seats left is dropped. *)
FitsAlways(h) == TRUE

(* A reservation asks whether enough seats are left.  Giving seats back    *)
(* must pass the CHECK available_quantity <= quantity, and quantity may    *)
(* have been lowered meanwhile.                                            *)
Fits(h) ==
  LET row == types[Item(h).type] IN
  CASE handler[h].op = "reserve" -> Item(h).quantity <= row.available
    [] handler[h].op = "release" -> row.available + Item(h).quantity <= row.quantity
    [] OTHER -> TRUE

(* Mutant of TakeItem: the row is read and updated without FOR UPDATE. *)
TakeItemUnlocked(h) ==
  LET n == handler[h].done + 1
      last == n = Len(handler[h].cart)
      next == IF handler[h].op = "confirm" THEN "publish" ELSE "commit"
  IN /\ At(h, "items")
     /\ IF Fits(h)
          THEN /\ handler' = [handler EXCEPT ![h].done = n,
                                             ![h].step = IF last THEN next ELSE "items"]
               /\ UNCHANGED <<tables, queued, due, rowLock, key, requests>>
          ELSE Abort(h)

(* The next item of the cart: its row is locked, tested and updated. *)
TakeItem(h) ==
  LET t == Item(h).type
      n == handler[h].done + 1
      last == n = Len(handler[h].cart)
      next == IF handler[h].op = "confirm" THEN "publish" ELSE "commit"
  IN /\ At(h, "items") /\ rowLock[t] \in {None, h}
     /\ IF Fits(h)
          THEN /\ rowLock' = [rowLock EXCEPT ![t] = h]
               /\ handler' = [handler EXCEPT ![h].done = n,
                                             ![h].step = IF last THEN next ELSE "items"]
               /\ UNCHANGED <<tables, queued, due, key, requests>>
          ELSE Abort(h)

(* confirmPurchase publishes the mint jobs before its COMMIT and ignores a *)
(* failure to publish.                                                     *)
Publish(h) ==
  /\ At(h, "publish")
  /\ queued' \in {queued, [queued EXCEPT ![handler[h].resv] = @ + 1]}
  /\ Goto(h, "commit")
  /\ UNCHANGED <<tables, due, rowLock, key, requests>>

(* One row of ticket_types after an UPDATE of its counters. *)
Moved(row, available, sold, reserved) ==
  [quantity  |-> row.quantity,
   available |-> row.available + available,
   sold      |-> row.sold + sold,
   reserved  |-> row.reserved + reserved]

(* What a transaction makes of the rows when it commits. *)
Reserve(r, c, need) ==
  /\ types' = [t \in Type |-> Moved(types[t], -need[t], 0, 0)]
  /\ resv' = [resv EXCEPT ![r] = [status |-> "pending", cart |-> c]]
  /\ UNCHANGED tickets

Confirm(r, need) ==
  /\ types' = [t \in Type |-> Moved(types[t], 0, need[t], -need[t])]
  /\ resv' = [resv EXCEPT ![r].status = "confirmed"]
  /\ tickets' = [tickets EXCEPT ![r] = [t \in Type |-> @[t] + need[t]]]

Release(r, need) ==
  /\ types' = [t \in Type |-> Moved(types[t], need[t], 0, 0)]
  /\ resv' = [resv EXCEPT ![r].status = "cancelled"]
  /\ UNCHANGED tickets

Commit(h) ==
  LET r == handler[h].resv
      c == handler[h].cart
      need == Needs(c, handler[h].done)
  IN /\ At(h, "commit")
     /\ \/ handler[h].op = "reserve" /\ Reserve(r, c, need)
        \/ handler[h].op = "confirm" /\ Confirm(r, need)
        \/ handler[h].op = "release" /\ Release(r, need)
     /\ ReleaseRows(h)
     /\ Goto(h, "finally")
     /\ UNCHANGED <<queued, due, key, requests>>

(* A statement fails, the COMMIT included: the transaction rolls back. *)
SqlError(h) == handler[h].step \in Transaction /\ Abort(h)

(* Mutant of LockTimeout: no lock_timeout. *)
NoLockTimeout(h) == FALSE

Wanted(h) == IF At(h, "read") THEN handler[h].resv ELSE Item(h).type

(* A row is held by another transaction for longer than lock_timeout, or   *)
(* PostgreSQL finds a deadlock.                                            *)
LockTimeout(h) ==
  /\ handler[h].step \in {"read", "items"}
  /\ rowLock[Wanted(h)] \notin {None, h}
  /\ Abort(h)

(* The finally of withLock deletes the key if it is still its own; Redis   *)
(* may fail, and the key is left to run out.                               *)
Finally(h) ==
  /\ At(h, "finally")
  /\ key' \in {key, [x \in Row |-> IF key[x] = h THEN None ELSE key[x]]}
  /\ handler' = [handler EXCEPT ![h] = Idle]
  /\ UNCHANGED <<tables, queued, due, rowLock, requests>>

(* The process dies: its connection goes, its Redis key stays. *)
Crash(h) ==
  /\ ~ At(h, "idle")
  /\ ReleaseRows(h)
  /\ handler' = [handler EXCEPT ![h] = Idle]
  /\ UNCHANGED <<tables, queued, due, key, requests>>

KeyRunsOut(x) ==
  /\ key[x] # None
  /\ key' = [key EXCEPT ![x] = None]
  /\ UNCHANGED <<tables, queued, due, rowLock, handler, requests>>

(* One UPDATE, which waits for the row and must pass the CHECK; the number *)
(* of seats that are available is left as it is.                           *)
UpdateTicketType(t, q) ==
  /\ rowLock[t] = None /\ types[t].available <= q
  /\ types' = [types EXCEPT ![t].quantity = q]
  /\ UNCHANGED <<resv, tickets, queued, due, rowLock, key, handler, requests>>

Expire(r) ==
  /\ r \in MayExpire /\ resv[r].status = "pending"
  /\ due' = due \cup {r}
  /\ UNCHANGED <<tables, queued, rowLock, key, handler, requests>>

(* The expiry and cleanup workers select release_expired_reservations(),   *)
(* a function that no migration creates: the statement fails, the error is *)
(* logged and nothing changes.                                             *)
RunWorker == due # {} /\ UNCHANGED vars

Handle(h) == \/ Receive(h) \/ Enter(h) \/ Refused(h) \/ ReadReservation(h)
             \/ TakeItem(h) \/ Publish(h) \/ Commit(h) \/ SqlError(h)
             \/ LockTimeout(h) \/ Finally(h) \/ Crash(h)

Next == \/ \E h \in Handler : Handle(h)
        \/ \E x \in Row : KeyRunsOut(x)
        \/ \E t \in Type, q \in Quantity : UpdateTicketType(t, q)
        \/ \E r \in Reservation : Expire(r)
        \/ RunWorker

Spec == Init /\ [][Next]_vars

(* withLock gives up after a bounded number of retries, each statement     *)
(* returns or runs into statement_timeout or lock_timeout, and the workers *)
(* run every minute.                                                       *)
FairSpec ==
  /\ Spec
  /\ \A h \in Handler : /\ WF_vars(Enter(h) \/ Refused(h))
                        /\ WF_vars(ReadReservation(h)) /\ WF_vars(TakeItem(h))
                        /\ WF_vars(LockTimeout(h)) /\ WF_vars(Publish(h))
                        /\ WF_vars(Commit(h)) /\ WF_vars(Finally(h))
  /\ \A r \in Reservation : WF_vars(Expire(r))
  /\ WF_vars(RunWorker)

------------------------------------------------------------------------------
Status == {"absent", "pending", "confirmed", "cancelled"}
Counters == [quantity : Nat, available : Nat, sold : Nat, reserved : Int]
Progress == [op : {"none", "reserve", "confirm", "release"},
             step : Transaction \cup {"idle", "lock", "finally"},
             resv : Reservation \cup {None},
             cart : Cart \cup {<<>>}, done : Nat]

(* Every variable has its type; in particular no type ever has fewer seats *)
(* left than none, whatever transactions overlap (the CHECK constraint of  *)
(* available_quantity is never needed).                                    *)
TypeOK ==
  /\ types \in [Type -> Counters]
  /\ resv \in [Reservation -> [status : Status, cart : Cart \cup {<<>>}]]
  /\ tickets \in [Reservation -> [Type -> Nat]]
  /\ queued \in [Reservation -> Nat]
  /\ due \subseteq Reservation
  /\ rowLock \in [Row -> Handler \cup {None}]
  /\ key \in [Row -> Handler \cup {None}]
  /\ handler \in [Handler -> Progress]
  /\ requests \in 0..MaxRequests

(* A reservation has the tickets of its whole cart when it is confirmed,   *)
(* and none before or when it was released: retries, overlapping requests  *)
(* and lapsed Redis locks never issue them twice or in part.               *)
TicketsMatchReservation ==
  \A r \in Reservation :
    tickets[r] = IF resv[r].status = "confirmed"
                   THEN Needs(resv[r].cart, Len(resv[r].cart))
                   ELSE NoSeats

(* The seats of n[r] places for each reservation r, told apart. *)
Seated(n) == UNION {{r} \X (1..n[r]) : r \in Reservation}

HeldSeats(t) == Seated([r \in Reservation |->
                          IF resv[r].status = "pending"
                            THEN Needs(resv[r].cart, Len(resv[r].cart))[t]
                            ELSE 0])
IssuedSeats(t) == Seated([r \in Reservation |-> tickets[r][t]])

(* Every seat that was put on sale is available, held by one pending       *)
(* reservation or sold, and each seat sold has one ticket: no interleaving *)
(* of the handlers loses a seat or sells it twice.                         *)
SeatsAccounted ==
  \A t \in Type :
    /\ types[t].available + Cardinality(HeldSeats(t)) + types[t].sold = Seats[t]
    /\ types[t].sold = Cardinality(IssuedSeats(t))

(* Once confirmed or cancelled, a reservation keeps its status, its items  *)
(* and its tickets, and no mint job for it is published any more.          *)
EndedStaysEnded ==
  [][\A r \in Reservation : resv[r].status \in {"confirmed", "cancelled"} =>
       /\ resv'[r] = resv[r]
       /\ tickets'[r] = tickets[r]
       /\ queued'[r] = queued[r]]_vars

ClaimState(s) == CASE s = "absent" -> "none"
                   [] s = "pending" -> "held"
                   [] s = "confirmed" -> "sold"
                   [] s = "cancelled" -> "returned"

Pool == INSTANCE SeatPool WITH
  Claim  <- Reservation,
  Basket <- {Needs(c, Len(c)) : c \in Cart},
  free   <- [t \in Type |-> types[t].available],
  state  <- [r \in Reservation |-> ClaimState(resv[r].status)],
  need   <- [r \in Reservation |-> Needs(resv[r].cart, Len(resv[r].cart))],
  sold   <- [t \in Type |-> types[t].sold]

(* The handlers, step by step and interleaved, move seats as SeatPool      *)
(* promises: a whole basket at a time, only seats that are free, once.     *)
ImplementsPool == Pool!Spec

(* A request in progress ends, even when two transactions wait for the     *)
(* rows of each other: carts name the types in any order.                  *)
RequestsEnd == \A h \in Handler : ~ At(h, "idle") ~> At(h, "idle")
==============================================================================
