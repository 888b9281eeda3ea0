------------------------ MODULE TicketInventory_proofs -----------------------
(***************************************************************************)
(* Proofs about TicketInventory, for any types, carts, handlers and number *)
(* of requests.  The invariant says what a transaction relies on between   *)
(* its statements: the rows it read are still locked and still as it read  *)
(* them.  From it follow the types, the tickets of a reservation and the   *)
(* implementation of SeatPool.                                             *)
(***************************************************************************)
EXTENDS TicketInventory, FiniteSetTheorems, TLAPS

Working == {"items", "publish", "commit"}

(* Where a request can be, by its own record alone. *)
Shape(h) ==
  LET r == handler[h] IN
  /\ r.step = "idle" => r = Idle
  /\ r.step # "idle" => r.resv \in Reservation /\ r.op # "none"
  /\ r.step \in {"lock", "read"} => r.done = 0
  /\ r.op = "reserve" => r.cart \in Cart /\ r.step \notin {"read", "publish"}
  /\ r.step \in Working => r.cart \in Cart /\ r.done \in 0..Len(r.cart)
  /\ r.step = "items" => r.done < Len(r.cart)
  /\ r.step \in {"publish", "commit"} => r.done = Len(r.cart)

(* A new reservation has its id for itself until it is inserted. *)
Fresh(h) ==
  handler[h].op = "reserve" /\ handler[h].step # "finally" =>
    /\ resv[handler[h].resv].status = "absent"
    /\ \A g \in Handler \ {h} : handler[g].resv # handler[h].resv

(* The reservation that is confirmed or released is locked and pending. *)
OwnsReservation(h) ==
  handler[h].op # "reserve" /\ handler[h].step \in Working =>
    /\ rowLock[handler[h].resv] = h
    /\ resv[handler[h].resv] = [status |-> "pending", cart |-> handler[h].cart]

(* The types handled so far are locked, and have the seats to be taken. *)
OwnsTypes(h) ==
  handler[h].step \in Working =>
    \A i \in 1..handler[h].done :
      /\ rowLock[handler[h].cart[i].type] = h
      /\ handler[h].op = "reserve" =>
           handler[h].cart[i].quantity <= types[handler[h].cart[i].type].available

HandlerInv(h) == Shape(h) /\ Fresh(h) /\ OwnsReservation(h) /\ OwnsTypes(h)

RowInv(r) == resv[r].status # "absent" => resv[r].cart \in Cart

Inv == /\ TypeOK
       /\ \A h \in Handler : HandlerInv(h)
       /\ \A r \in Reservation : RowInv(r)
       /\ TicketsMatchReservation

------------------------------------------------------------------------------
(* An item of a cart names a type and a quantity. *)
LEMMA ItemOfCart ==
  ASSUME NEW c \in Cart, NEW i \in 1..Len(c)
  PROVE  c[i].type \in Type /\ c[i].quantity \in Nat \ {0} /\ Len(c) \in Nat
<1> DEFINE Line == [type : Type, quantity : Nat \ {0}]
<1>1. c \in Seq(Line)
  BY CartAssumption
<1>2. c[i] \in Line /\ Len(c) \in Nat
  <2> HIDE DEF Line
  <2> QED BY <1>1
<1> QED BY <1>2

LEMMA CartLength == ASSUME NEW c \in Cart PROVE Len(c) \in Nat \ {0}
<1> DEFINE Line == [type : Type, quantity : Nat \ {0}]
<1>1. c \in Seq(Line) /\ c # <<>>
  BY CartAssumption
<1> HIDE DEF Line
<1> QED BY <1>1

(* What a cart asks of a type is nothing, or the quantity of one of its    *)
(* first n items.                                                          *)
LEMMA NeedsOfCart ==
  ASSUME NEW c \in Cart, NEW n \in 0..Len(c)
  PROVE  /\ Needs(c, n) \in [Type -> Nat]
         /\ \A t \in Type : \/ Needs(c, n)[t] = 0
                            \/ \E i \in 1..n : /\ c[i].type = t
                                               /\ Needs(c, n)[t] = c[i].quantity
<1>1. \A i \in 1..n : c[i].quantity \in Nat
  BY ItemOfCart
<1>2. ASSUME NEW t \in Type
      PROVE  /\ Needs(c, n)[t] \in Nat
             /\ \/ Needs(c, n)[t] = 0
                \/ \E i \in 1..n : c[i].type = t /\ Needs(c, n)[t] = c[i].quantity
  <2>1. CASE \E i \in 1..n : c[i].type = t
    <3> DEFINE k == CHOOSE i \in 1..n : c[i].type = t
    <3>1. k \in 1..n /\ c[k].type = t
      BY <2>1
    <3>2. Needs(c, n)[t] = c[k].quantity
      BY <2>1 DEF Needs
    <3> QED BY <1>1, <3>1, <3>2
  <2>2. CASE ~ \E i \in 1..n : c[i].type = t
    BY <2>2 DEF Needs
  <2> QED BY <2>1, <2>2
<1> QED BY <1>2 DEF Needs

LEMMA InitInv == Init => Inv
<1> SUFFICES ASSUME Init PROVE Inv
  OBVIOUS
<1> USE InventoryAssumption
<1>1. NoSeats \in [Type -> Nat]
  BY DEF NoSeats
<1>2. TypeOK
  BY <1>1 DEF Init, TypeOK, Status, Transaction, Idle, Row, Progress, Counters
<1>3. \A h \in Handler : HandlerInv(h)
  BY DEF Init, Idle, HandlerInv, Shape, Fresh, OwnsReservation, OwnsTypes, Working
<1>4. \A r \in Reservation : RowInv(r)
  BY DEF Init, RowInv
<1>5. TicketsMatchReservation
  BY DEF Init, TicketsMatchReservation
<1> QED BY <1>2, <1>3, <1>4, <1>5 DEF Inv

------------------------------------------------------------------------------
(* A handler is not disturbed by a step of another one that leaves its     *)
(* locked rows, the seats of its types and its reservation alone.          *)
LEMMA Bystander ==
  ASSUME Inv, NEW k \in Handler, NEW h \in Handler \ {k},
         \A g \in Handler \ {k} : handler'[g] = handler[g],
         \A x \in Row : rowLock[x] = h => rowLock'[x] = h,
         \A t \in Type : rowLock[t] = h => types'[t].available = types[t].available,
         \A r \in Reservation :
           r = handler[h].resv /\ (rowLock[r] = h \/ handler[h].op = "reserve")
             => resv'[r] = resv[r] \/ handler[h].step = "finally",
         handler[h].op = "reserve" /\ handler[h].step # "finally"
           => handler'[k].resv # handler[h].resv
  PROVE  HandlerInv(h)'
<1>1. HandlerInv(h) /\ handler'[h] = handler[h]
  BY DEF Inv
<1>2. Shape(h)'
  BY <1>1 DEF HandlerInv, Shape
<1>3. handler[h].op = "reserve" => handler[h].step # "idle" /\ handler[h].resv \in Reservation
  BY <1>1 DEF HandlerInv, Shape, Idle
<1>4. Fresh(h)'
  BY <1>1, <1>3 DEF HandlerInv, Fresh
<1>5. OwnsReservation(h)'
  <2> SUFFICES ASSUME handler[h].op # "reserve", handler[h].step \in Working
               PROVE  /\ rowLock'[handler[h].resv] = h
                      /\ resv'[handler[h].resv] = [status |-> "pending", cart |-> handler[h].cart]
    BY <1>1 DEF OwnsReservation
  <2>1. handler[h].resv \in Reservation /\ handler[h].step # "finally"
    BY <1>1 DEF HandlerInv, Shape, Working
  <2>2. rowLock[handler[h].resv] = h
    BY <1>1 DEF HandlerInv, OwnsReservation
  <2> QED BY <1>1, <2>1, <2>2 DEF HandlerInv, OwnsReservation, Row
<1>6. OwnsTypes(h)'
  <2> SUFFICES ASSUME handler[h].step \in Working, NEW i \in 1..handler[h].done
               PROVE  /\ rowLock'[handler[h].cart[i].type] = h
                      /\ handler[h].op = "reserve" =>
                           handler[h].cart[i].quantity <=
                             types'[handler[h].cart[i].type].available
    BY <1>1 DEF OwnsTypes
  <2>1. handler[h].cart[i].type \in Type
    <3>1. handler[h].cart \in Cart /\ handler[h].done \in 0..Len(handler[h].cart)
      BY <1>1 DEF HandlerInv, Shape
    <3> QED BY <3>1, ItemOfCart
  <2> QED BY <1>1, <2>1 DEF HandlerInv, OwnsTypes, Row
<1> QED BY <1>2, <1>4, <1>5, <1>6 DEF HandlerInv

LEMMA StepTyped ==
  ASSUME handler \in [Handler -> Progress], NEW k \in Handler,
         NEW s \in Transaction \cup {"idle", "lock", "finally"}
  PROVE  [handler EXCEPT ![k].step = s] \in [Handler -> Progress]
<1>1. handler[k] \in Progress
  OBVIOUS
<1>2. [handler[k] EXCEPT !.step = s] \in Progress
  BY <1>1 DEF Progress
<1> QED BY <1>2

(* What there is to show of a step of handler k that writes no table. *)
LEMMA Quiet ==
  ASSUME Inv, TypeOK', NEW k \in Handler, UNCHANGED <<types, resv, tickets>>,
         \A g \in Handler \ {k} : handler'[g] = handler[g],
         \A h \in Handler \ {k}, x \in Row : rowLock[x] = h => rowLock'[x] = h,
         \A h \in Handler \ {k} :
           handler[h].op = "reserve" /\ handler[h].step # "finally"
             => handler'[k].resv # handler[h].resv,
         HandlerInv(k)'
  PROVE  Inv'
<1>1. ASSUME NEW h \in Handler \ {k} PROVE HandlerInv(h)'
  BY Bystander
<1>2. \A h \in Handler : HandlerInv(h)'
  BY <1>1
<1>3. \A r \in Reservation : RowInv(r)'
  BY DEF Inv, RowInv
<1>4. TicketsMatchReservation'
  BY DEF Inv, TicketsMatchReservation
<1> QED BY <1>2, <1>3, <1>4 DEF Inv

(* The id a handler works on is nobody's new reservation but its own. *)
LEMMA SameId ==
  ASSUME Inv, NEW k \in Handler, NEW h \in Handler \ {k},
         handler[h].op = "reserve", handler[h].step # "finally"
  PROVE  handler[h].resv \in Reservation /\ handler[k].resv # handler[h].resv
BY DEF Inv, HandlerInv, Fresh, Shape, Idle

LEMMA ReceiveInv == ASSUME Inv, NEW k \in Handler, Receive(k) PROVE Inv'
<1>1. TypeOK /\ HandlerInv(k) /\ handler[k] = Idle
  BY DEF Inv, Receive, At, HandlerInv, Shape
<1>2. CASE \E c \in Cart, r \in Reservation :
             /\ resv[r].status = "absent" /\ \A g \in Handler : handler[g].resv # r
             /\ handler' = [handler EXCEPT ![k] = [op |-> "reserve", step |-> "lock",
                                                   resv |-> r, cart |-> c, done |-> 0]]
  <2> PICK c \in Cart, r \in Reservation :
             /\ resv[r].status = "absent" /\ \A g \in Handler : handler[g].resv # r
             /\ handler' = [handler EXCEPT ![k] = [op |-> "reserve", step |-> "lock",
                                                   resv |-> r, cart |-> c, done |-> 0]]
    BY <1>2
  <2>1. TypeOK'
    BY <1>1, InventoryAssumption DEF TypeOK, Receive, tables, Transaction, Progress
  <2>2. handler'[k] = [op |-> "reserve", step |-> "lock", resv |-> r, cart |-> c, done |-> 0]
    BY <1>1 DEF TypeOK
  <2>3. \A g \in Handler \ {k} : handler'[g] = handler[g]
    BY <1>1 DEF TypeOK
  <2>4. HandlerInv(k)'
    BY <2>2, <2>3 DEF Receive, tables, HandlerInv, Shape, Fresh, OwnsReservation, OwnsTypes, Working
  <2> QED BY <2>1, <2>2, <2>3, <2>4, Quiet DEF Receive, tables
<1>3. CASE \E op \in {"confirm", "release"}, r \in Reservation :
             /\ resv[r].status # "absent"
             /\ handler' = [handler EXCEPT ![k] = [op |-> op, step |-> "lock",
                                                   resv |-> r, cart |-> <<>>, done |-> 0]]
  <2> PICK op \in {"confirm", "release"}, r \in Reservation :
             /\ resv[r].status # "absent"
             /\ handler' = [handler EXCEPT ![k] = [op |-> op, step |-> "lock",
                                                   resv |-> r, cart |-> <<>>, done |-> 0]]
    BY <1>3
  <2>1. TypeOK'
    BY <1>1, InventoryAssumption DEF TypeOK, Receive, tables, Transaction, Progress
  <2>2. handler'[k] = [op |-> op, step |-> "lock", resv |-> r, cart |-> <<>>, done |-> 0]
    BY <1>1 DEF TypeOK
  <2>3. \A g \in Handler \ {k} : handler'[g] = handler[g]
    BY <1>1 DEF TypeOK
  <2>4. HandlerInv(k)'
    BY <2>2, <2>3 DEF Receive, tables, HandlerInv, Shape, Fresh, OwnsReservation, OwnsTypes, Working
  <2>5. ASSUME NEW h \in Handler \ {k}, handler[h].op = "reserve", handler[h].step # "finally"
        PROVE  handler'[k].resv # handler[h].resv
    BY <2>2, <2>5 DEF Inv, HandlerInv, Fresh
  <2> QED BY <2>1, <2>2, <2>3, <2>4, <2>5, Quiet DEF Receive, tables
<1> QED BY <1>2, <1>3 DEF Receive

LEMMA EnterInv == ASSUME Inv, NEW k \in Handler, Enter(k) PROVE Inv'
<1>1. TypeOK /\ HandlerInv(k)
  BY DEF Inv
<1>2. handler[k].resv \in Reservation /\ (handler[k].op = "reserve" => handler[k].cart \in Cart)
  BY <1>1 DEF Enter, At, HandlerInv, Shape
<1> DEFINE s == IF handler[k].op = "reserve" THEN "items" ELSE "read"
<1>3. handler' = [handler EXCEPT ![k].step = s]
  BY DEF Enter, Goto
<1>4. TypeOK'
  <2>1. KeyOf(k) \in Row => key' \in [Row -> Handler \cup {None}]
    BY <1>1 DEF TypeOK, Enter
  <2>2. KeyOf(k) \in Row
    BY <1>2, ItemOfCart, CartAssumption DEF KeyOf, Row
  <2>3. s \in Transaction
    BY DEF Transaction
  <2> HIDE DEF s
  <2> QED BY <1>1, <1>3, <2>1, <2>2, <2>3, StepTyped DEF TypeOK, Enter, tables
<1>5. handler'[k] = [handler[k] EXCEPT !.step = s]
  BY <1>1, <1>3 DEF TypeOK
<1>6. \A g \in Handler \ {k} : handler'[g] = handler[g]
  BY <1>1, <1>3 DEF TypeOK
<1>7. handler[k].op = "reserve" => Len(handler[k].cart) \in Nat \ {0}
  BY <1>2, CartLength
<1>8. HandlerInv(k)'
  <2>1. Shape(k)'
    BY <1>1, <1>2, <1>5, <1>7 DEF Enter, At, HandlerInv, Shape, TypeOK, Working
  <2>2. Fresh(k)'
    BY <1>1, <1>5, <1>6 DEF Enter, tables, At, HandlerInv, Fresh, TypeOK
  <2>3. OwnsReservation(k)' /\ OwnsTypes(k)'
    BY <1>1, <1>5 DEF Enter, At, HandlerInv, Shape, OwnsReservation, OwnsTypes, TypeOK, Working
  <2> QED BY <2>1, <2>2, <2>3 DEF HandlerInv
<1>9. handler'[k].resv = handler[k].resv
  BY <1>1, <1>5 DEF TypeOK
<1> QED BY <1>4, <1>6, <1>8, <1>9, SameId, Quiet DEF Enter, tables

(* A handler that ends, by an answer, a refusal or a crash. *)
LEMMA EndInv ==
  ASSUME Inv, TypeOK', NEW k \in Handler, UNCHANGED <<types, resv, tickets>>,
         handler' = [handler EXCEPT ![k] = Idle],
         rowLock' = rowLock \/ ReleaseRows(k)
  PROVE  Inv'
<1>1. TypeOK
  BY DEF Inv
<1>2. handler'[k] = Idle
  BY <1>1 DEF TypeOK
<1>3. \A g \in Handler \ {k} : handler'[g] = handler[g]
  BY <1>1 DEF TypeOK
<1>4. HandlerInv(k)'
  BY <1>2 DEF HandlerInv, Shape, Fresh, OwnsReservation, OwnsTypes, Working, Idle
<1>5. \A h \in Handler \ {k}, x \in Row : rowLock[x] = h => rowLock'[x] = h
  BY DEF ReleaseRows
<1>6. handler'[k].resv = None
  BY <1>2 DEF Idle
<1> QED BY <1>3, <1>4, <1>5, <1>6, SameId, Quiet, InventoryAssumption

LEMMA AbortInv ==
  ASSUME Inv, NEW k \in Handler, handler[k].step # "idle", Abort(k)
  PROVE  Inv'
<1>1. TypeOK /\ HandlerInv(k)
  BY DEF Inv
<1>2. TypeOK'
  <2>1. rowLock' \in [Row -> Handler \cup {None}]
    BY <1>1 DEF TypeOK, Abort, ReleaseRows
  <2> QED BY <1>1, <2>1, StepTyped DEF TypeOK, Abort, Goto, tables
<1>3. handler'[k] = [handler[k] EXCEPT !.step = "finally"]
  BY <1>1 DEF TypeOK, Abort, Goto
<1>4. \A g \in Handler \ {k} : handler'[g] = handler[g]
  BY <1>1 DEF TypeOK, Abort, Goto
<1>5. HandlerInv(k)'
  BY <1>1, <1>3
  DEF HandlerInv, Shape, Fresh, OwnsReservation, OwnsTypes, Working, TypeOK
<1>6. \A h \in Handler \ {k}, x \in Row : rowLock[x] = h => rowLock'[x] = h
  BY DEF Abort, ReleaseRows
<1>7. handler'[k].resv = handler[k].resv
  BY <1>1, <1>3 DEF TypeOK
<1> QED BY <1>2, <1>4, <1>5, <1>6, <1>7, SameId, Quiet DEF Abort, tables

LEMMA ReadInv == ASSUME Inv, NEW k \in Handler, ReadReservation(k) PROVE Inv'
<1> DEFINE r == handler[k].resv
<1>1. TypeOK /\ HandlerInv(k) /\ handler[k].step = "read"
  BY DEF Inv, ReadReservation, At
<1>2. r \in Reservation /\ handler[k].op # "reserve" /\ handler[k].done = 0
  BY <1>1 DEF HandlerInv, Shape
<1>3. CASE resv[r].status = "pending"
  <2>1. /\ rowLock' = [rowLock EXCEPT ![r] = k]
        /\ handler' = [handler EXCEPT ![k].step = "items", ![k].cart = resv[r].cart]
        /\ rowLock[r] = None
        /\ UNCHANGED <<types, resv, tickets, queued, due, key, requests>>
    BY <1>3 DEF ReadReservation, tables
  <2>2. resv[r].cart \in Cart
    BY <1>2, <1>3 DEF Inv, RowInv
  <2>3. handler'[k] = [handler[k] EXCEPT !.step = "items", !.cart = resv[r].cart]
    BY <1>1, <2>1 DEF TypeOK
  <2>4. \A g \in Handler \ {k} : handler'[g] = handler[g]
    BY <1>1, <2>1 DEF TypeOK
  <2>5. handler'[k] \in Progress
    <3>1. handler[k] \in Progress
      BY <1>1 DEF TypeOK
    <3> QED BY <2>2, <2>3, <3>1 DEF Progress, Transaction
  <2>6. TypeOK'
    <3>1. handler' \in [Handler -> Progress]
      BY <1>1, <2>1, <2>4, <2>5 DEF TypeOK
    <3>2. rowLock' \in [Row -> Handler \cup {None}]
      BY <1>1, <2>1 DEF TypeOK
    <3> QED BY <1>1, <2>1, <3>1, <3>2 DEF TypeOK
  <2>7. resv[r] = [status |-> "pending", cart |-> resv[r].cart]
    BY <1>1, <1>2, <1>3 DEF TypeOK
  <2>8. rowLock'[r] = k
    BY <1>1, <1>2, <2>1 DEF TypeOK, Row
  <2>9. handler'[k].step = "items" /\ handler'[k].cart = resv[r].cart
        /\ handler'[k].resv = r /\ handler'[k].op = handler[k].op /\ handler'[k].done = 0
    BY <1>1, <1>2, <2>3 DEF TypeOK, Progress
  <2>10. HandlerInv(k)'
    <3>1. Shape(k)'
      BY <1>1, <1>2, <2>2, <2>9, CartLength DEF HandlerInv, Shape, Working
    <3>2. Fresh(k)' /\ OwnsTypes(k)'
      BY <1>2, <2>9 DEF Fresh, OwnsTypes
    <3>3. OwnsReservation(k)'
      BY <2>1, <2>7, <2>8, <2>9 DEF OwnsReservation
    <3> QED BY <3>1, <3>2, <3>3 DEF HandlerInv
  <2>11. \A h \in Handler \ {k}, x \in Row : rowLock[x] = h => rowLock'[x] = h
    BY <1>1, <2>1, InventoryAssumption DEF TypeOK
  <2>12. \A h \in Handler \ {k} :
           handler[h].op = "reserve" /\ handler[h].step # "finally"
             => handler'[k].resv # handler[h].resv
    BY <2>9, SameId
  <2>13. UNCHANGED <<types, resv, tickets>>
    BY <2>1
  <2> QED BY <2>4, <2>6, <2>10, <2>11, <2>12, <2>13, Quiet
<1>4. CASE resv[r].status # "pending"
  BY <1>1, <1>4, AbortInv DEF ReadReservation
<1> QED BY <1>3, <1>4

LEMMA TakeInv == ASSUME Inv, NEW k \in Handler, TakeItem(k) PROVE Inv'
<1> DEFINE c == handler[k].cart
           n == handler[k].done + 1
           t == Item(k).type
           s == IF n = Len(c)
                  THEN IF handler[k].op = "confirm" THEN "publish" ELSE "commit"
                  ELSE "items"
<1>1. TypeOK /\ HandlerInv(k) /\ handler[k].step = "items"
  BY DEF Inv, TakeItem, At
<1>2. c \in Cart /\ handler[k].done \in 0..Len(c) /\ handler[k].resv \in Reservation
  BY <1>1 DEF HandlerInv, Shape, Working
<1>3. Len(c) \in Nat
  BY <1>2, CartLength
<1>4. CASE Fits(k) /\ n <= Len(c)
  <2>1. /\ rowLock' = [rowLock EXCEPT ![t] = k]
        /\ handler' = [handler EXCEPT ![k].done = n, ![k].step = s]
        /\ rowLock[t] \in {None, k}
        /\ UNCHANGED <<types, resv, tickets, queued, due, key, requests>>
    BY <1>4 DEF TakeItem, tables
  <2>2. n \in 1..Len(c) /\ n - 1 = handler[k].done
    BY <1>2, <1>3, <1>4
  <2>3. t \in Type /\ Item(k) = c[n]
    BY <1>2, <2>2, ItemOfCart DEF Item
  <2>4. s \in Transaction
    BY DEF Transaction
  <2>5. handler'[k] = [handler[k] EXCEPT !.done = n, !.step = s]
    BY <1>1, <2>1 DEF TypeOK
  <2>6. \A g \in Handler \ {k} : handler'[g] = handler[g]
    BY <1>1, <2>1 DEF TypeOK
  <2>7. handler'[k] \in Progress
    <3>1. handler[k] \in Progress
      BY <1>1 DEF TypeOK
    <3>2. n \in Nat
      BY <1>3, <2>2
    <3> HIDE DEF s, n
    <3> QED BY <2>4, <2>5, <3>1, <3>2 DEF Progress
  <2>8. TypeOK'
    <3>1. handler' \in [Handler -> Progress]
      BY <1>1, <2>1, <2>6, <2>7 DEF TypeOK
    <3>2. rowLock' \in [Row -> Handler \cup {None}]
      BY <1>1, <2>1 DEF TypeOK
    <3> QED BY <1>1, <2>1, <3>1, <3>2 DEF TypeOK
  <2>9. /\ handler'[k].step = s /\ handler'[k].cart = c /\ handler'[k].done = n
        /\ handler'[k].resv = handler[k].resv /\ handler'[k].op = handler[k].op
    BY <1>1, <2>5 DEF TypeOK, Progress
  <2>10. rowLock'[t] = k /\ \A x \in Row : rowLock[x] = k => rowLock'[x] = k
    BY <1>1, <2>1, <2>3 DEF TypeOK, Row
  <2>11. HandlerInv(k)'
    <3>1. Shape(k)'
      BY <1>1, <1>2, <1>3, <2>2, <2>9 DEF HandlerInv, Shape, Working, TakeItem
    <3>2. Fresh(k)'
      BY <1>1, <2>1, <2>6, <2>9 DEF HandlerInv, Fresh
    <3>3. OwnsReservation(k)'
      <4> SUFFICES ASSUME handler[k].op # "reserve"
                   PROVE  /\ rowLock'[handler[k].resv] = k
                          /\ resv'[handler[k].resv] = [status |-> "pending", cart |-> c]
        BY <2>9 DEF OwnsReservation
      <4> QED BY <1>1, <1>2, <2>1, <2>10 DEF HandlerInv, OwnsReservation, Working, Row
    <3>4. OwnsTypes(k)'
      <4> SUFFICES ASSUME NEW i \in 1..n
                   PROVE  /\ rowLock'[c[i].type] = k
                          /\ handler[k].op = "reserve" =>
                               c[i].quantity <= types'[c[i].type].available
        BY <2>9 DEF OwnsTypes
      <4>1. CASE i = n
        BY <1>4, <2>1, <2>3, <2>10, <4>1 DEF Fits
      <4>2. CASE i # n
        <5>1. i \in 1..handler[k].done /\ c[i].type \in Type
          BY <1>2, <1>3, <2>2, <4>2, ItemOfCart
        <5> QED BY <1>1, <2>1, <2>10, <5>1 DEF HandlerInv, OwnsTypes, Working, Row
      <4> QED BY <4>1, <4>2
    <3> QED BY <3>1, <3>2, <3>3, <3>4 DEF HandlerInv
  <2>12. \A h \in Handler \ {k}, x \in Row : rowLock[x] = h => rowLock'[x] = h
    BY <1>1, <2>1, InventoryAssumption DEF TypeOK
  <2>13. \A h \in Handler \ {k} :
           handler[h].op = "reserve" /\ handler[h].step # "finally"
             => handler'[k].resv # handler[h].resv
    BY <2>9, SameId
  <2>14. UNCHANGED <<types, resv, tickets>>
    BY <2>1
  <2> QED BY <2>6, <2>8, <2>11, <2>12, <2>13, <2>14, Quiet
<1>5. CASE ~ Fits(k)
  BY <1>1, <1>5, AbortInv DEF TakeItem
<1>6. n <= Len(c)
  BY <1>1, <1>2, <1>3 DEF HandlerInv, Shape
<1> QED BY <1>4, <1>5, <1>6

LEMMA PublishInv == ASSUME Inv, NEW k \in Handler, Publish(k) PROVE Inv'
<1>1. TypeOK /\ HandlerInv(k) /\ handler[k].step = "publish"
  BY DEF Inv, Publish, At
<1>2. handler' = [handler EXCEPT ![k].step = "commit"]
  BY DEF Publish, Goto
<1>3. handler[k].resv \in Reservation
  BY <1>1 DEF HandlerInv, Shape
<1>4. TypeOK'
  <2>1. queued' \in [Reservation -> Nat]
    BY <1>1, <1>3 DEF TypeOK, Publish
  <2>2. handler' \in [Handler -> Progress]
    BY <1>1, <1>2, StepTyped DEF TypeOK, Transaction
  <2> QED BY <1>1, <2>1, <2>2 DEF TypeOK, Publish, tables
<1>5. handler'[k] = [handler[k] EXCEPT !.step = "commit"]
  BY <1>1, <1>2 DEF TypeOK
<1>6. \A g \in Handler \ {k} : handler'[g] = handler[g]
  BY <1>1, <1>2 DEF TypeOK
<1>7. /\ handler'[k].step = "commit" /\ handler'[k].cart = handler[k].cart
      /\ handler'[k].done = handler[k].done /\ handler'[k].resv = handler[k].resv
      /\ handler'[k].op = handler[k].op
  BY <1>1, <1>5 DEF TypeOK, Progress
<1>8. HandlerInv(k)'
  BY <1>1, <1>6, <1>7 DEF Publish, tables, HandlerInv, Shape, Fresh, OwnsReservation, OwnsTypes, Working
<1>9. \A h \in Handler \ {k} :
        handler[h].op = "reserve" /\ handler[h].step # "finally"
          => handler'[k].resv # handler[h].resv
  BY <1>7, SameId
<1> QED BY <1>4, <1>6, <1>8, <1>9, Quiet DEF Publish, tables

(* A step that leaves the handlers and their rows alone. *)
LEMMA Aside ==
  ASSUME Inv, TypeOK', UNCHANGED <<resv, tickets, rowLock, handler>>,
         \A t \in Type : types'[t].available = types[t].available
  PROVE  Inv'
<1>1. ASSUME NEW h \in Handler PROVE HandlerInv(h)'
  <2>1. HandlerInv(h)
    BY DEF Inv
  <2>2. Shape(h)' /\ Fresh(h)' /\ OwnsReservation(h)'
    BY <2>1 DEF HandlerInv, Shape, Fresh, OwnsReservation
  <2>3. ASSUME handler[h].step \in Working, NEW i \in 1..handler[h].done
        PROVE  types'[handler[h].cart[i].type].available = types[handler[h].cart[i].type].available
    <3>1. handler[h].cart \in Cart /\ handler[h].done \in 0..Len(handler[h].cart)
      BY <2>1, <2>3 DEF HandlerInv, Shape
    <3>2. handler[h].cart[i].type \in Type
      BY <3>1, ItemOfCart
    <3> QED BY <3>2
  <2>4. OwnsTypes(h)'
    BY <2>1, <2>3 DEF HandlerInv, OwnsTypes
  <2> QED BY <2>2, <2>4 DEF HandlerInv
<1>2. \A r \in Reservation : RowInv(r)'
  BY DEF Inv, RowInv
<1>3. TicketsMatchReservation'
  BY DEF Inv, TicketsMatchReservation
<1> QED BY <1>1, <1>2, <1>3 DEF Inv

(* The counters of a row that was updated. *)
LEMMA MovedCounters ==
  ASSUME NEW x \in Counters, NEW a \in Int, NEW s \in Nat, NEW v \in Int,
         x.available + a \in Nat
  PROVE  /\ Moved(x, a, s, v) \in Counters
         /\ Moved(x, a, s, v).available = x.available + a
         /\ Moved(x, a, s, v).sold = x.sold + s
BY DEF Moved, Counters

(* The seats a transaction takes are of the types it has locked. *)
LEMMA NeedsAreLocked ==
  ASSUME Inv, NEW k \in Handler, handler[k].step \in Working, NEW t \in Type
  PROVE  LET need == Needs(handler[k].cart, handler[k].done) IN
         /\ need \in [Type -> Nat]
         /\ rowLock[t] # k => need[t] = 0
         /\ handler[k].op = "reserve" => need[t] <= types[t].available
<1> DEFINE c == handler[k].cart
           n == handler[k].done
           need == Needs(c, n)
<1>1. TypeOK /\ HandlerInv(k)
  BY DEF Inv
<1>2. c \in Cart /\ n \in 0..Len(c)
  BY <1>1 DEF HandlerInv, Shape
<1>3. /\ need \in [Type -> Nat]
      /\ \/ need[t] = 0
         \/ \E i \in 1..n : c[i].type = t /\ need[t] = c[i].quantity
  BY <1>2, NeedsOfCart
<1>4. /\ rowLock[t] # k => need[t] = 0
      /\ handler[k].op = "reserve" => need[t] <= types[t].available
  <2> HIDE DEF need
  <2>1. CASE need[t] = 0
    BY <1>1, <2>1 DEF TypeOK, Counters
  <2>2. CASE \E i \in 1..n : c[i].type = t /\ need[t] = c[i].quantity
    BY <1>1, <2>2 DEF HandlerInv, OwnsTypes
  <2> QED BY <1>3, <2>1, <2>2
<1> QED BY <1>3, <1>4

(* What a COMMIT finds: the whole cart taken, and for a confirmation or a  *)
(* release the reservation still as it was read.                           *)
LEMMA AtCommit ==
  ASSUME Inv, NEW k \in Handler, handler[k].step = "commit"
  PROVE  /\ handler[k].resv \in Reservation /\ handler[k].cart \in Cart
         /\ handler[k].done = Len(handler[k].cart)
         /\ handler[k].op = "reserve" =>
              resv[handler[k].resv].status = "absent"
         /\ handler[k].op # "reserve" =>
              resv[handler[k].resv] = [status |-> "pending", cart |-> handler[k].cart]
BY DEF Inv, HandlerInv, Shape, Fresh, OwnsReservation, Working

LEMMA CommitInv == ASSUME Inv, NEW k \in Handler, Commit(k) PROVE Inv'
<1> DEFINE r == handler[k].resv
           c == handler[k].cart
           need == Needs(c, handler[k].done)
<1>1. TypeOK /\ HandlerInv(k) /\ handler[k].step = "commit"
  BY DEF Inv, Commit, At
<1>2. /\ r \in Reservation /\ c \in Cart
      /\ handler[k].op = "reserve" => resv[r].status = "absent"
      /\ handler[k].op # "reserve" => resv[r] = [status |-> "pending", cart |-> c]
  BY <1>1, AtCommit
<1>3. need = Needs(c, Len(c))
  BY <1>1, AtCommit
<1>4. /\ need \in [Type -> Nat]
      /\ \A t \in Type : rowLock[t] # k => need[t] = 0
      /\ handler[k].op = "reserve" => \A t \in Type : need[t] <= types[t].available
  <2>1. need \in [Type -> Nat]
    <3>1. handler[k].done \in 0..Len(c)
      BY <1>1, <1>2, AtCommit, CartLength
    <3> QED BY <1>2, <3>1, NeedsOfCart
  <2> QED BY <1>1, <2>1, NeedsAreLocked DEF Working
<1>5. \/ handler[k].op = "reserve" /\ Reserve(r, c, need)
      \/ handler[k].op = "confirm" /\ Confirm(r, need)
      \/ handler[k].op = "release" /\ Release(r, need)
  BY DEF Commit
<1>6. /\ rowLock' = [x \in Row |-> IF rowLock[x] = k THEN None ELSE rowLock[x]]
      /\ handler' = [handler EXCEPT ![k].step = "finally"]
      /\ UNCHANGED <<queued, due, key, requests>>
  BY DEF Commit, ReleaseRows, Goto
<1> HIDE DEF need
<1>7. /\ types' \in [Type -> Counters]
      /\ \A t \in Type : rowLock[t] # k => types'[t].available = types[t].available
  <2>0. \A t \in Type : types[t] \in Counters /\ need[t] \in Nat
    BY <1>1, <1>4 DEF TypeOK
  <2>1. CASE handler[k].op = "reserve" /\ Reserve(r, c, need)
    <3>1. types' = [t \in Type |-> Moved(types[t], (-need[t]), 0, 0)]
      BY <2>1 DEF Reserve
    <3>2. ASSUME NEW t \in Type
          PROVE  /\ types'[t] \in Counters
                 /\ need[t] = 0 => types'[t].available = types[t].available
      <4>1. types'[t] = Moved(types[t], (-need[t]), 0, 0)
        BY <3>1
      <4>2. types[t].available \in Nat /\ need[t] \in Nat
        BY <2>0 DEF Counters
      <4>3. types[t].available + (-need[t]) \in Nat /\ (-need[t]) \in Int /\ 0 \in Int
        BY <4>2, <1>4, <2>1
      <4>4. /\ types'[t] \in Counters
            /\ types'[t].available = types[t].available + (-need[t])
        BY <2>0, <4>1, <4>2, <4>3, MovedCounters
      <4> QED BY <4>2, <4>4
    <3> QED BY <1>4, <3>1, <3>2
  <2>2. CASE handler[k].op = "confirm" /\ Confirm(r, need)
    <3>1. types' = [t \in Type |-> Moved(types[t], 0, need[t], (-need[t]))]
      BY <2>2 DEF Confirm
    <3>2. ASSUME NEW t \in Type
          PROVE  /\ types'[t] \in Counters
                 /\ need[t] = 0 => types'[t].available = types[t].available
      <4>1. types'[t] = Moved(types[t], 0, need[t], (-need[t]))
        BY <3>1
      <4>2. types[t].available \in Nat /\ need[t] \in Nat
        BY <2>0 DEF Counters
      <4>3. types[t].available + 0 \in Nat /\ 0 \in Int /\ (-need[t]) \in Int
        BY <4>2
      <4>4. /\ types'[t] \in Counters
            /\ types'[t].available = types[t].available + 0
        BY <2>0, <4>1, <4>2, <4>3, MovedCounters
      <4> QED BY <4>2, <4>4
    <3> QED BY <1>4, <2>0, <3>1, <3>2
  <2>3. CASE handler[k].op = "release" /\ Release(r, need)
    <3>1. types' = [t \in Type |-> Moved(types[t], need[t], 0, 0)]
      BY <2>3 DEF Release
    <3>2. ASSUME NEW t \in Type
          PROVE  /\ types'[t] \in Counters
                 /\ need[t] = 0 => types'[t].available = types[t].available
      <4>1. types'[t] = Moved(types[t], need[t], 0, 0)
        BY <3>1
      <4>2. types[t].available \in Nat /\ need[t] \in Nat
        BY <2>0 DEF Counters
      <4>3. types[t].available + need[t] \in Nat /\ need[t] \in Int /\ 0 \in Int
        BY <4>2
      <4>4. /\ types'[t] \in Counters
            /\ types'[t].available = types[t].available + need[t]
        BY <2>0, <4>1, <4>2, <4>3, MovedCounters
      <4> QED BY <4>2, <4>4
    <3> QED BY <1>4, <3>1, <3>2
  <2> QED BY <1>5, <2>1, <2>2, <2>3
<1>8. /\ \A q \in Reservation \ {r} : resv'[q] = resv[q] /\ tickets'[q] = tickets[q]
      /\ resv'[r].cart = c /\ resv'[r].status \in Status \ {"absent"}
      /\ tickets'[r] = IF resv'[r].status = "confirmed" THEN need ELSE NoSeats
      /\ resv' \in [Reservation -> [status : Status, cart : Cart \cup {<<>>}]]
      /\ tickets' \in [Reservation -> [Type -> Nat]]
  <2>1. tickets[r] = NoSeats /\ NoSeats \in [Type -> Nat]
    <3>1. resv[r].status # "confirmed"
      BY <1>2, <1>5
    <3> QED BY <1>2, <3>1 DEF Inv, TicketsMatchReservation, NoSeats
  <2>2. CASE handler[k].op = "reserve" /\ Reserve(r, c, need)
    BY <1>1, <1>2, <2>1, <2>2 DEF Reserve, TypeOK, Status
  <2>3. CASE handler[k].op = "confirm" /\ Confirm(r, need)
    <3>0. resv' = [resv EXCEPT ![r].status = "confirmed"]
      BY <2>3 DEF Confirm
    <3>1. resv'[r] = [status |-> "confirmed", cart |-> c]
      <4>1. resv'[r] = [resv[r] EXCEPT !.status = "confirmed"]
        BY <1>1, <1>2, <3>0 DEF TypeOK
      <4>2. resv[r] = [status |-> "pending", cart |-> c]
        BY <1>2, <2>3
      <4> QED BY <4>1, <4>2
    <3>2. [t \in Type |-> tickets[r][t] + need[t]] = need
      BY <1>4, <2>1 DEF NoSeats
    <3>3. tickets' = [tickets EXCEPT ![r] = need]
      BY <2>3, <3>2 DEF Confirm
    <3> QED BY <1>1, <1>2, <1>4, <2>1, <3>0, <3>1, <3>3 DEF TypeOK, Status
  <2>4. CASE handler[k].op = "release" /\ Release(r, need)
    <3>0. resv' = [resv EXCEPT ![r].status = "cancelled"] /\ UNCHANGED tickets
      BY <2>4 DEF Release
    <3>1. resv'[r] = [status |-> "cancelled", cart |-> c]
      <4>1. resv'[r] = [resv[r] EXCEPT !.status = "cancelled"]
        BY <1>1, <1>2, <3>0 DEF TypeOK
      <4>2. resv[r] = [status |-> "pending", cart |-> c]
        BY <1>2, <2>4
      <4> QED BY <4>1, <4>2
    <3> QED BY <1>1, <1>2, <2>1, <3>0, <3>1 DEF TypeOK, Status
  <2> QED BY <1>5, <2>2, <2>3, <2>4
<1>9. TypeOK'
  <2>1. rowLock' \in [Row -> Handler \cup {None}]
    BY <1>1, <1>6 DEF TypeOK
  <2> QED BY <1>1, <1>6, <1>7, <1>8, <2>1, StepTyped DEF TypeOK
<1>10. handler'[k] = [handler[k] EXCEPT !.step = "finally"]
       /\ \A g \in Handler \ {k} : handler'[g] = handler[g]
  BY <1>1, <1>6 DEF TypeOK
<1>11. handler'[k].step = "finally" /\ handler'[k].resv = r
       /\ handler'[k].cart = c /\ handler'[k].op = handler[k].op
       /\ handler'[k].done = handler[k].done
  BY <1>1, <1>10 DEF TypeOK, Progress
<1>12. HandlerInv(k)'
  BY <1>1, <1>11 DEF HandlerInv, Shape, Fresh, OwnsReservation, OwnsTypes, Working
<1>13. ASSUME NEW h \in Handler \ {k} PROVE HandlerInv(h)'
  <2>1. \A x \in Row : rowLock[x] = h => rowLock'[x] = h
    BY <1>6
  <2>2. \A t \in Type : rowLock[t] = h => types'[t].available = types[t].available
    BY <1>7
  <2>3. handler[h].op = "reserve" /\ handler[h].step # "finally" => r # handler[h].resv
    BY <1>13, SameId
  <2>4. rowLock[r] # h \/ handler[k].op = "reserve"
    BY <1>1 DEF HandlerInv, OwnsReservation, Working
  <2>5. handler[k].op = "reserve" => handler[h].resv # r
    BY <1>1 DEF HandlerInv, Fresh
  <2>6. \A q \in Reservation :
          q = handler[h].resv /\ (rowLock[q] = h \/ handler[h].op = "reserve")
            => resv'[q] = resv[q] \/ handler[h].step = "finally"
    BY <1>8, <2>3, <2>4, <2>5
  <2> QED BY <1>10, <1>11, <2>1, <2>2, <2>3, <2>6, Bystander
<1>14. \A q \in Reservation : RowInv(q)'
  BY <1>2, <1>8 DEF Inv, RowInv
<1>15. TicketsMatchReservation'
  BY <1>3, <1>8 DEF Inv, TicketsMatchReservation
<1> QED BY <1>9, <1>12, <1>13, <1>14, <1>15 DEF Inv

LEMMA NextInv == Inv /\ [Next]_vars => Inv'
<1> SUFFICES ASSUME Inv, [Next]_vars PROVE Inv'
  OBVIOUS
<1>0. TypeOK
  BY DEF Inv
<1>1. ASSUME NEW k \in Handler, Handle(k) PROVE Inv'
  <2>1. CASE Receive(k)
    BY <2>1, ReceiveInv
  <2>2. CASE Enter(k)
    BY <2>2, EnterInv
  <2>3. CASE ReadReservation(k)
    BY <2>3, ReadInv
  <2>4. CASE TakeItem(k)
    BY <2>4, TakeInv
  <2>5. CASE Publish(k)
    BY <2>5, PublishInv
  <2>6. CASE Commit(k)
    BY <2>6, CommitInv
  <2>7. CASE SqlError(k) \/ LockTimeout(k)
    BY <2>7, AbortInv DEF SqlError, LockTimeout, Transaction
  <2>8. Idle \in Progress
    BY DEF Idle, Progress
  <2>9. CASE Refused(k)
    <3>1. TypeOK'
      BY <1>0, <2>8, <2>9 DEF TypeOK, Refused, tables
    <3> QED BY <2>9, <3>1, EndInv DEF Refused, tables
  <2>10. CASE Finally(k)
    <3>1. key' \in [Row -> Handler \cup {None}]
      BY <1>0, <2>10 DEF TypeOK, Finally
    <3>2. TypeOK'
      BY <1>0, <2>8, <2>10, <3>1 DEF TypeOK, Finally, tables
    <3> QED BY <2>10, <3>2, EndInv DEF Finally, tables
  <2>11. CASE Crash(k)
    <3>1. rowLock' \in [Row -> Handler \cup {None}]
      BY <1>0, <2>11 DEF TypeOK, Crash, ReleaseRows
    <3>2. TypeOK'
      BY <1>0, <2>8, <2>11, <3>1 DEF TypeOK, Crash, tables
    <3> QED BY <2>11, <3>2, EndInv DEF Crash, tables
  <2> QED BY <1>1, <2>1, <2>2, <2>3, <2>4, <2>5, <2>6, <2>7, <2>9, <2>10, <2>11 DEF Handle
<1>2. CASE \E x \in Row : KeyRunsOut(x)
  <2>1. TypeOK'
    BY <1>0, <1>2 DEF TypeOK, KeyRunsOut, tables
  <2> QED BY <1>2, <2>1, Aside DEF KeyRunsOut, tables
<1>3. CASE \E t \in Type, q \in Quantity : UpdateTicketType(t, q)
  <2> PICK t \in Type, q \in Quantity : UpdateTicketType(t, q)
    BY <1>3
  <2>1. /\ types' \in [Type -> Counters]
        /\ \A u \in Type : types'[u].available = types[u].available
    <3>1. types' = [types EXCEPT ![t].quantity = q] /\ types \in [Type -> Counters] /\ q \in Nat
      BY <1>0, InventoryAssumption DEF TypeOK, UpdateTicketType
    <3>2. [types[t] EXCEPT !.quantity = q] \in Counters
          /\ [types[t] EXCEPT !.quantity = q].available = types[t].available
      BY <3>1 DEF Counters
    <3> QED BY <3>1, <3>2
  <2>2. TypeOK'
    BY <1>0, <2>1 DEF TypeOK, UpdateTicketType
  <2> QED BY <2>1, <2>2, Aside DEF UpdateTicketType
<1>4. CASE \E r \in Reservation : Expire(r)
  <2>1. TypeOK'
    BY <1>0, <1>4 DEF TypeOK, Expire, tables
  <2> QED BY <1>4, <2>1, Aside DEF Expire, tables
<1>5. CASE RunWorker \/ UNCHANGED vars
  <2>1. TypeOK'
    BY <1>0, <1>5 DEF TypeOK, RunWorker, vars
  <2> QED BY <1>5, <2>1, Aside DEF RunWorker, vars
<1> QED BY <1>1, <1>2, <1>3, <1>4, <1>5 DEF Next

------------------------------------------------------------------------------
(* The invariant holds in every state of every behaviour. *)
LEMMA InvAlways == Spec => []Inv
BY InitInv, NextInv, PTL DEF Spec

(* Every variable keeps its type; no type of ticket ever has a negative    *)
(* number of seats left, however many transactions of createReservation,   *)
(* confirmPurchase and releaseReservation overlap, fail or die.            *)
THEOREM InventoryTypes == Spec => []TypeOK
<1>1. Inv => TypeOK
  BY DEF Inv
<1> QED BY <1>1, InvAlways, PTL

(* A reservation has the tickets of its whole cart exactly when it is      *)
(* confirmed: confirmPurchase issues them once, whatever else runs on the  *)
(* reservation meanwhile and even if its Redis lock ran out.               *)
THEOREM TicketsIssued == Spec => []TicketsMatchReservation
<1>1. Inv => TicketsMatchReservation
  BY DEF Inv
<1> QED BY <1>1, InvAlways, PTL

------------------------------------------------------------------------------
(* No step but a COMMIT and the publication before it touches what is      *)
(* known of a reservation.                                                 *)
LEMMA OnlyCommits ==
  ASSUME [Next]_vars, \A k \in Handler : ~ Commit(k)
  PROVE  /\ UNCHANGED <<resv, tickets>>
         /\ \A t \in Type : TypeOK => /\ types'[t].available = types[t].available
                                    /\ types'[t].sold = types[t].sold
<1>1. ASSUME NEW k \in Handler, Handle(k) PROVE UNCHANGED <<types, resv, tickets>>
  BY <1>1 DEF Handle, Receive, Enter, Refused, ReadReservation, TakeItem, Publish,
              SqlError, LockTimeout, Finally, Crash, Abort, tables
<1>2. ASSUME NEW u \in Type, NEW q \in Quantity, UpdateTicketType(u, q)
      PROVE  /\ UNCHANGED <<resv, tickets>>
             /\ \A t \in Type : TypeOK => /\ types'[t].available = types[t].available
                                        /\ types'[t].sold = types[t].sold
  BY <1>2 DEF UpdateTicketType, TypeOK, Counters
<1>3. CASE (\E x \in Row : KeyRunsOut(x)) \/ (\E r \in Reservation : Expire(r))
             \/ RunWorker \/ UNCHANGED vars
  BY <1>3 DEF KeyRunsOut, Expire, RunWorker, tables, vars
<1> QED BY <1>1, <1>2, <1>3 DEF Next

(* Once confirmed or cancelled, a reservation and its tickets are left     *)
(* alone, and no mint job is published for it: a second confirmation or    *)
(* release finds the row locked or ended.                                  *)
THEOREM EndedForGood == Spec => EndedStaysEnded
<1> DEFINE Kept == \A r \in Reservation : resv[r].status \in {"confirmed", "cancelled"} =>
                     /\ resv'[r] = resv[r]
                     /\ tickets'[r] = tickets[r]
                     /\ queued'[r] = queued[r]
<1>1. Inv /\ [Next]_vars => [Kept]_vars
  <2> SUFFICES ASSUME Inv, [Next]_vars, NEW r \in Reservation,
                      resv[r].status \in {"confirmed", "cancelled"}
               PROVE  resv'[r] = resv[r] /\ tickets'[r] = tickets[r] /\ queued'[r] = queued[r]
    OBVIOUS
  <2>1. resv'[r] = resv[r] /\ tickets'[r] = tickets[r]
    <3>1. ASSUME NEW k \in Handler, Commit(k) PROVE resv'[r] = resv[r] /\ tickets'[r] = tickets[r]
      <4>0. handler[k].step = "commit"
        BY <3>1 DEF Commit, At
      <4>1. handler[k].resv # r /\ handler[k].resv \in Reservation
        <5>1. /\ handler[k].resv \in Reservation
              /\ resv[handler[k].resv].status \in {"absent", "pending"}
          <6>1. CASE handler[k].op = "reserve"
            BY <4>0, <6>1, AtCommit
          <6>2. CASE handler[k].op # "reserve"
            <7>1. resv[handler[k].resv] = [status |-> "pending", cart |-> handler[k].cart]
              BY <4>0, <6>2, AtCommit
            <7> QED BY <4>0, <7>1, AtCommit
          <6> QED BY <6>1, <6>2
        <5>2. resv[r].status \notin {"absent", "pending"}
          OBVIOUS
        <5> QED BY <5>1, <5>2
      <4>2. resv \in [Reservation -> [status : Status, cart : Cart \cup {<<>>}]]
            /\ tickets \in [Reservation -> [Type -> Nat]]
        BY DEF Inv, TypeOK
      <4> QED BY <3>1, <4>1, <4>2 DEF Commit, Reserve, Confirm, Release
    <3> QED BY <3>1, OnlyCommits
  <2>2. queued'[r] = queued[r]
    <3>1. ASSUME NEW k \in Handler, Publish(k) PROVE queued'[r] = queued[r]
      <4>1. handler[k].resv # r
        <5>1. HandlerInv(k) /\ handler[k].step = "publish"
          BY <3>1 DEF Inv, Publish, At
        <5>2. handler[k].op # "reserve" /\ handler[k].step \in Working
          BY <5>1 DEF HandlerInv, Shape, Working
        <5>3. resv[handler[k].resv].status = "pending"
          BY <5>1, <5>2 DEF HandlerInv, OwnsReservation
        <5> QED BY <5>3
      <4>2. queued \in [Reservation -> Nat]
        BY DEF Inv, TypeOK
      <4> QED BY <3>1, <4>1, <4>2 DEF Publish
    <3>2. ASSUME NEW k \in Handler, Handle(k), ~ Publish(k) PROVE queued' = queued
      BY <3>2 DEF Handle, Receive, Enter, Refused, ReadReservation, TakeItem, Commit,
                  SqlError, LockTimeout, Finally, Crash, Abort
    <3> QED BY <3>1, <3>2 DEF Next, KeyRunsOut, UpdateTicketType, Expire, RunWorker, vars
  <2> QED BY <2>1, <2>2
<1> QED BY <1>1, InvAlways, PTL DEF Spec, EndedStaysEnded

------------------------------------------------------------------------------
(* Where the seats are.  A transaction moves the seats of one reservation, *)
(* all of them or none, so that the sets of seats held and issued change   *)
(* by a block of known size; that they are finite is part of the           *)
(* invariant, because nothing bounds the number of reservations.           *)
HeldOf(t) == [r \in Reservation |->
                IF resv[r].status = "pending"
                  THEN Needs(resv[r].cart, Len(resv[r].cart))[t]
                  ELSE 0]
IssuedOf(t) == [r \in Reservation |-> tickets[r][t]]

SeatsInv == /\ SeatsAccounted
            /\ \A t \in Type : IsFiniteSet(HeldSeats(t)) /\ IsFiniteSet(IssuedSeats(t))

(* n seats of one reservation are n seats. *)
LEMMA BlockOfSeats ==
  ASSUME NEW r, NEW n \in Nat
  PROVE  IsFiniteSet({r} \X (1..n)) /\ Cardinality({r} \X (1..n)) = n
<1>1. IsFiniteSet({r}) /\ Cardinality({r}) = 1
  BY FS_Singleton
<1>2. IsFiniteSet(1..n) /\ Cardinality(1..n) = n
  BY FS_Interval
<1>3. IsFiniteSet({r} \X (1..n)) /\ Cardinality({r} \X (1..n)) = Cardinality({r}) * Cardinality(1..n)
  BY <1>1, <1>2, FS_Product
<1> QED BY <1>1, <1>2, <1>3

(* m gives the reservation r its seats, which had none in n. *)
Adds(n, m, r) == n[r] = 0 /\ \A q \in Reservation \ {r} : m[q] = n[q]

(* Seats given to a reservation that had none come on top of the others. *)
LEMMA SeatsAdded ==
  ASSUME NEW n \in [Reservation -> Nat], NEW m \in [Reservation -> Nat],
         NEW r \in Reservation, Adds(n, m, r),
         IsFiniteSet(Seated(n)) \/ IsFiniteSet(Seated(m))
  PROVE  /\ IsFiniteSet(Seated(n)) /\ IsFiniteSet(Seated(m))
         /\ Cardinality(Seated(n)) \in Nat
         /\ Cardinality(Seated(m)) = Cardinality(Seated(n)) + m[r]
<1> DEFINE block == {r} \X (1..m[r])
<1>1. Seated(m) = Seated(n) \cup block
  <2>1. ASSUME NEW x \in Seated(m) PROVE x \in Seated(n) \cup block
    <3> PICK q \in Reservation : x \in {q} \X (1..m[q])
      BY <2>1 DEF Seated
    <3>1. CASE q = r
      BY <3>1
    <3>2. CASE q # r
      <4>1. x \in {q} \X (1..n[q])
        BY <3>2 DEF Adds
      <4> QED BY <4>1 DEF Seated
    <3> QED BY <3>1, <3>2
  <2>2. ASSUME NEW x \in Seated(n) PROVE x \in Seated(m)
    <3> PICK q \in Reservation : x \in {q} \X (1..n[q])
      BY <2>2 DEF Seated
    <3>1. q # r
      BY DEF Adds
    <3>2. x \in {q} \X (1..m[q])
      BY <3>1 DEF Adds
    <3> QED BY <3>2 DEF Seated
  <2>3. block \subseteq Seated(m)
    BY DEF Seated
  <2> QED BY <2>1, <2>2, <2>3
<1>2. Seated(n) \cap block = {}
  <2> SUFFICES ASSUME NEW x \in Seated(n), x \in block PROVE FALSE
    OBVIOUS
  <2> PICK q \in Reservation : x \in {q} \X (1..n[q])
    BY DEF Seated
  <2>1. q = r
    OBVIOUS
  <2> QED BY <2>1 DEF Adds
<1>3. IsFiniteSet(block) /\ Cardinality(block) = m[r]
  BY BlockOfSeats
<1>4. IsFiniteSet(Seated(n))
  <2>1. Seated(n) \in SUBSET Seated(m)
    BY <1>1
  <2> QED BY <2>1, FS_Subset
<1> HIDE DEF block
<1>5. /\ IsFiniteSet(Seated(m))
      /\ Cardinality(Seated(m)) = Cardinality(Seated(n)) + Cardinality(block)
                                    - Cardinality(Seated(n) \cap block)
  BY <1>1, <1>3, <1>4, FS_Union
<1>6. Cardinality(Seated(n) \cap block) = 0
  BY <1>2, FS_EmptySet
<1>7. Cardinality(Seated(n)) \in Nat
  BY <1>4, FS_CardinalityType
<1> QED BY <1>3, <1>4, <1>5, <1>6, <1>7

(* A table that gives no seat to anyone. *)
LEMMA NoneSeated ==
  ASSUME NEW n \in [Reservation -> Nat], \A r \in Reservation : n[r] = 0
  PROVE  IsFiniteSet(Seated(n)) /\ Cardinality(Seated(n)) = 0
<1>1. Seated(n) = {}
  BY DEF Seated
<1> QED BY <1>1, FS_EmptySet

(* The seats of a reservation are counted in natural numbers. *)
SeatsCounted ==
  \A t \in Type :
    /\ HeldOf(t) \in [Reservation -> Nat] /\ HeldSeats(t) = Seated(HeldOf(t))
    /\ IssuedOf(t) \in [Reservation -> Nat] /\ IssuedSeats(t) = Seated(IssuedOf(t))

LEMMA CountsOfTables == Inv => SeatsCounted
<1> SUFFICES ASSUME Inv, NEW t \in Type
             PROVE  HeldOf(t) \in [Reservation -> Nat] /\ IssuedOf(t) \in [Reservation -> Nat]
  BY DEF SeatsCounted, HeldSeats, HeldOf, IssuedSeats, IssuedOf
<1>1. ASSUME NEW r \in Reservation, resv[r].status = "pending"
      PROVE  Needs(resv[r].cart, Len(resv[r].cart))[t] \in Nat
  <2>1. resv[r].cart \in Cart
    BY <1>1 DEF Inv, RowInv
  <2>2. Len(resv[r].cart) \in 0..Len(resv[r].cart)
    BY <2>1, CartLength
  <2>3. Needs(resv[r].cart, Len(resv[r].cart)) \in [Type -> Nat]
    BY <2>1, <2>2, NeedsOfCart
  <2> QED BY <2>3
<1>2. HeldOf(t) \in [Reservation -> Nat]
  BY <1>1 DEF HeldOf
<1>3. IssuedOf(t) \in [Reservation -> Nat]
  BY DEF Inv, TypeOK, IssuedOf
<1> QED BY <1>2, <1>3

LEMMA InitSeats == ASSUME Init PROVE SeatsInv
<1> SUFFICES ASSUME NEW t \in Type
             PROVE  /\ IsFiniteSet(HeldSeats(t)) /\ IsFiniteSet(IssuedSeats(t))
                    /\ types[t].available + Cardinality(HeldSeats(t)) + types[t].sold = Seats[t]
                    /\ types[t].sold = Cardinality(IssuedSeats(t))
  BY DEF SeatsInv, SeatsAccounted
<1>1. Inv
  BY InitInv
<1>2. \A r \in Reservation : HeldOf(t)[r] = 0 /\ IssuedOf(t)[r] = 0
  BY DEF Init, HeldOf, IssuedOf, NoSeats
<1>3. /\ IsFiniteSet(HeldSeats(t)) /\ Cardinality(HeldSeats(t)) = 0
      /\ IsFiniteSet(IssuedSeats(t)) /\ Cardinality(IssuedSeats(t)) = 0
  BY <1>1, <1>2, CountsOfTables, NoneSeated DEF SeatsCounted
<1>4. types[t].available = Seats[t] /\ types[t].sold = 0 /\ Seats[t] \in Nat
  BY InventoryAssumption DEF Init
<1> QED BY <1>3, <1>4

(* A COMMIT moves the seats of its reservation and nobody else's. *)
LEMMA CommitSeats ==
  ASSUME Inv, SeatsInv, NEW k \in Handler, Commit(k)
  PROVE  SeatsInv'
<1> SUFFICES ASSUME NEW t \in Type
             PROVE  /\ IsFiniteSet(HeldSeats(t)') /\ IsFiniteSet(IssuedSeats(t)')
                    /\ types'[t].available + Cardinality(HeldSeats(t)') + types'[t].sold = Seats[t]
                    /\ types'[t].sold = Cardinality(IssuedSeats(t)')
  BY DEF SeatsInv, SeatsAccounted
<1>1. handler[k].step = "commit" /\ TypeOK /\ TypeOK' /\ Inv'
  BY CommitInv DEF Inv, Commit, At
<1> PICK r \in Reservation, c \in Cart : r = handler[k].resv /\ c = handler[k].cart
  BY <1>1, AtCommit
<1> PICK b : b = Needs(c, Len(c))
  OBVIOUS
<1>2. /\ handler[k].done = Len(c)
      /\ handler[k].op = "reserve" => resv[r].status = "absent"
      /\ handler[k].op # "reserve" => resv[r] = [status |-> "pending", cart |-> c]
  BY <1>1, AtCommit
<1>3. b \in [Type -> Nat]
  <2>1. Len(c) \in 0..Len(c)
    BY CartLength
  <2> QED BY <2>1, NeedsOfCart
<1>4. \/ handler[k].op = "reserve" /\ Reserve(r, c, b)
      \/ handler[k].op = "confirm" /\ Confirm(r, b)
      \/ handler[k].op = "release" /\ Release(r, b)
  BY <1>2 DEF Commit
<1> PICK held, heldNext, issued, issuedNext :
           /\ held = HeldOf(t) /\ heldNext = HeldOf(t)'
           /\ issued = IssuedOf(t) /\ issuedNext = IssuedOf(t)'
  OBVIOUS
<1>5. /\ held \in [Reservation -> Nat] /\ heldNext \in [Reservation -> Nat]
      /\ issued \in [Reservation -> Nat] /\ issuedNext \in [Reservation -> Nat]
      /\ HeldSeats(t) = Seated(held) /\ HeldSeats(t)' = Seated(heldNext)
      /\ IssuedSeats(t) = Seated(issued) /\ IssuedSeats(t)' = Seated(issuedNext)
  <2>1. SeatsCounted
    BY CountsOfTables
  <2>2. SeatsCounted'
    BY <1>1, CountsOfTables, PTL
  <2> QED BY <2>1, <2>2 DEF SeatsCounted, Seated
<1>6. /\ types[t].available \in Nat /\ types[t].sold \in Nat /\ b[t] \in Nat
      /\ Seats[t] \in Nat
  BY <1>1, <1>3, InventoryAssumption DEF TypeOK, Counters
<1>7. /\ IsFiniteSet(Seated(held)) /\ IsFiniteSet(Seated(issued))
      /\ types[t].available + Cardinality(Seated(held)) + types[t].sold = Seats[t]
      /\ types[t].sold = Cardinality(Seated(issued))
  BY <1>5 DEF SeatsInv, SeatsAccounted
<1>8. resv \in [Reservation -> [status : Status, cart : Cart \cup {<<>>}]]
      /\ tickets \in [Reservation -> [Type -> Nat]]
  BY <1>1 DEF TypeOK
<1>9. CASE handler[k].op = "reserve" /\ Reserve(r, c, b)
  <2>1. /\ resv'[r] = [status |-> "pending", cart |-> c] /\ resv[r].status = "absent"
        /\ \A q \in Reservation \ {r} : resv'[q] = resv[q]
    BY <1>2, <1>8, <1>9 DEF Reserve
  <2>2. Adds(held, heldNext, r) /\ heldNext[r] = b[t]
    BY <2>1 DEF HeldOf, Adds
  <2>3. issuedNext = issued
    BY <1>9 DEF Reserve, IssuedOf
  <2>4. types'[t].available = types[t].available - b[t] /\ types'[t].sold = types[t].sold
    BY <1>6, <1>9 DEF Reserve, Moved
  <2>5. /\ IsFiniteSet(Seated(heldNext))
        /\ Cardinality(Seated(heldNext)) = Cardinality(Seated(held)) + b[t]
        /\ Cardinality(Seated(held)) \in Nat
    <3>1. Cardinality(Seated(heldNext)) = Cardinality(Seated(held)) + heldNext[r]
      BY <1>5, <1>7, <2>2, SeatsAdded
    <3> QED BY <1>5, <1>7, <2>2, <3>1, SeatsAdded
  <2> QED BY <1>5, <1>6, <1>7, <2>3, <2>4, <2>5
<1>10. CASE handler[k].op = "confirm" /\ Confirm(r, b)
  <2>1. /\ resv'[r].status = "confirmed" /\ resv[r] = [status |-> "pending", cart |-> c]
        /\ \A q \in Reservation \ {r} : resv'[q] = resv[q]
    BY <1>2, <1>8, <1>10 DEF Confirm
  <2>2. Adds(heldNext, held, r) /\ held[r] = b[t]
    BY <2>1 DEF HeldOf, Adds
  <2>3. tickets[r] = NoSeats
    BY <2>1 DEF Inv, TicketsMatchReservation
  <2>4. Adds(issued, issuedNext, r) /\ issuedNext[r] = b[t]
    BY <1>3, <1>6, <1>8, <1>10, <2>3 DEF Confirm, IssuedOf, NoSeats, Adds
  <2>5. types'[t].available = types[t].available /\ types'[t].sold = types[t].sold + b[t]
    BY <1>6, <1>10 DEF Confirm, Moved
  <2>6. /\ IsFiniteSet(Seated(heldNext))
        /\ Cardinality(Seated(held)) = Cardinality(Seated(heldNext)) + b[t]
        /\ Cardinality(Seated(heldNext)) \in Nat
    <3>1. Cardinality(Seated(held)) = Cardinality(Seated(heldNext)) + held[r]
      BY <1>5, <1>7, <2>2, SeatsAdded
    <3> QED BY <1>5, <1>7, <2>2, <3>1, SeatsAdded
  <2>7. /\ IsFiniteSet(Seated(issuedNext))
        /\ Cardinality(Seated(issuedNext)) = Cardinality(Seated(issued)) + b[t]
    <3>1. Cardinality(Seated(issuedNext)) = Cardinality(Seated(issued)) + issuedNext[r]
      BY <1>5, <1>7, <2>4, SeatsAdded
    <3> QED BY <1>5, <1>7, <2>4, <3>1, SeatsAdded
  <2> QED BY <1>5, <1>6, <1>7, <2>5, <2>6, <2>7
<1>11. CASE handler[k].op = "release" /\ Release(r, b)
  <2>1. /\ resv'[r].status = "cancelled" /\ resv[r] = [status |-> "pending", cart |-> c]
        /\ \A q \in Reservation \ {r} : resv'[q] = resv[q]
    BY <1>2, <1>8, <1>11 DEF Release
  <2>2. Adds(heldNext, held, r) /\ held[r] = b[t]
    BY <2>1 DEF HeldOf, Adds
  <2>3. issuedNext = issued
    BY <1>11 DEF Release, IssuedOf
  <2>4. types'[t].available = types[t].available + b[t] /\ types'[t].sold = types[t].sold
    BY <1>6, <1>11 DEF Release, Moved
  <2>5. /\ IsFiniteSet(Seated(heldNext))
        /\ Cardinality(Seated(held)) = Cardinality(Seated(heldNext)) + b[t]
        /\ Cardinality(Seated(heldNext)) \in Nat
    <3>1. Cardinality(Seated(held)) = Cardinality(Seated(heldNext)) + held[r]
      BY <1>5, <1>7, <2>2, SeatsAdded
    <3> QED BY <1>5, <1>7, <2>2, <3>1, SeatsAdded
  <2> QED BY <1>5, <1>6, <1>7, <2>3, <2>4, <2>5
<1> QED BY <1>4, <1>9, <1>10, <1>11

(* Every other step leaves each seat where it is. *)
LEMMA NextSeats == ASSUME Inv, SeatsInv, [Next]_vars PROVE SeatsInv'
<1>1. CASE \E k \in Handler : Commit(k)
  BY <1>1, CommitSeats
<1>2. CASE \A k \in Handler : ~ Commit(k)
  <2>1. /\ UNCHANGED <<resv, tickets>>
        /\ \A t \in Type : /\ types'[t].available = types[t].available
                           /\ types'[t].sold = types[t].sold
    BY <1>2, OnlyCommits DEF Inv
  <2>2. \A t \in Type : HeldSeats(t)' = HeldSeats(t) /\ IssuedSeats(t)' = IssuedSeats(t)
    BY <2>1 DEF HeldSeats, IssuedSeats, Seated
  <2> QED BY <2>1, <2>2 DEF SeatsInv, SeatsAccounted
<1> QED BY <1>1, <1>2

(* Every seat put on sale is available, held by one pending reservation or *)
(* sold to one ticket, however many reservations there are and however the *)
(* transactions of createReservation, confirmPurchase and                  *)
(* releaseReservation overlap, fail or die.                                *)
THEOREM SeatsAddUp == Spec => []SeatsAccounted
<1>1. SeatsInv => SeatsAccounted
  BY DEF SeatsInv
<1> QED BY <1>1, InitSeats, NextSeats, InvAlways, PTL DEF Spec

------------------------------------------------------------------------------
(* What SeatPool sees of the tables. *)
Free == [t \in Type |-> types[t].available]
State == [r \in Reservation |-> ClaimState(resv[r].status)]
Need == [r \in Reservation |-> Needs(resv[r].cart, Len(resv[r].cart))]
Sold == [t \in Type |-> types[t].sold]

LEMMA ClaimStates ==
  /\ ClaimState("absent") = "none" /\ ClaimState("pending") = "held"
  /\ ClaimState("confirmed") = "sold" /\ ClaimState("cancelled") = "returned"
BY DEF ClaimState

(* An UPDATE of the rows holds, sells or returns the basket of a claim. *)
LEMMA PoolMoves ==
  ASSUME TypeOK, NEW r \in Reservation, NEW c \in Cart, NEW b \in [Type -> Nat],
         b = Needs(c, Len(c))
  PROVE  /\ Reserve(r, c, b) /\ resv[r].status = "absent"
              /\ (\A t \in Type : b[t] <= types[t].available)
            => Pool!Hold(r, b)
         /\ Confirm(r, b) /\ resv[r] = [status |-> "pending", cart |-> c] => Pool!Sell(r)
         /\ Release(r, b) /\ resv[r] = [status |-> "pending", cart |-> c] => Pool!Return(r)
<1>1. resv \in [Reservation -> [status : Status, cart : Cart \cup {<<>>}]]
  BY DEF TypeOK
<1>2. \A t \in Type : types[t].available \in Nat /\ types[t].sold \in Nat /\ b[t] \in Nat
  BY DEF TypeOK, Counters
<1>3. ASSUME Reserve(r, c, b), resv[r].status = "absent",
             \A t \in Type : b[t] <= types[t].available
      PROVE  Pool!Hold(r, b)
  <2>1. resv' = [resv EXCEPT ![r] = [status |-> "pending", cart |-> c]]
    BY <1>3 DEF Reserve
  <2>2. /\ resv'[r] = [status |-> "pending", cart |-> c]
        /\ \A q \in Reservation \ {r} : resv'[q] = resv[q]
    BY <1>1, <2>1
  <2>3. State' = [State EXCEPT ![r] = "held"] /\ State[r] = "none"
    <3>1. ClaimState(resv'[r].status) = "held" /\ ClaimState(resv[r].status) = "none"
      BY <1>3, <2>2, ClaimStates
    <3>2. \A q \in Reservation : ClaimState(resv'[q].status) =
                                   IF q = r THEN "held" ELSE ClaimState(resv[q].status)
      BY <2>2, <3>1
    <3> QED BY <3>1, <3>2 DEF State
  <2>4. Need' = [Need EXCEPT ![r] = b]
    <3>1. \A q \in Reservation : Needs(resv'[q].cart, Len(resv'[q].cart)) =
                                   IF q = r THEN b ELSE Needs(resv[q].cart, Len(resv[q].cart))
      BY <2>2
    <3> QED BY <3>1 DEF Need
  <2>5. Free' = [t \in Type |-> Free[t] - b[t]] /\ Sold' = Sold
    BY <1>2, <1>3 DEF Reserve, Moved, Free, Sold
  <2>6. \A t \in Type : b[t] <= Free[t]
    BY <1>3 DEF Free
  <2> QED BY <2>3, <2>4, <2>5, <2>6 DEF Pool!Hold, Free, State, Need, Sold
<1>4. ASSUME Confirm(r, b), resv[r] = [status |-> "pending", cart |-> c]
      PROVE  Pool!Sell(r)
  <2>1. resv' = [resv EXCEPT ![r].status = "confirmed"]
    BY <1>4 DEF Confirm
  <2>2. resv'[r] = [status |-> "confirmed", cart |-> c]
    <3>1. resv'[r] = [resv[r] EXCEPT !.status = "confirmed"]
      BY <1>1, <2>1
    <3> QED BY <1>4, <3>1
  <2>3. \A q \in Reservation \ {r} : resv'[q] = resv[q]
    BY <1>1, <2>1
  <2>4. State' = [State EXCEPT ![r] = "sold"] /\ State[r] = "held"
    <3>1. ClaimState(resv'[r].status) = "sold" /\ ClaimState(resv[r].status) = "held"
      BY <1>4, <2>2, ClaimStates
    <3>2. \A q \in Reservation : ClaimState(resv'[q].status) =
                                   IF q = r THEN "sold" ELSE ClaimState(resv[q].status)
      BY <2>3, <3>1
    <3> QED BY <3>1, <3>2 DEF State
  <2>5. Need' = Need /\ Need[r] = b
    BY <1>4, <2>2, <2>3 DEF Need
  <2>6. Free' = Free /\ Sold' = [t \in Type |-> Sold[t] + Need[r][t]]
    BY <1>4, <1>2, <2>5 DEF Confirm, Moved, Free, Sold
  <2> QED BY <2>4, <2>5, <2>6 DEF Pool!Sell, Free, State, Need, Sold
<1>5. ASSUME Release(r, b), resv[r] = [status |-> "pending", cart |-> c]
      PROVE  Pool!Return(r)
  <2>1. resv' = [resv EXCEPT ![r].status = "cancelled"]
    BY <1>5 DEF Release
  <2>2. resv'[r] = [status |-> "cancelled", cart |-> c]
    <3>1. resv'[r] = [resv[r] EXCEPT !.status = "cancelled"]
      BY <1>1, <2>1
    <3> QED BY <1>5, <3>1
  <2>3. \A q \in Reservation \ {r} : resv'[q] = resv[q]
    BY <1>1, <2>1
  <2>4. State' = [State EXCEPT ![r] = "returned"] /\ State[r] = "held"
    <3>1. ClaimState(resv'[r].status) = "returned" /\ ClaimState(resv[r].status) = "held"
      BY <1>5, <2>2, ClaimStates
    <3>2. \A q \in Reservation : ClaimState(resv'[q].status) =
                                   IF q = r THEN "returned" ELSE ClaimState(resv[q].status)
      BY <2>3, <3>1
    <3> QED BY <3>1, <3>2 DEF State
  <2>5. Need' = Need /\ Need[r] = b
    BY <1>5, <2>2, <2>3 DEF Need
  <2>6. Free' = [t \in Type |-> Free[t] + Need[r][t]] /\ Sold' = Sold
    BY <1>5, <1>2, <2>5 DEF Release, Moved, Free, Sold
  <2> QED BY <2>4, <2>5, <2>6 DEF Pool!Return, Free, State, Need, Sold
<1> QED BY <1>3, <1>4, <1>5

(* So a COMMIT is a step of SeatPool. *)
LEMMA CommitMoves ==
  ASSUME Inv, NEW k \in Handler, Commit(k)
  PROVE  Pool!Next
<1>1. handler[k].step = "commit" /\ TypeOK
  BY DEF Inv, Commit, At
<1> PICK r \in Reservation, c \in Cart : r = handler[k].resv /\ c = handler[k].cart
  BY <1>1, AtCommit
<1> PICK b : b = Needs(c, Len(c))
  OBVIOUS
<1>2. /\ handler[k].done = Len(c)
      /\ handler[k].op = "reserve" => resv[r].status = "absent"
      /\ handler[k].op # "reserve" => resv[r] = [status |-> "pending", cart |-> c]
  BY <1>1, AtCommit
<1>3. b \in [Type -> Nat]
  <2>1. Len(c) \in 0..Len(c)
    BY CartLength
  <2> QED BY <2>1, NeedsOfCart
<1>4. ASSUME NEW t \in Type, handler[k].op = "reserve" PROVE b[t] <= types[t].available
  BY <1>1, <1>2, <1>4, NeedsAreLocked DEF Working
<1>5. \/ handler[k].op = "reserve" /\ Reserve(r, c, b)
      \/ handler[k].op = "confirm" /\ Confirm(r, b)
      \/ handler[k].op = "release" /\ Release(r, b)
  BY <1>2 DEF Commit
<1>6. Pool!Hold(r, b) \/ Pool!Sell(r) \/ Pool!Return(r)
  BY <1>1, <1>2, <1>3, <1>4, <1>5, PoolMoves
<1>7. b \in {Needs(d, Len(d)) : d \in Cart}
  OBVIOUS
<1> QED BY <1>6, <1>7 DEF Pool!Next

(* The transactions, statement by statement and interleaved, implement     *)
(* SeatPool: seats are held for a whole cart or not at all, only free      *)
(* ones, and a claim ends once.                                            *)
THEOREM PoolRefinement == Spec => ImplementsPool
<1>1. Init => Pool!Init
  <2> SUFFICES ASSUME Init PROVE Pool!Init
    OBVIOUS
  <2>1. Free = Seats /\ Sold = NoSeats
    BY InventoryAssumption DEF Init, Free, Sold, NoSeats
  <2>2. State = [r \in Reservation |-> "none"]
    BY DEF Init, State, ClaimState
  <2>3. Needs(<<>>, Len(<<>>)) = NoSeats
    BY DEF Needs, NoSeats
  <2>4. Need = [r \in Reservation |-> NoSeats]
    BY <2>3 DEF Init, Need
  <2> QED BY <2>1, <2>2, <2>4 DEF Pool!Init, Pool!NoSeats, NoSeats, Free, State, Need, Sold
<1>2. Inv /\ [Next]_vars => Pool!Next \/ UNCHANGED <<Free, State, Need, Sold>>
  <2> SUFFICES ASSUME Inv, [Next]_vars, \A k \in Handler : ~ Commit(k)
               PROVE  UNCHANGED <<Free, State, Need, Sold>>
    BY CommitMoves
  <2>1. TypeOK
    BY DEF Inv
  <2> QED BY <2>1, OnlyCommits DEF Free, State, Need, Sold
<1>3. Inv /\ [Next]_vars => [Pool!Next]_(Pool!vars)
  BY <1>2 DEF Pool!vars, Free, State, Need, Sold
<1> QED BY <1>1, <1>3, InvAlways, PTL DEF Spec, ImplementsPool, Pool!Spec
==============================================================================
