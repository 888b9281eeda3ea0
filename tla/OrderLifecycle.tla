---------------------------- MODULE OrderLifecycle ----------------------------
(***************************************************************************)
(* The life of an order in order-service: the six operations of            *)
(* order.service.ts that change an order, the job that expires reserved    *)
(* orders, and the two services they call.  Each operation runs step by    *)
(* step, one step per awaited call, so that requests, the job, lost        *)
(* replies, repeated and late calls, lock expiry and crashes interleave as *)
(* they can in the program.  No operation runs in a database transaction:  *)
(* every step that succeeded stays when a later one fails.                 *)
(***************************************************************************)
EXTENDS Integers, FiniteSets

CONSTANTS
  Order,         \* orders of the tenants
  Worker,        \* processes that run the expiration job
  MaxRequests,   \* bound: requests the clients send in a behaviour
  MaxConcurrent, \* bound: handlers at work at the same time
  MaxLate,       \* bound: timed-out calls under way at the same time
  MaxTries,      \* attempts of a call to a service (4 in the code)
  Total,         \* totalCents of an order, in refundable units
  Repaired,      \* field names that fit on both sides; none in the code
  None           \* no order, no lock owner

ASSUME OrderAssumption == /\ MaxRequests \in Nat
                          /\ MaxConcurrent \in Nat
                          /\ MaxLate \in Nat
                          /\ MaxTries \in Nat \ {0}
                          /\ Total \in Nat \ {0}
                          /\ Repaired \subseteq {"paymentIntentId", "expiresAt"}
                          /\ None \notin Order
                          /\ None \notin Worker
                          /\ Worker \cap Nat = {}
                          /\ None \notin Nat

(* Requests are numbered in the order they arrive.  A payment intent and a *)
(* refund bear the request and the attempt that asked for it.  Foreign is  *)
(* an intent at the gateway that was made for no order of this service.    *)
Request == 1..MaxRequests
Try == 1..MaxTries
CallId == Request \X Try
NoIntent == <<0, 0>>
Foreign == <<0, 1>>
IntentId == CallId \cup {NoIntent, Foreign}
Proc == Request \cup Worker

VARIABLES
  row,        \* orders table: status, payment_intent_id, expires_at set or NULL
  items,      \* orders whose order_items were inserted
  recorded,   \* refunds with a row in order_refunds
  published,  \* order.confirmed and order.refunded events published
  deadline,   \* the reservation deadline the client was given
  ticket,     \* what the ticket service holds for an order
  intent,     \* payment intents at the gateway
  refund,     \* refunds at the gateway
  accepted,   \* history: orders for which the gateway accepted a confirmation
  late,       \* calls that timed out at the caller and are still under way
  lock,       \* Redis locks of an order, one key per locked operation
  proc,       \* the handlers: operation, order and progress
  batch,      \* orders a run of the job has still to expire
  requests,   \* requests received so far
  overlapped, \* history: orders that a handler read while another was at work
  delayed     \* history: orders with a ticket call that timed out

database == <<row, items, recorded, published>>
services == <<ticket, intent, refund, accepted>>
history == <<overlapped, delayed>>
vars == <<row, items, recorded, published, deadline, ticket, intent, refund, accepted,
          late, lock, proc, batch, requests, overlapped, delayed>>

Status == {"PENDING", "RESERVED", "CONFIRMED", "CANCELLED", "EXPIRED", "REFUNDED"}
Absent == "ABSENT"
TicketState == {"none", "held", "sold", "released"}
IntentState == {"none", "open", "pending", "captured", "canceled"}
LockKey == {"confirm", "cancel", "refund"}
Operation == {"create", "reserve", "expire"} \cup LockKey
Step == {"insert", "items", "lock", "read", "hold", "intent", "capture", "allocate",
         "release", "void", "refund", "record", "update", "announce", "finally"}
TicketCall == {"hold", "allocate", "release"}
PaymentCall == {"intent", "capture", "void", "refund"}

Idle == [op |-> "none", order |-> None, pc |-> "idle", try |-> 1, seen |-> Absent,
         pi |-> NoIntent, amount |-> 0]

Active(p) == proc[p].pc # "idle"
At(p, op, step) == proc[p].op = op /\ proc[p].pc = step

(* A handler between its read of the order and its last write to it.       *)
InWindow(p, o) ==
  proc[p].order = o /\ proc[p].pc \notin {"idle", "lock", "read", "announce", "finally"}

(* Some orders were created before, with their items, and not reserved.    *)
Init ==
  /\ items \in SUBSET Order
  /\ row = [o \in Order |-> [status |-> IF o \in items THEN "PENDING" ELSE Absent,
                             pi |-> NoIntent, expires |-> FALSE]]
  /\ recorded = {}
  /\ published = {}
  /\ deadline = [o \in Order |-> "none"]
  /\ ticket = [o \in Order |-> "none"]
  /\ intent = [i \in CallId |-> [order |-> None, state |-> "none", refunded |-> 0]]
  /\ refund = [r \in CallId |-> [order |-> None, pi |-> NoIntent, amount |-> 0]]
  /\ accepted = {}
  /\ late = {}
  /\ lock = [o \in Order |-> [k \in LockKey |-> None]]
  /\ proc = [p \in Proc |-> Idle]
  /\ batch = [w \in Worker |-> {}]
  /\ requests = 0
  /\ overlapped = {}
  /\ delayed = {}

------------------------------------------------------------------------------
(* Control.                                                                *)

(* The handler of p goes on with a step, whose first attempt comes next.   *)
Goto(p, step) == proc' = [proc EXCEPT ![p].pc = step, ![p].try = 1]

(* The handler of p has only the given step left to do. *)
Finish(p, step) == proc' = [proc EXCEPT ![p] = [Idle EXCEPT !.op = proc[p].op,
                                                            !.order = proc[p].order,
                                                            !.pc = step]]

(* The handler of p throws: a locked operation goes through the finally of *)
(* withLock, any other just ends.                                          *)
Unwind(p) == IF proc[p].op \in LockKey THEN Finish(p, "finally")
                                       ELSE proc' = [proc EXCEPT ![p] = Idle]

(* Mutant of ReadOrder: the status is not tested. *)
ReadAnyOrder(p, allowed, pi, next) ==
  LET o == proc[p].order IN
  /\ proc[p].pc = "read"
  /\ proc' = [proc EXCEPT ![p].pc = next, ![p].pi = pi, ![p].seen = row[o].status]
  /\ overlapped' = IF \E q \in Proc \ {p} : InWindow(q, o)
                     THEN overlapped \cup {o} ELSE overlapped
  /\ UNCHANGED <<database, deadline, services, late, lock, batch, requests, delayed>>

(* findById and the test of the status.  seen keeps what was read: the     *)
(* handler acts on it after its calls, however late.                       *)
ReadOrder(p, allowed, pi, next) ==
  LET o == proc[p].order IN
  /\ proc[p].pc = "read"
  /\ IF row[o].status \in allowed
       THEN /\ proc' = [proc EXCEPT ![p].pc = next, ![p].pi = pi,
                                    ![p].seen = row[o].status]
            /\ overlapped' = IF \E q \in Proc \ {p} : InWindow(q, o)
                               THEN overlapped \cup {o} ELSE overlapped
       ELSE Unwind(p) /\ UNCHANGED overlapped
  /\ UNCHANGED <<database, deadline, services, late, lock, batch, requests, delayed>>

(* OrderModel.update, an UPDATE ... WHERE id that tests no status.  The    *)
(* service passes the deadline as expiresAt and the model looks for        *)
(* reservationExpiresAt, so the column keeps its value (unless repaired).  *)
Update(o, status, pi, expires) ==
  \E e \in {row[o].expires} \cup {x \in {expires} : "expiresAt" \in Repaired} :
    row' = [row EXCEPT ![o] = [status  |-> status,
                               pi      |-> IF pi = NoIntent THEN @.pi ELSE pi,
                               expires |-> e]]

(* The write that ends an operation; it may fail, and its reply may be lost. *)
UpdateOrder(p, status, pi, expires) ==
  /\ proc[p].pc = "update"
  /\ \/ /\ Update(proc[p].order, status, pi, expires)
        /\ \/ proc[p].op \in {"confirm", "refund"} /\ Finish(p, "announce")
           \/ Unwind(p)
     \/ UNCHANGED row /\ Unwind(p)
  /\ UNCHANGED <<items, recorded, published, services, late, lock, batch, requests, history>>

(* After the write: insert the order event and publish it.  Either may     *)
(* fail; the order keeps its new status.  Only the events that claim money *)
(* moved are kept; the others are announced to nobody here.                *)
Announce(p) ==
  /\ proc[p].pc = "announce"
  /\ \/ published' = published \cup {<<proc[p].order, proc[p].op>>}
     \/ UNCHANGED published
  /\ Unwind(p)
  /\ UNCHANGED <<row, items, recorded, deadline, services, late, lock, batch, requests, history>>

------------------------------------------------------------------------------
(* Locks: withLock(LockKeys.orderConfirmation / orderCancellation / order). *)

AcquireLock(p) ==
  LET o == proc[p].order
      k == proc[p].op
  IN /\ proc[p].pc = "lock"
     /\ lock[o][k] = None
     /\ lock' = [lock EXCEPT ![o][k] = p]
     /\ Goto(p, "read")
     /\ UNCHANGED <<database, deadline, services, late, batch, requests, history>>

(* LockTimeoutError after 50 attempts, or LockSystemError: nothing was     *)
(* acquired, so nothing is released.                                       *)
LockRefused(p) ==
  /\ proc[p].pc = "lock"
  /\ proc' = [proc EXCEPT ![p] = Idle]
  /\ UNCHANGED <<database, deadline, services, late, lock, batch, requests, history>>

(* The finally of withLock: compare-and-delete, whose failure is swallowed. *)
ReleaseLock(p) ==
  LET o == proc[p].order
      k == proc[p].op
  IN /\ proc[p].pc = "finally"
     /\ \/ lock' = [lock EXCEPT ![o][k] = IF @ = p THEN None ELSE @]
        \/ UNCHANGED lock
     /\ proc' = [proc EXCEPT ![p] = Idle]
     /\ UNCHANGED <<database, deadline, services, late, batch, requests, history>>

(* The 30 s lifetime of a key ends, whatever its owner is doing. *)
LockExpires(o, k) ==
  /\ lock[o][k] # None
  /\ lock' = [lock EXCEPT ![o][k] = None]
  /\ UNCHANGED <<database, deadline, services, late, proc, batch, requests, history>>

------------------------------------------------------------------------------
(* What the two services do with a call.  The ticket service is as         *)
(* ticket.client.ts expects it: a call about an order is honoured or       *)
(* refused, and honouring it twice changes nothing more.                   *)

TicketHold(o)    == ticket' = [ticket EXCEPT ![o] = "held"]
TicketSell(o)    == ticket[o] = "held" /\ ticket' = [ticket EXCEPT ![o] = "sold"]
TicketRelease(o) == ticket' = [ticket EXCEPT ![o] = IF @ = "none" THEN @ ELSE "released"]

(* A hold asks for the items that were read, if any (amount). *)
TicketEffect(c) == /\ c.kind \in TicketCall
                   /\ CASE c.kind = "hold"     -> IF c.amount > 0 THEN TicketHold(c.order)
                                                                  ELSE UNCHANGED ticket
                        [] c.kind = "allocate" -> TicketSell(c.order)
                        [] c.kind = "release"  -> TicketRelease(c.order)
                   /\ UNCHANGED <<intent, refund, accepted>>

(* The payment service and the gateway behind it, which take every attempt *)
(* for a new call (the routes pass no idempotency key on): an intent is    *)
(* captured or canceled once, and a refund never exceeds what is left of   *)
(* the capture.                                                            *)

IntentCreate(i, o) ==
  /\ intent' = [intent EXCEPT ![i] = [order |-> o, state |-> "open", refunded |-> 0]]
  /\ UNCHANGED <<refund, accepted>>

(* The confirmation of an intent may leave it waiting for the customer or  *)
(* the bank; the payment service answers with success all the same.  It    *)
(* does not ask which order the intent was made for.                       *)
IntentConfirm(i, o) ==
  /\ \/ /\ i \in CallId
        /\ intent[i].state \in {"open", "pending"}
        /\ \E state \in {"captured", "pending"} : intent' = [intent EXCEPT ![i].state = state]
     \/ i = Foreign /\ UNCHANGED intent
  /\ accepted' = accepted \cup {o}
  /\ UNCHANGED refund

IntentCancel(i) ==
  /\ i \in CallId
  /\ intent[i].state \in {"open", "pending"}
  /\ intent' = [intent EXCEPT ![i].state = "canceled"]
  /\ UNCHANGED <<refund, accepted>>

(* Mutant of RefundCreate: what was refunded before is not counted. *)
RefundUncounted(r, o, i, amount) ==
  /\ i \in CallId
  /\ intent[i].state = "captured"
  /\ intent' = [intent EXCEPT ![i].refunded = @ + amount]
  /\ refund' = [refund EXCEPT ![r] = [order |-> o, pi |-> i, amount |-> amount]]
  /\ UNCHANGED accepted

RefundCreate(r, o, i, amount) ==
  /\ i \in CallId
  /\ intent[i].state = "captured"
  /\ intent[i].refunded + amount <= Total
  /\ intent' = [intent EXCEPT ![i].refunded = @ + amount]
  /\ refund' = [refund EXCEPT ![r] = [order |-> o, pi |-> i, amount |-> amount]]
  /\ UNCHANGED accepted

PaymentEffect(c) == /\ c.kind \in PaymentCall
                    /\ CASE c.kind = "intent"  -> IntentCreate(c.id, c.order)
                         [] c.kind = "capture" -> IntentConfirm(c.pi, c.order)
                         [] c.kind = "void"    -> IntentCancel(c.pi)
                         [] c.kind = "refund"  -> RefundCreate(c.id, c.order, c.pi, c.amount)
                    /\ UNCHANGED ticket

Effect(c) == TicketEffect(c) \/ PaymentEffect(c)

------------------------------------------------------------------------------
(* Awaited calls, through BaseServiceClient.request.                       *)

(* The attempt that the handler of p is about to make. *)
Attempt(p) == [kind   |-> proc[p].pc,
               order  |-> proc[p].order,
               id     |-> IF proc[p].pc \in {"intent", "refund"} THEN <<p, proc[p].try>>
                                                                ELSE NoIntent,
               pi     |-> IF proc[p].pc \in PaymentCall THEN proc[p].pi ELSE NoIntent,
               amount |-> IF proc[p].pc \in {"hold", "refund"} THEN proc[p].amount ELSE 0]

(* The call throws; the expiration job catches that and goes on. *)
Thrown(p, next) == IF proc[p].op = "expire" THEN Goto(p, next) ELSE Unwind(p)

(* The service honours the call and the handler goes on, holding pi. *)
Answered(p, next, pi) ==
  /\ Effect(Attempt(p))
  /\ proc' = [proc EXCEPT ![p].pc = next, ![p].try = 1, ![p].pi = pi]
  /\ UNCHANGED <<late, delayed>>

(* The service refuses it, cannot be reached, or fails after the effect.   *)
Refused(p, next) ==
  /\ Effect(Attempt(p)) \/ UNCHANGED services
  /\ Thrown(p, next)
  /\ UNCHANGED <<late, delayed>>

(* The breaker's 10 s are over.  The request is under way all the same,    *)
(* and the only error that makes the client send another is this one.      *)
TimedOut(p, next) ==
  /\ Cardinality(late) < MaxLate
  /\ late' = late \cup {Attempt(p)}
  /\ delayed' = IF proc[p].pc \in TicketCall THEN delayed \cup {proc[p].order} ELSE delayed
  /\ IF proc[p].try < MaxTries THEN proc' = [proc EXCEPT ![p].try = @ + 1]
                               ELSE Thrown(p, next)
  /\ UNCHANGED services

Await(p, next, pi) ==
  /\ Answered(p, next, pi) \/ Refused(p, next) \/ TimedOut(p, next)
  /\ UNCHANGED <<database, deadline, lock, batch, requests, overlapped>>

(* A call that timed out arrives at last, or never does. *)
LateCall(c) ==
  /\ late' = late \ {c}
  /\ Effect(c) \/ UNCHANGED services
  /\ UNCHANGED <<database, deadline, lock, proc, batch, requests, history>>

------------------------------------------------------------------------------
(* Requests.                                                               *)

(* A request arrives and gets the next number. *)
Arrive(op, o, step, pi, amount) ==
  /\ requests < MaxRequests
  /\ Cardinality({q \in Proc : Active(q)}) < MaxConcurrent
  /\ requests' = requests + 1
  /\ proc' = [proc EXCEPT ![requests + 1] =
                [Idle EXCEPT !.op = op, !.order = o, !.pc = step, !.pi = pi, !.amount = amount]]
  /\ UNCHANGED <<database, deadline, services, late, lock, batch, history>>

Known(o) == row[o].status # Absent

CreateRequest  == \E o \in Order :
                    /\ ~Known(o)
                    /\ \A q \in Proc : proc[q].order # o
                    /\ Arrive("create", o, "insert", NoIntent, 0)
ReserveRequest == \E o \in Order : Known(o) /\ Arrive("reserve", o, "read", NoIntent, 0)

(* A confirmation comes with any payment its sender knows of: nothing      *)
(* compares it with the order.                                             *)
ConfirmRequest == \E o \in Order, i \in {j \in CallId : intent[j].state # "none"} \cup {Foreign} :
                    Known(o) /\ Arrive("confirm", o, "lock", i, 0)
CancelRequest  == \E o \in Order : Known(o) /\ Arrive("cancel", o, "lock", NoIntent, Total)
RefundRequest  == \E o \in Order, amount \in 1..Total :
                    Known(o) /\ Arrive("refund", o, "lock", NoIntent, amount)

ClientRequest == CreateRequest \/ ReserveRequest \/ ConfirmRequest
                   \/ CancelRequest \/ RefundRequest

------------------------------------------------------------------------------
(* createOrder: after its checks, the order row, then the items.           *)

InsertOrder(p) ==
  /\ At(p, "create", "insert")
  /\ \/ /\ row' = [row EXCEPT ![proc[p].order].status = "PENDING"]
        /\ Goto(p, "items") \/ Unwind(p)
     \/ UNCHANGED row /\ Unwind(p)
  /\ UNCHANGED <<items, recorded, published, deadline, services, late, lock, batch, requests, history>>

InsertItems(p) ==
  /\ At(p, "create", "items")
  /\ items' \in {items, items \cup {proc[p].order}}
  /\ Unwind(p)
  /\ UNCHANGED <<row, recorded, published, deadline, services, late, lock, batch, requests, history>>

CreateOrder(p) == InsertOrder(p) \/ InsertItems(p)

------------------------------------------------------------------------------
(* reserveOrder: no lock; tickets, then the payment intent, then RESERVED. *)

FindItems(p) ==
  /\ At(p, "reserve", "items")
  /\ proc' = [proc EXCEPT ![p].pc = "hold",
                          ![p].amount = IF proc[p].order \in items THEN 1 ELSE 0]
  /\ UNCHANGED <<database, deadline, services, late, lock, batch, requests, history>>

ReserveTickets(p) == At(p, "reserve", "hold") /\ Await(p, "intent", NoIntent)

(* The reply names the intent paymentIntent.id and the client reads        *)
(* paymentIntentId, so the id does not reach the handler (unless repaired). *)
CreatePaymentIntent(p) ==
  /\ At(p, "reserve", "intent")
  /\ \E pi \in {NoIntent} \cup {i \in {<<p, proc[p].try>>} : "paymentIntentId" \in Repaired} :
       Await(p, "update", pi)

ReserveOrder(p) ==
  \/ At(p, "reserve", "read") /\ ReadOrder(p, {"PENDING"}, NoIntent, "items")
  \/ FindItems(p)
  \/ ReserveTickets(p)
  \/ CreatePaymentIntent(p)
  \/ /\ At(p, "reserve", "update")
     /\ UpdateOrder(p, "RESERVED", proc[p].pi, TRUE)
     /\ deadline' = [deadline EXCEPT ![proc[p].order] = "running"]

------------------------------------------------------------------------------
(* confirmOrder: capture the payment, sell the tickets, then CONFIRMED.    *)

(* Mutant of ConfirmPayment: an error of the payment service is ignored. *)
ConfirmPaymentIgnoringErrors(p) ==
  /\ At(p, "confirm", "capture")
  /\ Effect(Attempt(p)) \/ UNCHANGED services
  /\ Goto(p, "allocate")
  /\ UNCHANGED <<database, deadline, late, lock, batch, requests, history>>

ConfirmPayment(p) == At(p, "confirm", "capture") /\ Await(p, "allocate", proc[p].pi)
ConfirmAllocation(p) == At(p, "confirm", "allocate") /\ Await(p, "update", proc[p].pi)

ConfirmOrder(p) ==
  \/ At(p, "confirm", "read") /\ ReadOrder(p, {"RESERVED"}, proc[p].pi, "capture")
  \/ ConfirmPayment(p)
  \/ ConfirmAllocation(p)
  \/ /\ At(p, "confirm", "update")
     /\ UpdateOrder(p, "CONFIRMED", NoIntent, FALSE)
     /\ UNCHANGED deadline

------------------------------------------------------------------------------
(* Refunds, used by cancelOrder and refundOrder: first the gateway, then   *)
(* the row in order_refunds.                                               *)

(* Mutant of InitiateRefund: an error of the payment service is ignored. *)
InitiateRefundIgnoringErrors(p) ==
  /\ proc[p].pc = "refund"
  /\ Effect(Attempt(p)) \/ UNCHANGED services
  /\ proc' = [proc EXCEPT ![p].pc = "record", ![p].pi = <<p, proc[p].try>>]
  /\ UNCHANGED <<database, deadline, late, lock, batch, requests, history>>

(* The handler goes on with the refund its last attempt made. *)
InitiateRefund(p) == proc[p].pc = "refund" /\ Await(p, "record", <<p, proc[p].try>>)

RecordRefund(p) ==
  /\ proc[p].pc = "record"
  /\ \/ recorded' = recorded \cup {proc[p].pi} /\ (Goto(p, "update") \/ Unwind(p))
     \/ UNCHANGED recorded /\ Unwind(p)
  /\ UNCHANGED <<row, items, published, deadline, services, late, lock, batch, requests, history>>

------------------------------------------------------------------------------
(* cancelOrder: release the tickets, give the money back according to the  *)
(* status that was read, then CANCELLED.                                   *)

AfterRelease(p) == IF proc[p].pi = NoIntent THEN "update"
                   ELSE CASE proc[p].seen = "CONFIRMED" -> "refund"
                          [] proc[p].seen = "RESERVED"  -> "void"
                          [] OTHER                      -> "update"

(* Mutant of CancelReleaseTickets: a failure is swallowed, as in expiration. *)
CancelDespiteFailure(p) ==
  /\ At(p, "cancel", "release")
  /\ Effect(Attempt(p)) \/ UNCHANGED services
  /\ Goto(p, AfterRelease(p))
  /\ UNCHANGED <<database, deadline, late, lock, batch, requests, history>>

CancelReleaseTickets(p) == At(p, "cancel", "release") /\ Await(p, AfterRelease(p), proc[p].pi)
CancelPaymentIntent(p) == At(p, "cancel", "void") /\ Await(p, "update", proc[p].pi)

CancelOrder(p) ==
  \/ /\ At(p, "cancel", "read")
     /\ ReadOrder(p, {"PENDING", "RESERVED", "CONFIRMED"}, row[proc[p].order].pi, "release")
  \/ CancelReleaseTickets(p)
  \/ At(p, "cancel", "refund") /\ InitiateRefund(p)
  \/ CancelPaymentIntent(p)
  \/ At(p, "cancel", "record") /\ RecordRefund(p)
  \/ /\ At(p, "cancel", "update")
     /\ UpdateOrder(p, "CANCELLED", NoIntent, FALSE)
     /\ UNCHANGED deadline

------------------------------------------------------------------------------
(* refundOrder: the requested amount, then REFUNDED.                       *)

RefundOrder(p) ==
  LET o == proc[p].order IN
  \/ /\ At(p, "refund", "read")
     /\ ReadOrder(p, IF row[o].pi = NoIntent THEN {} ELSE {"CONFIRMED"}, row[o].pi, "refund")
  \/ At(p, "refund", "refund") /\ InitiateRefund(p)
  \/ At(p, "refund", "record") /\ RecordRefund(p)
  \/ /\ At(p, "refund", "update")
     /\ UpdateOrder(p, "REFUNDED", NoIntent, row[o].expires)
     /\ UNCHANGED deadline

------------------------------------------------------------------------------
(* The expiration job: a run takes the reserved orders whose expires_at is *)
(* past and expires them one after the other, without a lock on the order; *)
(* an order that fails is skipped until the next run.                      *)

(* findExpiredReservations: status = RESERVED AND expires_at <= NOW(). *)
ExpiredReservations ==
  {o \in Order : row[o].status = "RESERVED" /\ row[o].expires /\ deadline[o] = "passed"}

RunExpirationJob(w) ==
  /\ ~Active(w)
  /\ batch[w] = {}
  /\ ExpiredReservations # {}
  /\ batch' = [batch EXCEPT ![w] = ExpiredReservations]
  /\ UNCHANGED <<database, deadline, services, late, lock, proc, requests, history>>

ExpireNext(w) ==
  /\ ~Active(w)
  /\ Cardinality({q \in Proc : Active(q)}) < MaxConcurrent
  /\ \E o \in batch[w] :
       /\ batch' = [batch EXCEPT ![w] = @ \ {o}]
       /\ proc' = [proc EXCEPT ![w] = [Idle EXCEPT !.op = "expire", !.order = o,
                                                   !.pc = "read"]]
  /\ UNCHANGED <<database, deadline, services, late, lock, requests, history>>

ExpireReleaseTickets(w) ==
  /\ At(w, "expire", "release")
  /\ Await(w, IF proc[w].pi = NoIntent THEN "update" ELSE "void", proc[w].pi)

ExpireCancelIntent(w) == At(w, "expire", "void") /\ Await(w, "update", proc[w].pi)

ExpireReservation(w) ==
  \/ /\ At(w, "expire", "read")
     /\ ReadOrder(w, {"RESERVED"}, row[proc[w].order].pi, "release")
  \/ ExpireReleaseTickets(w)
  \/ ExpireCancelIntent(w)
  \/ /\ At(w, "expire", "update")
     /\ UpdateOrder(w, "EXPIRED", NoIntent, FALSE)
     /\ UNCHANGED deadline

------------------------------------------------------------------------------
(* The environment.                                                        *)

(* The 30 minutes of a reservation are over. *)
ReservationTimesOut(o) ==
  /\ deadline[o] = "running"
  /\ deadline' = [deadline EXCEPT ![o] = "passed"]
  /\ UNCHANGED <<database, services, late, lock, proc, batch, requests, history>>

(* A payment that was waiting succeeds (or never does).  Nothing tells the *)
(* order.                                                                  *)
PaymentSettles(i) ==
  /\ intent[i].state = "pending"
  /\ intent' = [intent EXCEPT ![i].state = "captured"]
  /\ UNCHANGED <<database, deadline, ticket, refund, accepted, late, lock, proc, batch,
                 requests, history>>

(* The process that serves p dies; its locks stay until they expire. *)
Crash(p) ==
  /\ Active(p)
  /\ proc' = [proc EXCEPT ![p] = Idle]
  /\ batch' = [w \in Worker |-> IF w = p THEN {} ELSE batch[w]]
  /\ UNCHANGED <<database, deadline, services, late, lock, requests, history>>

Handle(p) == \/ CreateOrder(p) \/ ReserveOrder(p) \/ ConfirmOrder(p)
             \/ CancelOrder(p) \/ RefundOrder(p) \/ ExpireReservation(p)
             \/ Announce(p)
             \/ AcquireLock(p) \/ LockRefused(p) \/ ReleaseLock(p)

Next == \/ ClientRequest
        \/ \E p \in Proc : Handle(p) \/ Crash(p)
        \/ \E w \in Worker : RunExpirationJob(w) \/ ExpireNext(w)
        \/ \E c \in late : LateCall(c)
        \/ \E o \in Order : ReservationTimesOut(o)
        \/ \E i \in CallId : PaymentSettles(i)
        \/ \E o \in Order, k \in LockKey : LockExpires(o, k)

Spec == Init /\ [][Next]_vars

(* Every awaited call returns or times out, so a handler that is not dead  *)
(* goes on.                                                                *)
FairSpec == Spec /\ \A p \in Proc : WF_vars(Handle(p))

(* The job runs every minute, and a step it attempts again and again is    *)
(* taken at last (the database does not fail and the process does not die  *)
(* every single time); time passes.                                        *)
JobSpec ==
  /\ FairSpec
  /\ \A w \in Worker :
       /\ WF_vars(RunExpirationJob(w))
       /\ WF_vars(ExpireNext(w))
       /\ \A step \in {"read", "release", "void", "update"} :
            SF_vars(/\ At(w, "expire", step)
                    /\ ExpireReservation(w)
                    /\ step = "update" => row' # row)
  /\ \A o \in Order : WF_vars(ReservationTimesOut(o))

------------------------------------------------------------------------------
RowType == [status : Status \cup {Absent}, pi : IntentId, expires : BOOLEAN]
IntentType == [order : Order \cup {None}, state : IntentState, refunded : 0..Total]
RefundType == [order : Order \cup {None}, pi : IntentId, amount : 0..Total]
CallType == [kind : TicketCall \cup PaymentCall, order : Order, id : IntentId,
             pi : IntentId, amount : 0..Total]
ProcType == [op : Operation \cup {"none"}, order : Order \cup {None},
             pc : Step \cup {"idle"}, try : Try, seen : Status \cup {Absent},
             pi : IntentId, amount : 0..Total]

TypeOK == /\ row \in [Order -> RowType]
          /\ items \subseteq Order
          /\ recorded \subseteq CallId
          /\ published \subseteq Order \X Operation
          /\ deadline \in [Order -> {"none", "running", "passed"}]
          /\ ticket \in [Order -> TicketState]
          /\ intent \in [CallId -> IntentType]
          /\ refund \in [CallId -> RefundType]
          /\ accepted \subseteq Order
          /\ late \subseteq CallType
          /\ lock \in [Order -> [LockKey -> Proc \cup {None}]]
          /\ proc \in [Proc -> ProcType]
          /\ batch \in [Worker -> SUBSET Order]
          /\ requests \in 0..MaxRequests
          /\ overlapped \subseteq Order
          /\ delayed \subseteq Order

(* However the handlers interleave, fail and repeat their calls, an order  *)
(* is CONFIRMED (and the event says so) only if the gateway accepted a     *)
(* confirmation for it, and REFUNDED only if a refund of it was recorded:  *)
(* no status or event runs ahead of the calls that earn it.                *)
StatusIsEarned ==
  \A o \in Order :
    /\ row[o].status = "CONFIRMED" \/ <<o, "confirm">> \in published => o \in accepted
    /\ row[o].status = "REFUNDED" \/ <<o, "refund">> \in published
         => \E r \in recorded : refund[r].order = o

(* Money goes back only where it came from: every refund the gateway made, *)
(* in time or late, came out of a captured payment of the order it was     *)
(* made for, and every row of order_refunds stands for such a refund,      *)
(* although the order may have been overwritten between the two and the    *)
(* client confirms whichever payment it likes.                             *)
RecordedRefundsAreReal ==
  /\ \A r \in CallId : refund[r].amount > 0 =>
       LET i == refund[r].pi IN /\ i \in CallId
                                /\ intent[i].state = "captured"
                                /\ intent[i].order = refund[r].order
  /\ \A r \in recorded : refund[r].amount > 0

(* The tickets of an order agree with its row, in whatever step a handler  *)
(* failed or died, as long as no two handlers of the order were at work at *)
(* once and no ticket call of it timed out: a pending order has sold none, *)
(* a confirmed or refunded one has sold them (or lost them to a            *)
(* cancellation that went no further), a cancelled one holds none.  (An    *)
(* expired one may: the job swallows a failed release.)                    *)
TicketsFollowStatus ==
  \A o \in Order \ (overlapped \cup delayed) :
    /\ row[o].status = Absent => ticket[o] = "none"
    /\ row[o].status = "PENDING" => ticket[o] # "sold"
    /\ row[o].status \in {"CONFIRMED", "REFUNDED"} => ticket[o] \in {"sold", "released"}
    /\ row[o].status = "CANCELLED" => ticket[o] \in {"none", "released"}

(* utils/order-state-machine.ts: the transitions an order may make.        *)
Allowed == [s \in Status \cup {Absent} |->
              CASE s = Absent      -> {"PENDING"}
                [] s = "PENDING"   -> {"RESERVED", "CANCELLED", "EXPIRED"}
                [] s = "RESERVED"  -> {"CONFIRMED", "CANCELLED", "EXPIRED"}
                [] s = "CONFIRMED" -> {"COMPLETED", "CANCELLED", "REFUNDED"}
                [] OTHER           -> {}]

StatusMoves(o) == row'[o].status # row[o].status

(* As long as no two handlers of an order were at work at once, its status *)
(* follows the state machine, whatever failed, died, was repeated or came  *)
(* late.                                                                   *)
UndisturbedTransitions ==
  [][\A o \in Order : StatusMoves(o) /\ o \notin overlapped
        => row'[o].status \in Allowed[row[o].status]]_vars

------------------------------------------------------------------------------
(* What the code or its documents say and the program does not do.         *)

(* What the state machine says of every transition. *)
StatusFollowsStateMachine ==
  [][\A o \in Order : StatusMoves(o) => row'[o].status \in Allowed[row[o].status]]_vars

(* A reservation that timed out does not stay reserved. *)
TimedOutReservationsEnd ==
  \A o \in Order : row[o].status = "RESERVED" /\ deadline[o] = "passed"
                     ~> row[o].status # "RESERVED" \/ deadline[o] # "passed"

(* The captured payments of an order that was confirmed and then cancelled *)
(* were given back, at least when no two handlers were at work at once.    *)
CancelledOrdersAreRefunded ==
  \A o \in Order : row[o].status = "CANCELLED" /\ <<o, "confirm">> \in published
                   /\ o \notin overlapped =>
    \A i \in CallId : intent[i].order = o /\ intent[i].state = "captured"
                         => intent[i].refunded = Total
==============================================================================
