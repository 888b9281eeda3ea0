-------------------------- MODULE OrderMoney_proofs --------------------------
(***************************************************************************)
(* Money in OrderLifecycle, for any number of orders, workers, requests,   *)
(* attempts and calls under way, and whichever field names fit: proofs of  *)
(* StatusIsEarned and RecordedRefundsAreReal, and what becomes of refunds  *)
(* as the services are wired.  The invariant follows an intent or a refund *)
(* by the number of the call that asks for it: no two calls bear the same, *)
(* so a call that comes late cannot undo what another did.                 *)
(***************************************************************************)
EXTENDS OrderLifecycle_proofs

Numbered == {"intent", "refund"}
Early == {"insert", "items", "lock", "read", "hold", "release"}

Untouched(kind, id) == IF kind = "intent" THEN intent[id].state = "none"
                                          ELSE refund[id].amount = 0

(* Handler q may still make its t-th attempt of a numbered call.           *)
MayMake(q, kind, t) == \/ q > requests
                       \/ proc[q].pc \in Early
                       \/ proc[q].pc = kind /\ t >= proc[q].try

(* Nobody bears the number of a call that is still to be made.             *)
Fresh == \A q \in Request, t \in Try, kind \in Numbered :
           MayMake(q, kind, t) => /\ Untouched(kind, <<q, t>>)
                                  /\ \A c \in late : c.kind = kind => c.id # <<q, t>>

Distinct == \A c, d \in late : c.kind = d.kind /\ c.kind \in Numbered /\ c.id = d.id => c = d

(* i is a payment intent that was made for order o.                        *)
IntentOf(i, o) == i \in CallId /\ intent[i].order = o /\ intent[i].state # "none"
Owned(i, o) == i # NoIntent => IntentOf(i, o)

Refunded(o) == \E r \in recorded : refund[r].amount > 0 /\ refund[r].order = o

(* A call under way still has its effect before it, and a refund asks for  *)
(* some of the money of its own order.                                     *)
CallOK(c) ==
  /\ c.kind \in Numbered => c.id \in CallId /\ Untouched(c.kind, c.id)
  /\ c.kind = "refund" => c.amount > 0 /\ Owned(c.pi, c.order)

RefundOK(r) == refund[r].amount > 0 => /\ IntentOf(refund[r].pi, refund[r].order)
                                       /\ intent[refund[r].pi].state = "captured"

HoldsIntent(p) == \/ proc[p].op = "reserve" /\ proc[p].pc = "update"
                  \/ /\ proc[p].op \in {"cancel", "refund", "expire"}
                     /\ proc[p].pc \in {"release", "refund", "void"}

HandlerOK(p) ==
  /\ HoldsIntent(p) => Owned(proc[p].pi, proc[p].order)
  /\ proc[p].op \in {"cancel", "refund"} /\ proc[p].pc \in {"lock", "read", "release", "refund"}
       => proc[p].amount > 0
  /\ proc[p].pc = "record" => /\ refund[proc[p].pi].amount > 0
                              /\ refund[proc[p].pi].order = proc[p].order
  /\ proc[p].op = "confirm" /\ proc[p].pc \in {"allocate", "update", "announce"}
       => proc[p].order \in accepted
  /\ proc[p].op = "refund" /\ proc[p].pc \in {"update", "announce"} => Refunded(proc[p].order)

RowOK(o) == /\ Owned(row[o].pi, o)
            /\ row[o].status = "CONFIRMED" => o \in accepted
            /\ row[o].status = "REFUNDED" => Refunded(o)

PublishedOK(o) == /\ <<o, "confirm">> \in published => o \in accepted
                  /\ <<o, "refund">> \in published => Refunded(o)

Arrived == \A q \in Request : Active(q) => q <= requests

MoneyInv == /\ Fresh /\ Distinct /\ Arrived
            /\ \A p \in Proc : HandlerOK(p)
            /\ \A o \in Order : RowOK(o) /\ PublishedOK(o)
            /\ \A c \in late : CallOK(c)
            /\ \A r \in CallId : RefundOK(r)
            /\ \A r \in recorded : refund[r].amount > 0

------------------------------------------------------------------------------
(* What a call does: it adds to what there is, and touches no number but   *)
(* its own.                                                                *)

Growth == /\ \A i \in CallId, o \in Order : IntentOf(i, o) => IntentOf(i, o)'
          /\ \A r \in CallId : refund[r].amount > 0 => refund'[r] = refund[r]
          /\ accepted \subseteq accepted'
          /\ recorded \subseteq recorded'

NoOtherTouched(c) ==
  \A kind \in Numbered, id \in CallId :
    Untouched(kind, id) /\ (c.kind = kind => c.id # id) => Untouched(kind, id)'

Grows(c) == Growth /\ NoOtherTouched(c) /\ \A r \in CallId : RefundOK(r)'

LEMMA NothingGrows ==
  ASSUME MoneyInv, UNCHANGED <<intent, refund>>, accepted \subseteq accepted',
         recorded \subseteq recorded', NEW c
  PROVE  Grows(c)
BY DEF Grows, Growth, NoOtherTouched, RefundOK, IntentOf, Untouched, MoneyInv

(* A payment changes its state: none of an intent that is captured.        *)
LEMMA StateGrows ==
  ASSUME TypeInv, MoneyInv, NEW i \in CallId, intent[i].state \in {"open", "pending"},
         NEW state \in {"pending", "captured", "canceled"},
         intent' = [intent EXCEPT ![i].state = state],
         UNCHANGED <<refund, recorded>>, accepted \subseteq accepted', NEW c
  PROVE  Grows(c)
<1>1. intent \in [CallId -> IntentType]
  BY DEF TypeInv, TypeOK
<1>2. /\ \A j \in CallId : intent'[j].order = intent[j].order
      /\ \A j \in CallId \ {i} : intent'[j].state = intent[j].state
      /\ intent'[i].state = state
  BY <1>1 DEF IntentType
<1>3. Growth
  BY <1>2 DEF Growth, IntentOf
<1>4. NoOtherTouched(c)
  BY <1>2 DEF NoOtherTouched, Untouched
<1>5. ASSUME NEW r \in CallId PROVE RefundOK(r)'
  BY <1>2 DEF RefundOK, IntentOf, MoneyInv
<1>6. QED
  BY <1>3, <1>4, <1>5 DEF Grows

LEMMA CreateGrows ==
  ASSUME TypeInv, MoneyInv, NEW c \in CallType, c.kind = "intent", CallOK(c),
         IntentCreate(c.id, c.order), UNCHANGED recorded
  PROVE  Grows(c)
<1>1. intent \in [CallId -> IntentType]
  BY DEF TypeInv, TypeOK
<1>2. c.id \in CallId /\ intent[c.id].state = "none"
  BY DEF CallOK, Numbered, Untouched
<1>3. \A j \in CallId \ {c.id} : intent'[j] = intent[j]
  BY <1>1 DEF IntentCreate
<1>4. UNCHANGED <<refund, accepted>>
  BY DEF IntentCreate
<1>5. Growth
  BY <1>2, <1>3, <1>4 DEF Growth, IntentOf
<1>6. NoOtherTouched(c)
  BY <1>3, <1>4 DEF NoOtherTouched, Untouched, Numbered
<1>7. ASSUME NEW r \in CallId PROVE RefundOK(r)'
  BY <1>2, <1>3, <1>4 DEF RefundOK, IntentOf, MoneyInv
<1>8. QED
  BY <1>5, <1>6, <1>7 DEF Grows

LEMMA RefundGrows ==
  ASSUME TypeInv, MoneyInv, NEW c \in CallType, c.kind = "refund", CallOK(c),
         RefundCreate(c.id, c.order, c.pi, c.amount), UNCHANGED recorded
  PROVE  /\ Grows(c)
         /\ refund'[c.id].amount > 0 /\ refund'[c.id].order = c.order
<1>1. intent \in [CallId -> IntentType] /\ refund \in [CallId -> RefundType]
  BY DEF TypeInv, TypeOK
<1>2. c.id \in CallId /\ refund[c.id].amount = 0 /\ c.amount > 0 /\ Owned(c.pi, c.order)
  BY DEF CallOK, Numbered, Untouched
<1>3. /\ c.pi \in CallId /\ IntentOf(c.pi, c.order) /\ intent[c.pi].state = "captured"
  BY <1>2, Names DEF RefundCreate, Owned
<1>4. \A j \in CallId : intent'[j].order = intent[j].order /\ intent'[j].state = intent[j].state
  BY <1>1, <1>3 DEF RefundCreate, IntentType
<1>5. /\ refund'[c.id] = [order |-> c.order, pi |-> c.pi, amount |-> c.amount]
      /\ \A r \in CallId \ {c.id} : refund'[r] = refund[r]
      /\ accepted' = accepted
  BY <1>1, <1>2 DEF RefundCreate
<1>6. Growth
  BY <1>2, <1>4, <1>5 DEF Growth, IntentOf
<1>7. NoOtherTouched(c)
  BY <1>4, <1>5 DEF NoOtherTouched, Untouched, Numbered
<1>8. ASSUME NEW r \in CallId PROVE RefundOK(r)'
  <2>1. CASE r = c.id
    BY <1>3, <1>4, <1>5, <2>1 DEF RefundOK, IntentOf
  <2>2. CASE r # c.id
    BY <1>4, <1>5, <2>2 DEF RefundOK, IntentOf, MoneyInv
  <2>3. QED
    BY <2>1, <2>2
<1>9. QED
  BY <1>2, <1>5, <1>6, <1>7, <1>8 DEF Grows

LEMMA EffectGrows ==
  ASSUME TypeInv, MoneyInv, NEW c \in CallType, CallOK(c),
         Effect(c) \/ UNCHANGED services, UNCHANGED recorded
  PROVE  Grows(c)
<1>1. CASE TicketEffect(c) \/ UNCHANGED services
  BY <1>1, NothingGrows DEF TicketEffect, services
<1>2. CASE PaymentEffect(c) /\ c.kind = "intent"
  BY <1>2, CreateGrows DEF PaymentEffect
<1>3. CASE PaymentEffect(c) /\ c.kind = "capture"
  <2>1. IntentConfirm(c.pi, c.order)
    BY <1>3 DEF PaymentEffect
  <2>2. accepted \subseteq accepted' /\ UNCHANGED refund
    BY <2>1 DEF IntentConfirm
  <2>3. CASE UNCHANGED intent
    BY <2>2, <2>3, NothingGrows
  <2>4. CASE ~UNCHANGED intent
    BY <2>1, <2>2, <2>4, StateGrows DEF IntentConfirm
  <2>5. QED
    BY <2>3, <2>4
<1>4. CASE PaymentEffect(c) /\ c.kind = "void"
  <2>1. IntentCancel(c.pi)
    BY <1>4 DEF PaymentEffect
  <2>2. QED
    BY <2>1, StateGrows DEF IntentCancel
<1>5. CASE PaymentEffect(c) /\ c.kind = "refund"
  BY <1>5, RefundGrows DEF PaymentEffect
<1>6. QED
  BY <1>1, <1>2, <1>3, <1>4, <1>5 DEF Effect, PaymentEffect, PaymentCall

------------------------------------------------------------------------------
(* What growth leaves as it is.                                            *)

LEMMA OwnedKept ==
  ASSUME Growth, NEW i, NEW o \in Order, Owned(i, o)
  PROVE  i # NoIntent => i \in CallId /\ intent'[i].order = o /\ intent'[i].state # "none"
BY DEF Growth, Owned, IntentOf

LEMMA RefundedKept ==
  ASSUME TypeInv, Growth, NEW o \in Order, Refunded(o)
  PROVE  Refunded(o)'
<1>1. PICK r \in recorded : refund[r].amount > 0 /\ refund[r].order = o
  BY DEF Refunded
<1>2. r \in CallId /\ r \in recorded'
  BY DEF TypeInv, TypeOK, Growth
<1>3. refund'[r] = refund[r]
  BY <1>1, <1>2 DEF Growth
<1>4. QED
  BY <1>1, <1>2, <1>3 DEF Refunded

SameWork(q) == /\ proc'[q].op = proc[q].op
               /\ proc'[q].order = proc[q].order
               /\ proc'[q].pc = proc[q].pc
               /\ proc'[q].pi = proc[q].pi
               /\ proc'[q].amount = proc[q].amount

LEMMA HandlerKept ==
  ASSUME TypeInv, Growth, NEW q \in Proc, HandlerOK(q), SameWork(q)
  PROVE  HandlerOK(q)'
<1>1. CASE ~Active(q)
  BY <1>1 DEF HandlerOK, HoldsIntent, SameWork, Active
<1>2. CASE Active(q)
  <2>1. proc[q].order \in Order /\ InRole(q, proc[q])
    BY <1>2, HasOrder
  <2>2. HoldsIntent(q)' => Owned(proc[q].pi, proc[q].order)'
    <3>1. HoldsIntent(q)' => HoldsIntent(q)
      BY DEF HoldsIntent, SameWork
    <3>2. QED
      BY <2>1, <3>1, OwnedKept DEF HandlerOK, SameWork, Owned, IntentOf
  <2>3. proc'[q].pc = "record" => /\ refund'[proc'[q].pi].amount > 0
                                  /\ refund'[proc'[q].pi].order = proc'[q].order
    BY <2>1 DEF HandlerOK, SameWork, InRole, Growth
  <2>4. proc'[q].op = "confirm" /\ proc'[q].pc \in {"allocate", "update", "announce"}
          => proc'[q].order \in accepted'
    BY DEF HandlerOK, SameWork, Growth
  <2>5. proc'[q].op = "refund" /\ proc'[q].pc \in {"update", "announce"} => Refunded(proc[q].order)'
    <3>1. proc'[q].op = "refund" /\ proc'[q].pc \in {"update", "announce"} => Refunded(proc[q].order)
      BY DEF HandlerOK, SameWork
    <3>2. Refunded(proc[q].order) => \E r \in recorded' : refund'[r].amount > 0
                                                          /\ refund'[r].order = proc[q].order
      BY <2>1, RefundedKept DEF Refunded
    <3>3. QED
      BY <3>1, <3>2 DEF SameWork, Refunded
  <2>6. proc'[q].op \in {"cancel", "refund"}
          /\ proc'[q].pc \in {"lock", "read", "release", "refund"} => proc'[q].amount > 0
    BY DEF HandlerOK, SameWork
  <2>7. QED
    BY <2>2, <2>3, <2>4, <2>5, <2>6 DEF HandlerOK
<1>3. QED
  BY <1>1, <1>2

LEMMA RowKept ==
  ASSUME TypeInv, Growth, NEW o \in Order, RowOK(o), row'[o] = row[o]
  PROVE  RowOK(o)'
<1>1. Owned(row[o].pi, o)'
  BY OwnedKept DEF RowOK, Owned, IntentOf
<1>2. row'[o].status = "REFUNDED" => Refunded(o)'
  BY RefundedKept DEF RowOK
<1>3. QED
  BY <1>1, <1>2 DEF RowOK, Growth

LEMMA PublishedKept ==
  ASSUME TypeInv, Growth, NEW o \in Order, PublishedOK(o), UNCHANGED published
  PROVE  PublishedOK(o)'
<1>1. <<o, "refund">> \in published' => Refunded(o)'
  BY RefundedKept DEF PublishedOK
<1>2. QED
  BY <1>1 DEF PublishedOK, Growth

LEMMA OffDuty ==
  ASSUME NEW p \in Proc, proc'[p].pc \in {"idle", "finally"}
  PROVE  HandlerOK(p)'
BY DEF HandlerOK, HoldsIntent

------------------------------------------------------------------------------
(* A step of one handler. *)

(* Handler p gets no number that it could not get before, nor does another. *)
NoNewNumbers == \A q \in Request, kind \in Numbered, t \in Try :
                  MayMake(q, kind, t)' => MayMake(q, kind, t)

LEMMA NumbersKept ==
  ASSUME TypeInv, NEW p \in Proc, \A q \in Proc \ {p} : proc'[q] = proc[q],
         requests' = requests, proc'[p].pc \notin Early,
         proc'[p].pc \in Numbered =>
           \/ proc[p].pc \in Early
           \/ proc'[p].pc = proc[p].pc /\ proc'[p].try >= proc[p].try,
         proc'[p].try \in Nat, proc[p].try \in Nat
  PROVE  NoNewNumbers
<1> SUFFICES ASSUME NEW q \in Request, NEW kind \in Numbered, NEW t \in Try,
                    MayMake(q, kind, t)'
             PROVE  MayMake(q, kind, t)
  BY DEF NoNewNumbers
<1>1. q \in Proc /\ t \in Nat
  BY OrderAssumption DEF OrderAssumption, Proc, Try
<1>2. CASE q = p
  BY <1>1, <1>2 DEF MayMake
<1>3. CASE q # p
  BY <1>1, <1>3 DEF MayMake
<1>4. QED
  BY <1>2, <1>3

LEMMA NumbersKeptOff ==
  ASSUME NEW p \in Proc, \A q \in Proc \ {p} : proc'[q] = proc[q], requests' = requests,
         proc'[p].pc \notin Early \cup Numbered
  PROVE  NoNewNumbers
<1> SUFFICES ASSUME NEW q \in Request, NEW kind \in Numbered, NEW t \in Try,
                    MayMake(q, kind, t)'
             PROVE  MayMake(q, kind, t)
  BY DEF NoNewNumbers
<1>1. q \in Proc
  BY DEF Proc
<1>2. QED
  BY <1>1 DEF MayMake

(* Reads before the calls. *)
LEMMA EarlyNumbersKept ==
  ASSUME NEW p \in Proc, \A q \in Proc \ {p} : proc'[q] = proc[q], requests' = requests,
         proc[p].pc \in Early
  PROVE  NoNewNumbers
<1> SUFFICES ASSUME NEW q \in Request, NEW kind \in Numbered, NEW t \in Try,
                    MayMake(q, kind, t)'
             PROVE  MayMake(q, kind, t)
  BY DEF NoNewNumbers
<1>1. q \in Proc
  BY DEF Proc
<1>2. QED
  BY <1>1 DEF MayMake

(* A step that calls nobody: it keeps the invariant if it does for the     *)
(* handler itself, for its order's row and events, and for the refunds it  *)
(* records.                                                                *)
LEMMA QuietStep ==
  ASSUME TypeInv, MoneyInv, NEW p \in Proc, \A q \in Proc \ {p} : proc'[q] = proc[q],
         UNCHANGED <<intent, refund, accepted, late>>, recorded \subseteq recorded',
         NoNewNumbers, HandlerOK(p)', Arrived',
         \A o \in Order : RowOK(o)' /\ PublishedOK(o)',
         \A r \in recorded' : refund[r].amount > 0
  PROVE  MoneyInv'
<1>1. Grows(0)
  BY NothingGrows
<1>2. Growth
  BY <1>1 DEF Grows
<1>3. \A q \in Proc : HandlerOK(q)'
  <2>1. ASSUME NEW q \in Proc \ {p} PROVE HandlerOK(q)'
    BY <1>2, HandlerKept DEF MoneyInv, SameWork
  <2>2. QED
    BY <2>1
<1>4. Fresh'
  BY DEF Fresh, NoNewNumbers, Untouched, MoneyInv
<1>5. /\ Distinct'
      /\ \A c \in late : CallOK(c)'
      /\ \A r \in CallId : RefundOK(r)'
      /\ \A r \in recorded' : refund'[r].amount > 0
  BY DEF Distinct, CallOK, RefundOK, Untouched, Owned, IntentOf, MoneyInv
<1>6. QED
  BY <1>3, <1>4, <1>5 DEF MoneyInv

LEMMA LocalStep ==
  ASSUME TypeInv, MoneyInv, NEW p \in Proc, \A q \in Proc \ {p} : proc'[q] = proc[q],
         UNCHANGED <<intent, refund, accepted, late>>, recorded \subseteq recorded',
         NoNewNumbers, HandlerOK(p)', requests' = requests, p \in Request /\ Active(p)' => Active(p),
         \A o \in Order : RowOK(o)' /\ PublishedOK(o)',
         \A r \in recorded' : refund[r].amount > 0
  PROVE  MoneyInv'
<1>1. Arrived'
  BY DEF Arrived, Active, MoneyInv, Proc
<1>2. QED
  BY <1>1, QuietStep

(* A step that calls nobody and leaves the rows and the events alone.      *)
LEMMA KeptRows ==
  ASSUME TypeInv, MoneyInv, UNCHANGED <<intent, refund, row, published>>,
         accepted \subseteq accepted', recorded \subseteq recorded'
  PROVE  \A o \in Order : RowOK(o)' /\ PublishedOK(o)'
<1>1. Growth
  BY NothingGrows DEF Grows
<1>2. QED
  BY <1>1, RowKept, PublishedKept DEF MoneyInv

(* A handler only leaves a locked section, ends or dies.                   *)
LEMMA LeavingStep ==
  ASSUME TypeInv, MoneyInv, NEW p \in Proc,
         Unwind(p) \/ proc' = [proc EXCEPT ![p] = Idle],
         Active(p), UNCHANGED <<services, late, row, recorded, published, requests>>
  PROVE  MoneyInv'
<1>1. proc'[p].pc \in {"idle", "finally"} /\ \A q \in Proc \ {p} : proc'[q] = proc[q]
  BY Leaves
<1>2. UNCHANGED <<intent, refund, accepted, late, row, recorded, published, requests>>
  BY DEF services
<1>3. NoNewNumbers
  BY <1>1, <1>2, NumbersKeptOff DEF Early, Numbered
<1>4. HandlerOK(p)'
  BY <1>1, OffDuty
<1>5. \A o \in Order : RowOK(o)' /\ PublishedOK(o)'
  BY <1>2, KeptRows
<1>6. \A n \in recorded' : refund[n].amount > 0
  BY <1>2 DEF MoneyInv
<1>7. QED
  BY <1>1, <1>2, <1>3, <1>4, <1>5, <1>6, LocalStep

------------------------------------------------------------------------------
(* Awaited calls. *)

LEMMA AttemptOK ==
  ASSUME TypeInv, MoneyInv, NEW p \in Proc, proc[p].pc \in TicketCall \cup PaymentCall,
         proc[p].op # "expire" \/ proc[p].pc \notin {"intent", "refund"},
         proc[p].pc = "refund" => proc[p].op \in {"cancel", "refund"}
  PROVE  /\ CallOK(Attempt(p)) /\ Attempt(p) \in CallType
         /\ proc[p].pc \in Numbered => /\ p \in Request /\ proc[p].try \in Try
                                       /\ Attempt(p).id = <<p, proc[p].try>>
                                       /\ \A c \in late : c.kind = proc[p].pc
                                                           => c.id # <<p, proc[p].try>>
<1>1. Attempt(p) \in CallType /\ proc[p].try \in Try /\ proc[p].try \in Nat
  <2>1. Active(p) /\ Attempt(p) \in CallType
    BY AttemptTyped
  <2>2. proc[p].try \in Try
    BY <2>1, HasOrder DEF ProcType
  <2>3. QED
    BY <2>1, <2>2, OrderAssumption DEF OrderAssumption, Try
<1>2. CASE proc[p].pc \in Numbered
  <2>1. /\ p \in Request /\ <<p, proc[p].try>> \in CallId
        /\ Attempt(p).id = <<p, proc[p].try>> /\ Attempt(p).kind = proc[p].pc
    BY <1>2, AttemptTyped DEF Attempt, Numbered
  <2>2. MayMake(p, proc[p].pc, proc[p].try)
    BY <1>1 DEF MayMake
  <2>3. /\ Untouched(proc[p].pc, <<p, proc[p].try>>)
        /\ \A c \in late : c.kind = proc[p].pc => c.id # <<p, proc[p].try>>
    BY <1>1, <1>2, <2>1, <2>2 DEF MoneyInv, Fresh
  <2>4. proc[p].pc = "refund" => /\ Attempt(p).amount > 0
                                 /\ Owned(Attempt(p).pi, Attempt(p).order)
    BY DEF Attempt, PaymentCall, MoneyInv, HandlerOK, HoldsIntent
  <2>5. QED
    BY <1>1, <2>1, <2>3, <2>4 DEF CallOK
<1>3. CASE proc[p].pc \notin Numbered
  BY <1>1, <1>3 DEF CallOK, Attempt, Numbered
<1>4. QED
  BY <1>2, <1>3

(* After a call of kind at step pc, a handler is where its next number is  *)
(* still free.                                                             *)
Onward(p, next) == /\ next \notin Early
                   /\ next \in Numbered => proc[p].pc \in Early
                   /\ proc[p].op = "expire" => /\ proc[p].pc \in {"release", "void"}
                                               /\ next \in {"void", "update"}

LEMMA AwaitMoney ==
  ASSUME TypeInv, TypeInv', MoneyInv, NEW p \in Proc,
         proc[p].pc \in TicketCall \cup PaymentCall,
         proc[p].op # "expire" \/ proc[p].pc \notin {"intent", "refund"},
         proc[p].pc = "refund" => proc[p].op \in {"cancel", "refund"},
         NEW next \in Step, NEW pi, Onward(p, next), Await(p, next, pi),
         Answered(p, next, pi) /\ Growth => HandlerOK(p)'
  PROVE  MoneyInv'
<1> DEFINE a == Attempt(p)
<1>1. /\ CallOK(a) /\ a \in CallType /\ a.kind = proc[p].pc /\ a.order = proc[p].order
      /\ proc[p].pc \in Numbered => /\ p \in Request /\ a.id = <<p, proc[p].try>>
                                    /\ \A c \in late : c.kind = proc[p].pc => c.id # a.id
      /\ Active(p) /\ proc[p].try \in Nat /\ proc[p].try \in Try /\ Try \subseteq Nat
      /\ p \in Proc
  BY AttemptOK, AttemptTyped, HasOrder, OrderAssumption
     DEF OrderAssumption, Attempt, ProcType, Try
<1>2. UNCHANGED <<row, recorded, published, requests>>
  BY DEF Await, database
<1>3. Effect(a) \/ UNCHANGED services
  BY DEF Await, Answered, Refused, TimedOut
<1>4. Grows(a) /\ Growth
  BY <1>1, <1>2, <1>3, EffectGrows DEF Grows
<1>5. \A q \in Proc \ {p} : proc'[q] = proc[q]
  BY DEF Await, Answered, Refused, TimedOut, Thrown, Goto, Unwind, Finish, TypeInv, TypeOK
<1>6. /\ proc \in [Proc -> ProcType] /\ proc[p] \in ProcType /\ proc'[p].try \in Nat
      /\ Early \cap Numbered = {} /\ {"idle", "finally", "update"} \cap (Early \cup Numbered) = {}
  BY <1>1 DEF TypeInv, TypeOK, Early, Numbered, ProcType
<1>7. \/ Unwind(p)
      \/ proc'[p].pc = next
      \/ proc'[p].pc = proc[p].pc /\ proc'[p].try = proc[p].try + 1
  <2>1. CASE Thrown(p, next)
    BY <1>6, <2>1 DEF Thrown, Goto, ProcType
  <2>2. CASE Answered(p, next, pi)
    BY <1>6, <2>2 DEF Answered, ProcType
  <2>3. CASE proc' = [proc EXCEPT ![p].try = @ + 1]
    BY <1>6, <2>3 DEF ProcType
  <2>4. QED
    BY <2>1, <2>2, <2>3 DEF Await, Refused, TimedOut
<1>8. Unwind(p) => proc'[p].pc \in {"idle", "finally"}
  BY Leaves
<1>9. NoNewNumbers
  <2>1. CASE proc[p].pc \in Early
    BY <1>2, <1>5, <2>1, EarlyNumbersKept
  <2>2. CASE proc[p].pc \notin Early
    <3>1. CASE Unwind(p) \/ proc'[p].pc = next
      BY <1>2, <1>5, <1>6, <1>8, <2>2, <3>1, NumbersKeptOff DEF Onward
    <3>2. CASE proc'[p].pc = proc[p].pc /\ proc'[p].try = proc[p].try + 1
      BY <1>1, <1>2, <1>5, <1>6, <2>2, <3>2, NumbersKept
    <3>3. QED
      BY <1>7, <3>1, <3>2
  <2>3. QED
    BY <2>1, <2>2
<1>10. ASSUME NEW kind \in Numbered, NEW t \in Try, proc[p].pc = kind, proc[p].try = t
       PROVE  ~MayMake(p, kind, t)'
  <2>1. ~(p > requests') /\ p \in Request
    BY <1>1, <1>2, <1>10, OrderAssumption DEF OrderAssumption, MoneyInv, Arrived, Request, TypeInv, TypeOK
  <2>2. proc[p].pc \notin Early
    BY <1>6, <1>10
  <2>3. CASE Unwind(p) \/ proc'[p].pc = next
    BY <1>6, <1>8, <1>10, <2>1, <2>2, <2>3 DEF Onward, MayMake
  <2>4. CASE proc'[p].pc = proc[p].pc /\ proc'[p].try = proc[p].try + 1
    BY <1>1, <1>10, <2>1, <2>2, <2>4 DEF MayMake
  <2>5. QED
    BY <1>7, <2>3, <2>4
<1>11. late' = late \/ (late' = late \cup {a} /\ UNCHANGED services)
  <2>1. CASE Answered(p, next, pi)
    BY <2>1 DEF Answered
  <2>2. CASE Refused(p, next)
    BY <2>2 DEF Refused
  <2>3. CASE TimedOut(p, next)
    BY <2>3 DEF TimedOut
  <2>4. QED
    BY <2>1, <2>2, <2>3 DEF Await
<1>12. Fresh'
  <2> SUFFICES ASSUME NEW q \in Request, NEW t \in Try, NEW kind \in Numbered,
                      MayMake(q, kind, t)'
               PROVE  /\ Untouched(kind, <<q, t>>)'
                      /\ \A c \in late' : c.kind = kind => c.id # <<q, t>>
    BY DEF Fresh
  <2>1. /\ Untouched(kind, <<q, t>>) /\ <<q, t>> \in CallId
        /\ \A c \in late : c.kind = kind => c.id # <<q, t>>
    BY <1>9 DEF NoNewNumbers, MoneyInv, Fresh, CallId
  <2>2. a.kind = kind => a.id # <<q, t>>
    BY <1>1, <1>10
  <2>3. QED
    BY <1>4, <1>11, <2>1, <2>2 DEF Grows, NoOtherTouched
<1>13. Distinct'
  BY <1>1, <1>11 DEF MoneyInv, Distinct
<1>14. \A c \in late' : CallOK(c)'
  <2>1. CASE late' = late
    <3> SUFFICES ASSUME NEW c \in late PROVE CallOK(c)'
      BY <2>1
    <3>1. c \in CallType /\ CallOK(c) /\ c.order \in Order
      BY DEF TypeInv, TypeOK, MoneyInv, CallType
    <3>2. c.kind \in Numbered => c.id \in CallId /\ Untouched(c.kind, c.id)'
      BY <1>1, <1>4, <3>1 DEF CallOK, Grows, NoOtherTouched
    <3>3. c.kind = "refund" => c.amount > 0 /\ Owned(c.pi, c.order)'
      BY <1>4, <3>1, OwnedKept DEF CallOK, Owned, IntentOf
    <3>4. QED
      BY <3>2, <3>3 DEF CallOK
  <2>2. CASE late' = late \cup {a} /\ UNCHANGED services
    BY <1>1, <2>2 DEF CallOK, Untouched, Owned, IntentOf, services, MoneyInv
  <2>3. QED
    BY <1>11, <2>1, <2>2
<1>15. HandlerOK(p)'
  <2>1. CASE Answered(p, next, pi)
    BY <1>4, <2>1
  <2>2. CASE Unwind(p)
    BY <1>8, <2>2, OffDuty
  <2>3. CASE proc[p].op = "expire" /\ Goto(p, next)
    <3>1. /\ proc'[p].op = "expire" /\ proc'[p].pc = next
          /\ proc'[p].pi = proc[p].pi /\ proc'[p].order = proc[p].order
      BY <1>6, <2>3 DEF Goto, ProcType
    <3>2. Owned(proc[p].pi, proc[p].order)
      BY <2>3 DEF MoneyInv, HandlerOK, HoldsIntent, Onward
    <3>3. Owned(proc[p].pi, proc[p].order)'
      <4>1. proc[p].order \in Order
        BY <1>1, HasOrder
      <4>2. QED
        BY <1>4, <3>1, <3>2, <4>1, OwnedKept DEF Owned, IntentOf
    <3>4. QED
      BY <2>3, <3>1, <3>3 DEF HandlerOK, HoldsIntent, Onward
  <2>4. CASE proc' = [proc EXCEPT ![p].try = @ + 1]
    <3>1. SameWork(p)
      BY <1>6, <2>4 DEF SameWork, ProcType
    <3>2. QED
      BY <1>4, <3>1, HandlerKept DEF MoneyInv
  <2>5. QED
    BY <2>1, <2>2, <2>3, <2>4 DEF Await, Refused, TimedOut, Thrown
<1>16. \A q \in Proc : HandlerOK(q)'
  <2>1. ASSUME NEW q \in Proc \ {p} PROVE HandlerOK(q)'
    BY <1>4, <1>5, HandlerKept DEF MoneyInv, SameWork
  <2>2. QED
    BY <1>15, <2>1
<1>17. \A o \in Order : RowOK(o)' /\ PublishedOK(o)'
  BY <1>2, <1>4, RowKept, PublishedKept DEF MoneyInv
<1>18. Arrived'
  BY <1>1, <1>2, <1>5 DEF Arrived, Active, MoneyInv, Proc
<1>19. /\ \A r \in CallId : RefundOK(r)'
       /\ \A r \in recorded' : refund'[r].amount > 0
  BY <1>2, <1>4 DEF Grows, Growth, MoneyInv, TypeInv, TypeOK
<1>20. QED
  BY <1>12, <1>13, <1>14, <1>16, <1>17, <1>18, <1>19 DEF MoneyInv

------------------------------------------------------------------------------
(* The steps that call nobody. *)

LEMMA CreateMoney ==
  ASSUME TypeInv, MoneyInv, NEW p \in Proc, CreateOrder(p)
  PROVE  MoneyInv'
<1>1. /\ UNCHANGED <<intent, refund, accepted, late, recorded, published, requests>>
      /\ Active(p) /\ proc[p].order \in Order /\ proc[p] \in ProcType /\ proc \in [Proc -> ProcType]
      /\ proc[p].op = "create" /\ proc[p].pc \in Early
  BY HasOrder DEF CreateOrder, InsertOrder, InsertItems, At, Active, services, Early, TypeInv, TypeOK
<1>2. Unwind(p) \/ Goto(p, "items")
  BY DEF CreateOrder, InsertOrder, InsertItems
<1>3. /\ \A q \in Proc \ {p} : proc'[q] = proc[q]
      /\ proc'[p].pc \in {"idle", "finally"} \/ (proc'[p].pc = "items" /\ proc'[p].op = "create")
  BY <1>1, <1>2, Leaves DEF Goto, ProcType
<1>4. HandlerOK(p)'
  BY <1>3, OffDuty DEF HandlerOK, HoldsIntent
<1>5. NoNewNumbers
  BY <1>1, <1>3, EarlyNumbersKept
<1>6. \A o \in Order : row'[o] = row[o] \/ (row'[o].pi = row[o].pi /\ row'[o].status = "PENDING")
  <2>1. row \in [Order -> RowType]
    BY DEF TypeInv, TypeOK
  <2>2. CASE UNCHANGED row
    BY <2>2
  <2>3. CASE row' = [row EXCEPT ![proc[p].order].status = "PENDING"]
    BY <1>1, <2>1, <2>3 DEF RowType
  <2>4. QED
    BY <2>2, <2>3 DEF CreateOrder, InsertOrder, InsertItems
<1>7. ASSUME NEW o \in Order
      PROVE  RowOK(o)' /\ PublishedOK(o)'
  <2>1. RowOK(o) /\ PublishedOK(o)
    BY DEF MoneyInv
  <2>2. (Refunded(o)' <=> Refunded(o)) /\ \A i : Owned(i, o)' <=> Owned(i, o)
    BY <1>1 DEF Refunded, Owned, IntentOf
  <2>3. RowOK(o)'
    BY <1>1, <1>6, <2>1, <2>2 DEF RowOK
  <2>4. PublishedOK(o)'
    BY <1>1, <2>1, <2>2 DEF PublishedOK
  <2>5. QED
    BY <2>3, <2>4
<1>8. \A r \in recorded' : refund[r].amount > 0
  BY <1>1 DEF MoneyInv
<1>9. QED
  BY <1>1, <1>3, <1>4, <1>5, <1>7, <1>8, LocalStep

LEMMA ReadMoney ==
  ASSUME TypeInv, MoneyInv, NEW p \in Proc, NEW allowed, NEW pi,
         NEW next \in {"items", "capture", "release", "refund"},
         proc[p].op \in {"cancel", "refund", "expire"} => Owned(pi, proc[p].order),
         ReadOrder(p, allowed, pi, next)
  PROVE  MoneyInv'
<1>1. /\ UNCHANGED <<services, late, row, recorded, published, requests>>
      /\ Active(p) /\ proc[p].pc = "read" /\ proc \in [Proc -> ProcType] /\ proc[p] \in ProcType
  BY HasOrder DEF ReadOrder, Active, database, TypeInv, TypeOK
<1>2. CASE Unwind(p)
  BY <1>1, <1>2, LeavingStep
<1>3. CASE proc' = [proc EXCEPT ![p].pc = next, ![p].pi = pi, ![p].seen = row[proc[p].order].status]
  <2>1. /\ \A q \in Proc \ {p} : proc'[q] = proc[q]
        /\ proc'[p].pc = next /\ proc'[p].pi = pi /\ proc'[p].op = proc[p].op
        /\ proc'[p].order = proc[p].order /\ proc'[p].amount = proc[p].amount
    BY <1>1, <1>3 DEF ProcType
  <2>2. UNCHANGED <<intent, refund, accepted, late, row, recorded, published, requests>>
    BY <1>1 DEF services
  <2>3. HandlerOK(p)
    BY DEF MoneyInv
  <2>4. HandlerOK(p)'
    BY <1>1, <2>1, <2>2, <2>3 DEF HandlerOK, HoldsIntent, Owned, IntentOf
  <2>5. NoNewNumbers
    BY <1>1, <2>1, <2>2, EarlyNumbersKept DEF Early
  <2>6. \A o \in Order : RowOK(o)' /\ PublishedOK(o)'
    BY <2>2, KeptRows
  <2>7. \A r \in recorded' : refund[r].amount > 0
    BY <2>2 DEF MoneyInv
  <2>8. QED
    BY <1>1, <2>1, <2>2, <2>4, <2>5, <2>6, <2>7, LocalStep
<1>4. QED
  BY <1>2, <1>3 DEF ReadOrder

LEMMA FindMoney ==
  ASSUME TypeInv, MoneyInv, NEW p \in Proc, FindItems(p)
  PROVE  MoneyInv'
<1>1. /\ UNCHANGED <<intent, refund, accepted, late, row, recorded, published, requests>>
      /\ Active(p) /\ proc[p].pc = "items" /\ proc \in [Proc -> ProcType] /\ proc[p] \in ProcType
      /\ proc[p].op = "reserve"
  BY HasOrder DEF FindItems, At, Active, database, services, TypeInv, TypeOK
<1>2. /\ \A q \in Proc \ {p} : proc'[q] = proc[q]
      /\ proc'[p].pc = "hold" /\ proc'[p].op = "reserve"
  BY <1>1 DEF FindItems, ProcType
<1>3. HandlerOK(p)'
  BY <1>2 DEF HandlerOK, HoldsIntent
<1>4. NoNewNumbers
  BY <1>1, <1>2, EarlyNumbersKept DEF Early
<1>5. \A o \in Order : RowOK(o)' /\ PublishedOK(o)'
  BY <1>1, KeptRows
<1>6. \A r \in recorded' : refund[r].amount > 0
  BY <1>1 DEF MoneyInv
<1>7. QED
  BY <1>1, <1>2, <1>3, <1>4, <1>5, <1>6, LocalStep

(* The last write of an operation claims what its calls have earned.       *)
LEMMA UpdateMoney ==
  ASSUME TypeInv, MoneyInv, NEW p \in Proc, NEW status, NEW pi, NEW expires,
         pi # NoIntent => proc[p].op = "reserve" /\ pi = proc[p].pi,
         status = "CONFIRMED" => proc[p].op = "confirm",
         status = "REFUNDED" => proc[p].op = "refund",
         UpdateOrder(p, status, pi, expires)
  PROVE  MoneyInv'
<1> DEFINE o == proc[p].order
<1>1. /\ UNCHANGED <<intent, refund, accepted, late, recorded, published, requests>>
      /\ Active(p) /\ proc[p].pc = "update" /\ proc \in [Proc -> ProcType] /\ proc[p] \in ProcType
      /\ o \in Order /\ row \in [Order -> RowType] /\ HandlerOK(p)
  BY HasOrder DEF UpdateOrder, Active, services, TypeInv, TypeOK, MoneyInv
<1>2. /\ \A q \in Proc \ {p} : proc'[q] = proc[q]
      /\ \/ proc'[p].pc \in {"idle", "finally"}
         \/ /\ proc[p].op \in {"confirm", "refund"} /\ proc'[p].op = proc[p].op
            /\ proc'[p].pc = "announce" /\ proc'[p].order = proc[p].order
  <2>1. CASE Unwind(p)
    BY <2>1, Leaves
  <2>2. CASE proc[p].op \in {"confirm", "refund"} /\ Finish(p, "announce")
    BY <1>1, <2>2 DEF Finish, Idle
  <2>3. QED
    BY <2>1, <2>2 DEF UpdateOrder
<1>3. HandlerOK(p)'
  BY <1>1, <1>2, OffDuty DEF HandlerOK, HoldsIntent, Refunded
<1>4. NoNewNumbers
  BY <1>1, <1>2, NumbersKeptOff DEF Early, Numbered
<1>5. \A x \in Order \ {o} : row'[x] = row[x]
  BY <1>1 DEF UpdateOrder, Update
<1>6. row'[o] = row[o] \/ (/\ row'[o].status = status
                          /\ row'[o].pi = IF pi = NoIntent THEN row[o].pi ELSE pi)
  <2>1. CASE UNCHANGED row
    BY <2>1
  <2>2. CASE Update(o, status, pi, expires)
    <3>1. PICK e : row' = [row EXCEPT ![o] = [status  |-> status,
                                              pi      |-> IF pi = NoIntent THEN @.pi ELSE pi,
                                              expires |-> e]]
      BY <2>2 DEF Update
    <3>2. QED
      BY <1>1, <3>1
  <2>3. QED
    BY <2>1, <2>2 DEF UpdateOrder
<1>7. ASSUME NEW x \in Order, x = o PROVE RowOK(x)'
  <2>1. Owned(row[o].pi, o) /\ (pi # NoIntent => Owned(pi, o))
    BY <1>1 DEF MoneyInv, RowOK, HandlerOK, HoldsIntent
  <2>2. Owned(row'[o].pi, o)
    BY <1>6, <2>1 DEF MoneyInv, RowOK
  <2>3. row'[o].status = "CONFIRMED" => o \in accepted
    BY <1>1, <1>6 DEF MoneyInv, RowOK, HandlerOK
  <2>4. row'[o].status = "REFUNDED" => Refunded(o)
    BY <1>1, <1>6 DEF MoneyInv, RowOK, HandlerOK
  <2>5. QED
    BY <1>1, <1>7, <2>2, <2>3, <2>4 DEF RowOK, Owned, IntentOf, Refunded
<1>8. \A x \in Order : RowOK(x)' /\ PublishedOK(x)'
  <2>1. \A x \in Order \ {o} : RowOK(x)'
    BY <1>1, <1>5 DEF RowOK, Owned, IntentOf, Refunded, MoneyInv
  <2>2. \A x \in Order : PublishedOK(x)'
    BY <1>1 DEF PublishedOK, Refunded, MoneyInv
  <2>3. QED
    BY <1>7, <2>1, <2>2
<1>9. \A r \in recorded' : refund[r].amount > 0
  BY <1>1 DEF MoneyInv
<1>10. QED
  BY <1>1, <1>2, <1>3, <1>4, <1>8, <1>9, LocalStep

LEMMA AnnounceMoney ==
  ASSUME TypeInv, MoneyInv, NEW p \in Proc, Announce(p)
  PROVE  MoneyInv'
<1>1. /\ UNCHANGED <<intent, refund, accepted, late, row, recorded, requests>>
      /\ Active(p) /\ proc[p].pc = "announce" /\ HandlerOK(p)
  BY DEF Announce, Active, services, MoneyInv
<1>2. proc'[p].pc \in {"idle", "finally"} /\ \A q \in Proc \ {p} : proc'[q] = proc[q]
  BY Leaves DEF Announce
<1>3. HandlerOK(p)'
  BY <1>2, OffDuty
<1>4. NoNewNumbers
  BY <1>1, <1>2, NumbersKeptOff DEF Early, Numbered
<1>5. \A o \in Order : RowOK(o)'
  BY <1>1 DEF RowOK, Owned, IntentOf, Refunded, MoneyInv
<1>6. \A o \in Order : PublishedOK(o)'
  <2>1. published' = published \/ published' = published \cup {<<proc[p].order, proc[p].op>>}
    BY DEF Announce
  <2> SUFFICES ASSUME NEW o \in Order PROVE PublishedOK(o)'
    OBVIOUS
  <2>2. PublishedOK(o)
    BY DEF MoneyInv
  <2>3. <<o, "confirm">> \in published' => o \in accepted
    <3>1. proc[p].op = "confirm" => proc[p].order \in accepted
      BY <1>1 DEF HandlerOK
    <3>2. QED
      BY <2>1, <2>2, <3>1 DEF PublishedOK
  <2>4. <<o, "refund">> \in published' => Refunded(o)
    <3>1. proc[p].op = "refund" => Refunded(proc[p].order)
      BY <1>1 DEF HandlerOK
    <3>2. QED
      BY <2>1, <2>2, <3>1 DEF PublishedOK
  <2>5. QED
    BY <1>1, <2>3, <2>4 DEF PublishedOK, Refunded
<1>7. \A r \in recorded' : refund[r].amount > 0
  BY <1>1 DEF MoneyInv
<1>8. QED
  BY <1>1, <1>2, <1>3, <1>4, <1>5, <1>6, <1>7, LocalStep

LEMMA LockMoney ==
  ASSUME TypeInv, MoneyInv, NEW p \in Proc, AcquireLock(p) \/ LockRefused(p) \/ ReleaseLock(p)
  PROVE  MoneyInv'
<1>1. /\ UNCHANGED <<services, late, row, recorded, published, requests>>
      /\ Active(p) /\ proc \in [Proc -> ProcType] /\ proc[p] \in ProcType
  BY HasOrder DEF AcquireLock, LockRefused, ReleaseLock, Active, database, TypeInv, TypeOK
<1>2. CASE LockRefused(p) \/ ReleaseLock(p)
  BY <1>1, <1>2, LeavingStep DEF LockRefused, ReleaseLock
<1>3. CASE AcquireLock(p)
  <2>1. /\ \A q \in Proc \ {p} : proc'[q] = proc[q]
        /\ proc'[p].pc = "read" /\ proc'[p].op = proc[p].op /\ proc[p].pc = "lock"
        /\ proc'[p].order = proc[p].order /\ proc'[p].amount = proc[p].amount
    BY <1>1, <1>3 DEF AcquireLock, Goto, ProcType
  <2>2. UNCHANGED <<intent, refund, accepted, late, row, recorded, published, requests>>
    BY <1>1 DEF services
  <2>3. HandlerOK(p)'
    BY <2>1, <2>2 DEF HandlerOK, HoldsIntent, MoneyInv
  <2>4. NoNewNumbers
    BY <2>1, <2>2, EarlyNumbersKept DEF Early
  <2>5. \A o \in Order : RowOK(o)' /\ PublishedOK(o)'
    BY <2>2, KeptRows
  <2>6. \A r \in recorded' : refund[r].amount > 0
    BY <2>2 DEF MoneyInv
  <2>7. QED
    BY <1>1, <2>1, <2>2, <2>3, <2>4, <2>5, <2>6, LocalStep
<1>4. QED
  BY <1>2, <1>3

LEMMA RecordMoney ==
  ASSUME TypeInv, MoneyInv, NEW p \in Proc, proc[p].op \in {"cancel", "refund"}, RecordRefund(p)
  PROVE  MoneyInv'
<1>1. /\ UNCHANGED <<intent, refund, accepted, late, row, published, requests>>
      /\ Active(p) /\ proc[p].pc = "record" /\ proc \in [Proc -> ProcType] /\ proc[p] \in ProcType
      /\ HandlerOK(p) /\ proc[p].pi \in CallId
  BY HasOrder DEF RecordRefund, Active, services, TypeInv, TypeOK, MoneyInv, InRole
<1>2. /\ \A q \in Proc \ {p} : proc'[q] = proc[q]
      /\ \/ proc'[p].pc \in {"idle", "finally"}
         \/ /\ proc'[p].pc = "update" /\ proc'[p].op = proc[p].op
            /\ proc'[p].order = proc[p].order /\ recorded' = recorded \cup {proc[p].pi}
  <2>1. CASE Unwind(p)
    BY <2>1, Leaves
  <2>2. CASE Goto(p, "update") /\ recorded' = recorded \cup {proc[p].pi}
    BY <1>1, <2>2 DEF Goto, ProcType
  <2>3. QED
    BY <2>1, <2>2 DEF RecordRefund
<1>3. recorded' = recorded \/ recorded' = recorded \cup {proc[p].pi}
  BY DEF RecordRefund
<1>4. refund[proc[p].pi].amount > 0 /\ refund[proc[p].pi].order = proc[p].order
  BY <1>1 DEF HandlerOK
<1>5. HandlerOK(p)'
  BY <1>1, <1>2, <1>4, OffDuty DEF HandlerOK, HoldsIntent, Refunded
<1>6. NoNewNumbers
  BY <1>1, <1>2, NumbersKeptOff DEF Early, Numbered
<1>7. \A o \in Order : RowOK(o)' /\ PublishedOK(o)'
  BY <1>1, <1>3, KeptRows
<1>8. \A r \in recorded' : refund[r].amount > 0
  BY <1>3, <1>4 DEF MoneyInv
<1>9. QED
  BY <1>1, <1>2, <1>3, <1>5, <1>6, <1>7, <1>8, LocalStep

------------------------------------------------------------------------------
(* The operations. *)

LEMMA ReserveTicketsMoney ==
  ASSUME TypeInv, TypeInv', MoneyInv, NEW p \in Proc, ReserveTickets(p)
  PROVE  MoneyInv'
<1>1. /\ proc[p].op = "reserve" /\ proc[p].pc = "hold" /\ Active(p)
      /\ Await(p, "intent", NoIntent)
  BY DEF ReserveTickets, At, Active
<1>2. Answered(p, "intent", NoIntent) => HandlerOK(p)'
  BY <1>1, AnsweredAt DEF HandlerOK, HoldsIntent
<1>3. Onward(p, "intent") /\ "intent" \in Step /\ proc[p].pc \in TicketCall \cup PaymentCall
  BY <1>1 DEF Onward, Early, Step, TicketCall
<1>4. QED
  BY <1>1, <1>2, <1>3, AwaitMoney

(* The intent a reservation holds is the one it asked for. *)
LEMMA CreatePaymentMoney ==
  ASSUME TypeInv, TypeInv', MoneyInv, NEW p \in Proc, CreatePaymentIntent(p)
  PROVE  MoneyInv'
<1>1. /\ proc[p].op = "reserve" /\ proc[p].pc = "intent" /\ Active(p)
      /\ proc[p].pc \in TicketCall \cup PaymentCall
  BY DEF CreatePaymentIntent, At, Active, PaymentCall
<1>2. PICK pi \in {NoIntent, <<p, proc[p].try>>} : Await(p, "update", pi)
  BY DEF CreatePaymentIntent
<1>3. Answered(p, "update", pi) => HandlerOK(p)'
  <2> HAVE Answered(p, "update", pi)
  <2>1. /\ proc'[p].op = "reserve" /\ proc'[p].pc = "update" /\ proc'[p].pi = pi
        /\ proc'[p].order = proc[p].order
    BY <1>1, AnsweredAt
  <2>2. /\ <<p, proc[p].try>> \in CallId /\ intent \in [CallId -> IntentType]
    BY <1>1, AttemptTyped DEF TypeInv, TypeOK
  <2>3. IntentCreate(<<p, proc[p].try>>, proc[p].order)
    BY <1>1 DEF Answered, Effect, TicketEffect, PaymentEffect, TicketCall, Attempt
  <2>4. /\ intent'[<<p, proc[p].try>>].order = proc[p].order
        /\ intent'[<<p, proc[p].try>>].state = "open"
    BY <2>2, <2>3 DEF IntentCreate
  <2>5. QED
    BY <2>1, <2>2, <2>4 DEF HandlerOK, HoldsIntent, Owned, IntentOf
<1>4. Onward(p, "update") /\ "update" \in Step
  BY <1>1 DEF Onward, Early, Numbered, Step
<1>5. QED
  BY <1>1, <1>2, <1>3, <1>4, AwaitMoney

LEMMA ConfirmPaymentMoney ==
  ASSUME TypeInv, TypeInv', MoneyInv, NEW p \in Proc, ConfirmPayment(p)
  PROVE  MoneyInv'
<1>1. /\ proc[p].op = "confirm" /\ proc[p].pc = "capture" /\ Active(p)
      /\ proc[p].pc \in TicketCall \cup PaymentCall /\ Await(p, "allocate", proc[p].pi)
  BY DEF ConfirmPayment, At, Active, PaymentCall
<1>2. Answered(p, "allocate", proc[p].pi) => HandlerOK(p)'
  <2> HAVE Answered(p, "allocate", proc[p].pi)
  <2>1. /\ proc'[p].op = "confirm" /\ proc'[p].pc = "allocate" /\ proc'[p].order = proc[p].order
    BY <1>1, AnsweredAt
  <2>2. IntentConfirm(proc[p].pi, proc[p].order)
    BY <1>1 DEF Answered, Effect, TicketEffect, PaymentEffect, TicketCall, PaymentCall, Attempt
  <2>3. proc[p].order \in accepted'
    BY <2>2 DEF IntentConfirm
  <2>4. QED
    BY <2>1, <2>3 DEF HandlerOK, HoldsIntent
<1>3. Onward(p, "allocate") /\ "allocate" \in Step
  BY <1>1 DEF Onward, Early, Numbered, Step
<1>4. QED
  BY <1>1, <1>2, <1>3, AwaitMoney

LEMMA AllocationMoney ==
  ASSUME TypeInv, TypeInv', MoneyInv, NEW p \in Proc, ConfirmAllocation(p)
  PROVE  MoneyInv'
<1>1. /\ proc[p].op = "confirm" /\ proc[p].pc = "allocate" /\ Active(p)
      /\ proc[p].pc \in TicketCall \cup PaymentCall /\ Await(p, "update", proc[p].pi)
  BY DEF ConfirmAllocation, At, Active, TicketCall
<1>2. Answered(p, "update", proc[p].pi) /\ Growth => HandlerOK(p)'
  <2> HAVE Answered(p, "update", proc[p].pi) /\ Growth
  <2>1. /\ proc'[p].op = "confirm" /\ proc'[p].pc = "update" /\ proc'[p].order = proc[p].order
    BY <1>1, AnsweredAt
  <2>2. proc[p].order \in accepted'
    BY <1>1 DEF MoneyInv, HandlerOK, Growth
  <2>3. QED
    BY <2>1, <2>2 DEF HandlerOK, HoldsIntent
<1>3. Onward(p, "update") /\ "update" \in Step
  BY <1>1 DEF Onward, Early, Numbered, Step
<1>4. QED
  BY <1>1, <1>2, <1>3, AwaitMoney

LEMMA InitiateRefundMoney ==
  ASSUME TypeInv, TypeInv', MoneyInv, NEW p \in Proc, proc[p].op \in {"cancel", "refund"},
         InitiateRefund(p)
  PROVE  MoneyInv'
<1>1. /\ proc[p].pc = "refund" /\ Active(p)
      /\ proc[p].pc \in TicketCall \cup PaymentCall /\ Await(p, "record", <<p, proc[p].try>>)
  BY DEF InitiateRefund, Active, PaymentCall
<1>2. Answered(p, "record", <<p, proc[p].try>>) /\ Growth => HandlerOK(p)'
  <2> HAVE Answered(p, "record", <<p, proc[p].try>>) /\ Growth
  <2> DEFINE c == Attempt(p)
  <2>1. /\ proc'[p].pc = "record" /\ proc'[p].order = proc[p].order
        /\ proc'[p].pi = <<p, proc[p].try>> /\ proc'[p].op = proc[p].op
    BY <1>1, AnsweredAt
  <2>2. c \in CallType /\ CallOK(c) /\ c.id = <<p, proc[p].try>>
    BY <1>1, AttemptOK DEF Numbered
  <2>3. c.kind = "refund" /\ c.order = proc[p].order
    BY <1>1 DEF Attempt
  <2>4. RefundCreate(c.id, c.order, c.pi, c.amount)
    BY <2>3 DEF Answered, Effect, TicketEffect, PaymentEffect, TicketCall
  <2>5. UNCHANGED recorded
    BY <1>1 DEF Await, database
  <2>6. refund'[c.id].amount > 0 /\ refund'[c.id].order = c.order
    BY <2>2, <2>3, <2>4, <2>5, RefundGrows
  <2>7. QED
    BY <2>1, <2>2, <2>3, <2>6 DEF HandlerOK, HoldsIntent
<1>3. Onward(p, "record") /\ "record" \in Step
  BY <1>1 DEF Onward, Early, Numbered, Step
<1>4. QED
  BY <1>1, <1>2, <1>3, AwaitMoney

(* A cancellation or an expiration goes on with the intent it read, which  *)
(* is the order's.                                                         *)
LEMMA GiveBackMoney ==
  ASSUME TypeInv, TypeInv', MoneyInv, NEW p \in Proc, proc[p].op \in {"cancel", "expire"},
         proc[p].pc \in {"release", "void"},
         NEW next \in {"refund", "void", "update"},
         proc[p].pc = "void" => next = "update", proc[p].op = "expire" => next # "refund",
         Await(p, next, proc[p].pi)
  PROVE  MoneyInv'
<1>1. Active(p) /\ proc[p].pc \in TicketCall \cup PaymentCall /\ proc[p].order \in Order
  BY HasOrder DEF Active, PaymentCall, TicketCall
<1>2. Answered(p, next, proc[p].pi) /\ Growth => HandlerOK(p)'
  <2> HAVE Answered(p, next, proc[p].pi) /\ Growth
  <2>1. /\ proc'[p].op = proc[p].op /\ proc'[p].pc = next /\ proc'[p].order = proc[p].order
        /\ proc'[p].pi = proc[p].pi /\ proc'[p].amount = proc[p].amount
    BY <1>1, AnsweredAt
  <2>2. /\ Owned(proc[p].pi, proc[p].order)
        /\ proc[p].op = "cancel" /\ proc[p].pc = "release" => proc[p].amount > 0
    BY DEF MoneyInv, HandlerOK, HoldsIntent
  <2>3. proc[p].pi = NoIntent \/ (/\ proc[p].pi \in CallId
                                  /\ intent'[proc[p].pi].order = proc[p].order
                                  /\ intent'[proc[p].pi].state # "none")
    BY <1>1, <2>2, OwnedKept
  <2>4. QED
    BY <2>1, <2>2, <2>3 DEF HandlerOK, HoldsIntent, Owned, IntentOf
<1>3. Onward(p, next) /\ next \in Step
  BY DEF Onward, Early, Numbered, Step
<1>4. QED
  BY <1>1, <1>2, <1>3, AwaitMoney

LEMMA HandleMoney ==
  ASSUME TypeInv, TypeInv', MoneyInv, NEW p \in Proc, Handle(p)
  PROVE  MoneyInv'
<1>1. Active(p) /\ proc[p].order \in Order => Owned(row[proc[p].order].pi, proc[p].order)
  BY DEF MoneyInv, RowOK
<1>2. CASE CreateOrder(p)
  BY <1>2, CreateMoney
<1>3. CASE ReserveOrder(p)
  <2>1. CASE At(p, "reserve", "read") /\ ReadOrder(p, {"PENDING"}, NoIntent, "items")
    BY <2>1, ReadMoney DEF At
  <2>2. CASE At(p, "reserve", "update") /\ UpdateOrder(p, "RESERVED", proc[p].pi, TRUE)
    BY <2>2, UpdateMoney DEF At
  <2>3. QED
    BY <1>3, <2>1, <2>2, FindMoney, ReserveTicketsMoney, CreatePaymentMoney DEF ReserveOrder
<1>4. CASE ConfirmOrder(p)
  <2>1. CASE At(p, "confirm", "read") /\ ReadOrder(p, {"RESERVED"}, proc[p].pi, "capture")
    BY <2>1, ReadMoney DEF At
  <2>2. CASE At(p, "confirm", "update") /\ UpdateOrder(p, "CONFIRMED", NoIntent, FALSE)
    BY <2>2, UpdateMoney DEF At
  <2>3. QED
    BY <1>4, <2>1, <2>2, ConfirmPaymentMoney, AllocationMoney DEF ConfirmOrder
<1>5. CASE CancelOrder(p)
  <2>1. CASE /\ At(p, "cancel", "read")
             /\ ReadOrder(p, {"PENDING", "RESERVED", "CONFIRMED"}, row[proc[p].order].pi, "release")
    <3>1. Owned(row[proc[p].order].pi, proc[p].order)
      BY <1>1, <2>1, HasOrder DEF At, Active
    <3>2. QED
      BY <2>1, <3>1, ReadMoney
  <2>2. CASE CancelReleaseTickets(p)
    <3>1. /\ proc[p].op = "cancel" /\ proc[p].pc = "release"
          /\ Await(p, AfterRelease(p), proc[p].pi)
      BY <2>2 DEF CancelReleaseTickets, At
    <3>2. AfterRelease(p) \in {"refund", "void", "update"}
      BY DEF AfterRelease
    <3>3. QED
      BY <3>1, <3>2, GiveBackMoney
  <2>3. CASE CancelPaymentIntent(p)
    BY <2>3, GiveBackMoney DEF CancelPaymentIntent, At
  <2>4. CASE At(p, "cancel", "refund") /\ InitiateRefund(p)
    BY <2>4, InitiateRefundMoney DEF At
  <2>5. CASE At(p, "cancel", "record") /\ RecordRefund(p)
    BY <2>5, RecordMoney DEF At
  <2>6. CASE At(p, "cancel", "update") /\ UpdateOrder(p, "CANCELLED", NoIntent, FALSE)
    BY <2>6, UpdateMoney DEF At
  <2>7. QED
    BY <1>5, <2>1, <2>2, <2>3, <2>4, <2>5, <2>6 DEF CancelOrder
<1>6. CASE RefundOrder(p)
  <2> DEFINE o == proc[p].order
  <2>1. CASE /\ At(p, "refund", "read")
             /\ ReadOrder(p, IF row[o].pi = NoIntent THEN {} ELSE {"CONFIRMED"}, row[o].pi, "refund")
    <3>1. Owned(row[o].pi, o)
      BY <1>1, <2>1, HasOrder DEF At, Active
    <3>2. QED
      BY <2>1, <3>1, ReadMoney
  <2>2. CASE At(p, "refund", "refund") /\ InitiateRefund(p)
    BY <2>2, InitiateRefundMoney DEF At
  <2>3. CASE At(p, "refund", "record") /\ RecordRefund(p)
    BY <2>3, RecordMoney DEF At
  <2>4. CASE At(p, "refund", "update") /\ UpdateOrder(p, "REFUNDED", NoIntent, row[o].expires)
    BY <2>4, UpdateMoney DEF At
  <2>5. QED
    BY <1>6, <2>1, <2>2, <2>3, <2>4 DEF RefundOrder
<1>7. CASE ExpireReservation(p)
  <2>1. CASE /\ At(p, "expire", "read")
             /\ ReadOrder(p, {"RESERVED"}, row[proc[p].order].pi, "release")
    <3>1. Owned(row[proc[p].order].pi, proc[p].order)
      BY <1>1, <2>1, HasOrder DEF At, Active
    <3>2. QED
      BY <2>1, <3>1, ReadMoney
  <2>2. CASE ExpireReleaseTickets(p)
    <3> DEFINE next == IF proc[p].pi = NoIntent THEN "update" ELSE "void"
    <3>1. proc[p].op = "expire" /\ proc[p].pc = "release" /\ Await(p, next, proc[p].pi)
      BY <2>2 DEF ExpireReleaseTickets, At
    <3>2. next \in {"void", "update"}
      OBVIOUS
    <3>3. QED
      BY <3>1, <3>2, GiveBackMoney
  <2>3. CASE ExpireCancelIntent(p)
    BY <2>3, GiveBackMoney DEF ExpireCancelIntent, At
  <2>4. CASE At(p, "expire", "update") /\ UpdateOrder(p, "EXPIRED", NoIntent, FALSE)
    BY <2>4, UpdateMoney DEF At
  <2>5. QED
    BY <1>7, <2>1, <2>2, <2>3, <2>4 DEF ExpireReservation
<1>8. QED
  BY <1>2, <1>3, <1>4, <1>5, <1>6, <1>7, AnnounceMoney, LockMoney DEF Handle

------------------------------------------------------------------------------
(* The environment. *)

(* A request gets a number that no call bears. *)
LEMMA ArriveMoney ==
  ASSUME TypeInv, MoneyInv, NEW op \in Operation \ {"expire"}, NEW o \in Order,
         NEW step \in {"insert", "read", "lock"}, NEW pi, NEW amount \in Nat,
         op \in {"cancel", "refund"} => amount > 0, Arrive(op, o, step, pi, amount)
  PROVE  MoneyInv'
<1> DEFINE n == requests + 1
<1>1. requests \in Nat /\ n \in Request /\ n \in Proc /\ MaxRequests \in Nat
  BY OrderAssumption DEF OrderAssumption, Arrive, TypeInv, TypeOK, Request, Proc
<1>2. /\ UNCHANGED <<intent, refund, accepted, late, row, recorded, published>>
      /\ requests' = n
  BY DEF Arrive, database, services
<1>3. /\ \A q \in Proc \ {n} : proc'[q] = proc[q]
      /\ proc'[n].op = op /\ proc'[n].pc = step /\ proc'[n].order = o
      /\ proc'[n].amount = amount
  BY <1>1 DEF Arrive, Idle, TypeInv, TypeOK
<1>4. \A q \in Request, kind \in Numbered, t \in Try : MayMake(q, kind, t)' => MayMake(q, kind, t)
  <2> SUFFICES ASSUME NEW q \in Request, NEW kind \in Numbered, NEW t \in Try,
                      MayMake(q, kind, t)'
               PROVE  MayMake(q, kind, t)
    OBVIOUS
  <2>1. q \in Proc /\ q \in Nat
    BY <1>1 DEF Proc, Request
  <2>2. CASE q = n
    BY <1>1, <2>2 DEF MayMake
  <2>3. CASE q # n
    BY <1>1, <1>2, <1>3, <2>1, <2>3 DEF MayMake
  <2>4. QED
    BY <2>2, <2>3
<1>5. Arrived'
  <2> SUFFICES ASSUME NEW q \in Request, Active(q)' PROVE q <= n
    BY <1>2 DEF Arrived
  <2>1. q \in Proc /\ q \in Nat
    BY <1>1 DEF Proc, Request
  <2>2. QED
    BY <1>1, <1>3, <2>1 DEF Active, MoneyInv, Arrived
<1>6. \A x \in Order : RowOK(x)' /\ PublishedOK(x)'
  BY <1>2, KeptRows
<1>7. \A r \in recorded' : refund[r].amount > 0
  BY <1>2 DEF MoneyInv
<1>8. ASSUME NEW p \in Proc, p = n PROVE MoneyInv'
  <2>1. HandlerOK(p)' /\ \A q \in Proc \ {p} : proc'[q] = proc[q]
    BY <1>2, <1>3, <1>8 DEF HandlerOK, HoldsIntent
  <2>2. QED
    BY <1>2, <1>4, <1>5, <1>6, <1>7, <2>1, QuietStep DEF NoNewNumbers
<1>9. QED
  BY <1>1, <1>8

LEMMA RequestMoney == ASSUME TypeInv, MoneyInv, ClientRequest PROVE MoneyInv'
<1>1. 0 \in Nat /\ Total \in Nat /\ Total > 0 /\ \A amount \in 1..Total : amount \in Nat /\ amount > 0
  BY OrderAssumption DEF OrderAssumption
<1>2. {"create", "reserve", "confirm", "cancel", "refund"} \subseteq Operation \ {"expire"}
  BY DEF Operation, LockKey
<1>3. CASE CreateRequest
  BY <1>1, <1>2, <1>3, ArriveMoney DEF CreateRequest
<1>4. CASE ReserveRequest
  BY <1>1, <1>2, <1>4, ArriveMoney DEF ReserveRequest
<1>5. CASE ConfirmRequest
  BY <1>1, <1>2, <1>5, ArriveMoney DEF ConfirmRequest
<1>6. CASE CancelRequest
  BY <1>1, <1>2, <1>6, ArriveMoney DEF CancelRequest
<1>7. CASE RefundRequest
  BY <1>1, <1>2, <1>7, ArriveMoney DEF RefundRequest
<1>8. QED
  BY <1>3, <1>4, <1>5, <1>6, <1>7 DEF ClientRequest

LEMMA JobMoney ==
  ASSUME TypeInv, MoneyInv, NEW w \in Worker, ExpireNext(w)
  PROVE  MoneyInv'
<1>1. w \in Proc /\ w \notin Request
  BY OrderAssumption DEF OrderAssumption, Proc, Request
<1>2. /\ UNCHANGED <<intent, refund, accepted, late, row, recorded, published, requests>>
      /\ \A q \in Proc \ {w} : proc'[q] = proc[q]
      /\ proc'[w].op = "expire" /\ proc'[w].pc = "read"
  BY <1>1 DEF ExpireNext, Idle, database, services, TypeInv, TypeOK
<1>3. HandlerOK(w)'
  BY <1>2 DEF HandlerOK, HoldsIntent
<1>4. NoNewNumbers
  BY <1>1, <1>2 DEF NoNewNumbers, MayMake, Proc
<1>5. \A o \in Order : RowOK(o)' /\ PublishedOK(o)'
  BY <1>2, KeptRows
<1>6. \A r \in recorded' : refund[r].amount > 0
  BY <1>2 DEF MoneyInv
<1>7. QED
  BY <1>1, <1>2, <1>3, <1>4, <1>5, <1>6, LocalStep

(* What a service does on its own, or with a call that comes late, is about *)
(* a number that no other call bears.                                      *)
LEMMA ServiceStep ==
  ASSUME TypeInv, MoneyInv, NEW c, Grows(c), late' \subseteq late,
         UNCHANGED <<row, recorded, published, proc, requests>>,
         c.kind \in Numbered =>
           /\ \A d \in late' : d.kind = c.kind => d.id # c.id
           /\ \A q \in Request, t \in Try : MayMake(q, c.kind, t) => c.id # <<q, t>>
  PROVE  MoneyInv'
<1>1. Growth
  BY DEF Grows
<1>2. Fresh'
  <2> SUFFICES ASSUME NEW q \in Request, NEW t \in Try, NEW kind \in Numbered,
                      MayMake(q, kind, t)'
               PROVE  /\ Untouched(kind, <<q, t>>)'
                      /\ \A d \in late' : d.kind = kind => d.id # <<q, t>>
    BY DEF Fresh
  <2>1. MayMake(q, kind, t) /\ <<q, t>> \in CallId
    BY DEF MayMake, CallId
  <2>2. /\ Untouched(kind, <<q, t>>)
        /\ \A d \in late : d.kind = kind => d.id # <<q, t>>
    BY <2>1 DEF MoneyInv, Fresh
  <2>3. QED
    BY <2>1, <2>2 DEF Grows, NoOtherTouched
<1>3. Distinct'
  BY DEF MoneyInv, Distinct
<1>4. ASSUME NEW d \in late' PROVE CallOK(d)'
  <2>1. d \in CallType /\ CallOK(d) /\ d.order \in Order
    BY DEF TypeInv, TypeOK, MoneyInv, CallType
  <2>2. d.kind \in Numbered => d.id \in CallId /\ Untouched(d.kind, d.id)'
    BY <1>4, <2>1 DEF CallOK, Grows, NoOtherTouched
  <2>3. d.kind = "refund" => d.amount > 0 /\ Owned(d.pi, d.order)'
    BY <1>1, <2>1, OwnedKept DEF CallOK, Owned, IntentOf
  <2>4. QED
    BY <2>2, <2>3 DEF CallOK
<1>5. \A q \in Proc : HandlerOK(q)'
  BY <1>1, HandlerKept DEF MoneyInv, SameWork
<1>6. \A o \in Order : RowOK(o)' /\ PublishedOK(o)'
  BY <1>1, RowKept, PublishedKept DEF MoneyInv
<1>7. /\ \A r \in CallId : RefundOK(r)'
      /\ \A r \in recorded' : refund'[r].amount > 0
  BY DEF Grows, Growth, MoneyInv, TypeInv, TypeOK
<1>8. Arrived'
  BY DEF Arrived, Active, MoneyInv
<1>9. QED
  BY <1>2, <1>3, <1>4, <1>5, <1>6, <1>7, <1>8 DEF MoneyInv

LEMMA LateMoney == ASSUME TypeInv, MoneyInv, NEW c \in late, LateCall(c) PROVE MoneyInv'
<1>1. /\ late' = late \ {c} /\ (Effect(c) \/ UNCHANGED services)
      /\ UNCHANGED <<row, recorded, published, proc, requests>>
  BY DEF LateCall, database
<1>2. c \in CallType /\ CallOK(c)
  BY DEF TypeInv, TypeOK, MoneyInv
<1>3. Grows(c)
  BY <1>1, <1>2, EffectGrows
<1>4. \A d \in late' : c.kind \in Numbered /\ d.kind = c.kind => d.id # c.id
  BY <1>1 DEF MoneyInv, Distinct
<1>5. c.kind \in Numbered =>
        \A q \in Request, t \in Try : MayMake(q, c.kind, t) => c.id # <<q, t>>
  BY DEF MoneyInv, Fresh
<1>6. QED
  BY <1>1, <1>3, <1>4, <1>5, ServiceStep

LEMMA SettlesMoney ==
  ASSUME TypeInv, MoneyInv, NEW i \in CallId, PaymentSettles(i)
  PROVE  MoneyInv'
<1> DEFINE c == [kind |-> "none"]
<1>1. /\ UNCHANGED <<row, recorded, published, proc, requests, late, refund, accepted>>
      /\ intent[i].state = "pending" /\ intent' = [intent EXCEPT ![i].state = "captured"]
  BY DEF PaymentSettles, database
<1>2. Grows(c)
  BY <1>1, StateGrows
<1>3. QED
  BY <1>1, <1>2, ServiceStep DEF Numbered

LEMMA MoneyKept ==
  ASSUME MoneyInv, UNCHANGED <<row, recorded, published, intent, refund, accepted,
                               late, proc, requests>>
  PROVE  MoneyInv'
<1>1. Fresh' /\ Distinct' /\ Arrived'
  BY DEF MoneyInv, Fresh, Distinct, Arrived, MayMake, Untouched, Active
<1>2. \A p \in Proc : HandlerOK(p)'
  BY DEF MoneyInv, HandlerOK, HoldsIntent, Owned, IntentOf, Refunded
<1>3. \A o \in Order : RowOK(o)' /\ PublishedOK(o)'
  BY DEF MoneyInv, RowOK, PublishedOK, Owned, IntentOf, Refunded
<1>4. QED
  BY <1>1, <1>2, <1>3 DEF MoneyInv, CallOK, RefundOK, Untouched, Owned, IntentOf

LEMMA StepKeepsMoney == ASSUME TypeInv, TypeInv', MoneyInv, [Next]_vars PROVE MoneyInv'
<1>1. ASSUME NEW p \in Proc, Crash(p) PROVE MoneyInv'
  <2>1. /\ proc' = [proc EXCEPT ![p] = Idle] /\ Active(p)
        /\ UNCHANGED <<services, late, row, recorded, published, requests>>
    BY <1>1 DEF Crash, database
  <2>2. QED
    BY <2>1, LeavingStep
<1>2. ASSUME NEW w \in Worker, RunExpirationJob(w) PROVE MoneyInv'
  BY <1>2, MoneyKept DEF RunExpirationJob, database, services
<1>3. ASSUME NEW o \in Order, ReservationTimesOut(o) PROVE MoneyInv'
  BY <1>3, MoneyKept DEF ReservationTimesOut, database, services
<1>4. ASSUME NEW o \in Order, NEW k \in LockKey, LockExpires(o, k) PROVE MoneyInv'
  BY <1>4, MoneyKept DEF LockExpires, database, services
<1>5. CASE UNCHANGED vars
  BY <1>5, MoneyKept DEF vars
<1>6. QED
  BY <1>1, <1>2, <1>3, <1>4, <1>5, HandleMoney, RequestMoney, JobMoney, LateMoney,
     SettlesMoney DEF Next

LEMMA InitMoney == ASSUME Init PROVE MoneyInv
<1>1. /\ late = {} /\ recorded = {} /\ published = {}
      /\ \A i \in CallId : intent[i].state = "none"
      /\ \A r \in CallId : refund[r].amount = 0
      /\ \A p \in Proc : proc[p] = Idle
      /\ \A o \in Order : row[o].pi = NoIntent /\ row[o].status \in {"PENDING", Absent}
  BY DEF Init
<1>2. Fresh
  BY <1>1 DEF Fresh, Untouched, CallId
<1>3. Distinct /\ Arrived
  BY <1>1 DEF Distinct, Arrived, Active, Idle, Proc
<1>4. \A p \in Proc : HandlerOK(p)
  BY <1>1 DEF HandlerOK, HoldsIntent, Idle
<1>5. \A o \in Order : RowOK(o) /\ PublishedOK(o)
  BY <1>1 DEF RowOK, PublishedOK, Owned, Absent
<1>6. QED
  BY <1>1, <1>2, <1>3, <1>4, <1>5 DEF MoneyInv, RefundOK

LEMMA MoneyInvariant == Spec => [](TypeInv /\ MoneyInv)
<1>1. Init => TypeInv /\ MoneyInv
  BY InitTyped, InitMoney
<1>2. TypeInv /\ MoneyInv /\ [Next]_vars => (TypeInv /\ MoneyInv)'
  BY StepPreservesTypes, StepKeepsMoney
<1>3. QED
  BY <1>1, <1>2, PTL DEF Spec

(* However the handlers interleave, fail, repeat their calls and die, an   *)
(* order is CONFIRMED, and the event says so, only after the gateway       *)
(* accepted a confirmation for it, and REFUNDED only when a refund of it   *)
(* was recorded.                                                           *)
THEOREM StatusEarned == Spec => []StatusIsEarned
<1>1. TypeInv /\ MoneyInv => StatusIsEarned
  BY DEF MoneyInv, RowOK, PublishedOK, Refunded, StatusIsEarned
<1>2. QED
  BY <1>1, MoneyInvariant, PTL

(* Every refund at the gateway came out of a captured payment of the order *)
(* it was made for, in time or late, and every recorded refund is one.     *)
THEOREM RefundsReal == Spec => []RecordedRefundsAreReal
<1>1. TypeInv /\ MoneyInv => RecordedRefundsAreReal
  BY DEF MoneyInv, RefundOK, IntentOf, RecordedRefundsAreReal
<1>2. QED
  BY <1>1, MoneyInvariant, PTL

------------------------------------------------------------------------------
(* What becomes of refunds while the payment service does not answer with  *)
(* the field the client reads.                                             *)

GivingBack == {"refund", "record", "void"}

(* Only a confirmation, whose payment the client names, ever has one, and  *)
(* no handler reaches a step that gives money back.                        *)
Penniless(p) == /\ proc[p].pc \notin GivingBack
                /\ proc[p].op # "confirm" => proc[p].pi = NoIntent
                /\ proc[p].op = "refund" => proc[p].pc \notin {"update", "announce"}

NothingIsRefunded ==
  /\ \A o \in Order : row[o].pi = NoIntent /\ row[o].status # "REFUNDED"
  /\ recorded = {}
  /\ \A i \in CallId : intent[i].refunded = 0 /\ refund[i].amount = 0

WiredInv == /\ NothingIsRefunded
            /\ \A p \in Proc : Penniless(p)
            /\ \A c \in late : c.kind # "refund"

NoneBack == /\ UNCHANGED <<recorded, refund>>
            /\ \A i \in CallId : intent[i].refunded = 0 => intent'[i].refunded = 0

(* A handler takes a step that leaves it without a payment. *)
LEMMA WiredStep ==
  ASSUME WiredInv, NEW p \in Proc, \A q \in Proc \ {p} : proc'[q] = proc[q], NoneBack,
         Penniless(p)', \A c \in late' : c.kind # "refund",
         \A o \in Order : row'[o].pi = NoIntent /\ row'[o].status # "REFUNDED"
  PROVE  WiredInv'
<1>1. \A q \in Proc : Penniless(q)'
  BY DEF WiredInv, Penniless
<1>2. QED
  BY <1>1 DEF WiredInv, NothingIsRefunded, NoneBack

LEMMA WiredKept ==
  ASSUME WiredInv, UNCHANGED <<row, proc>>, late' \subseteq late, NoneBack
  PROVE  WiredInv'
BY DEF WiredInv, NothingIsRefunded, Penniless, NoneBack

LEMMA LeavesPenniless ==
  ASSUME TypeInv, WiredInv, NEW p \in Proc, Unwind(p) \/ proc' = [proc EXCEPT ![p] = Idle]
  PROVE  Penniless(p)' /\ \A q \in Proc \ {p} : proc'[q] = proc[q]
<1>1. /\ proc'[p].pc \in {"idle", "finally"} /\ \A q \in Proc \ {p} : proc'[q] = proc[q]
  BY Leaves
<1>2. proc'[p].pi = NoIntent
  <2>1. proc \in [Proc -> ProcType]
    BY DEF TypeInv, TypeOK
  <2>2. CASE proc' = [proc EXCEPT ![p] = Idle]
    BY <2>1, <2>2 DEF Idle
  <2>3. CASE Finish(p, "finally")
    BY <2>1, <2>3 DEF Finish, Idle
  <2>4. QED
    BY <2>2, <2>3 DEF Unwind
<1>3. QED
  BY <1>1, <1>2 DEF Penniless, GivingBack

(* Only a refund gives money back. *)
LEMMA EffectWired ==
  ASSUME TypeInv, WiredInv, NEW c, c.kind # "refund",
         Effect(c) \/ UNCHANGED services, UNCHANGED recorded
  PROVE  NoneBack
<1>1. intent \in [CallId -> IntentType]
  BY DEF TypeInv, TypeOK
<1>2. CASE TicketEffect(c) \/ UNCHANGED services
  BY <1>2 DEF NoneBack, TicketEffect, services
<1>3. CASE PaymentEffect(c) /\ c.kind = "intent"
  BY <1>1, <1>3 DEF NoneBack, PaymentEffect, IntentCreate
<1>4. CASE PaymentEffect(c) /\ c.kind = "capture"
  BY <1>1, <1>4 DEF NoneBack, PaymentEffect, IntentConfirm, IntentType
<1>5. CASE PaymentEffect(c) /\ c.kind = "void"
  BY <1>1, <1>5 DEF NoneBack, PaymentEffect, IntentCancel, IntentType
<1>6. QED
  BY <1>2, <1>3, <1>4, <1>5 DEF Effect, PaymentEffect, PaymentCall

LEMMA AwaitWired ==
  ASSUME TypeInv, WiredInv, NEW p \in Proc, proc[p].pc \in TicketCall \cup PaymentCall,
         proc[p].op # "expire" \/ proc[p].pc \notin {"intent", "refund"},
         NEW next, NEW pi, Await(p, next, pi), next \notin GivingBack,
         proc[p].op # "confirm" => pi = NoIntent, proc[p].op # "refund"
  PROVE  WiredInv'
<1> DEFINE a == Attempt(p)
<1>1. a.kind = proc[p].pc /\ a.kind # "refund" /\ Active(p) /\ Penniless(p)
  BY AttemptTyped DEF Attempt, WiredInv, Penniless, GivingBack
<1>2. UNCHANGED <<row, recorded>>
  BY DEF Await, database
<1>3. Effect(a) \/ UNCHANGED services
  BY DEF Await, Answered, Refused, TimedOut
<1>4. NoneBack
  BY <1>1, <1>2, <1>3, EffectWired
<1>5. proc \in [Proc -> ProcType] /\ proc[p] \in ProcType
  BY DEF TypeInv, TypeOK
<1>6. Penniless(p)' /\ \A q \in Proc \ {p} : proc'[q] = proc[q]
  <2>1. CASE Unwind(p)
    BY <2>1, LeavesPenniless
  <2>2. CASE Goto(p, next)
    BY <1>1, <1>5, <2>2 DEF Goto, ProcType, Penniless
  <2>3. CASE Answered(p, next, pi)
    BY <1>1, <1>5, <2>3 DEF Answered, ProcType, Penniless
  <2>4. CASE proc' = [proc EXCEPT ![p].try = @ + 1]
    BY <1>1, <1>5, <2>4 DEF ProcType, Penniless
  <2>5. QED
    BY <2>1, <2>2, <2>3, <2>4 DEF Await, Refused, TimedOut, Thrown
<1>7. \A c \in late' : c.kind # "refund"
  <2>1. late' = late \/ late' = late \cup {a}
    BY DEF Await, Answered, Refused, TimedOut
  <2>2. QED
    BY <1>1, <2>1 DEF WiredInv
<1>8. \A o \in Order : row'[o].pi = NoIntent /\ row'[o].status # "REFUNDED"
  BY <1>2 DEF WiredInv, NothingIsRefunded
<1>9. QED
  BY <1>4, <1>6, <1>7, <1>8, WiredStep

LEMMA ReadWired ==
  ASSUME TypeInv, WiredInv, NEW p \in Proc, NEW allowed, NEW pi, NEW next,
         next \notin GivingBack \cup {"update", "announce"} \/ allowed = {},
         proc[p].op # "confirm" => pi = NoIntent, ReadOrder(p, allowed, pi, next)
  PROVE  WiredInv'
<1>1. /\ UNCHANGED <<services, late, row, recorded>> /\ Active(p)
      /\ proc \in [Proc -> ProcType] /\ proc[p] \in ProcType
  BY DEF ReadOrder, database, Active, TypeInv, TypeOK
<1>2. Penniless(p)' /\ \A q \in Proc \ {p} : proc'[q] = proc[q]
  <2>1. CASE Unwind(p)
    BY <2>1, LeavesPenniless
  <2>2. CASE /\ allowed # {}
             /\ proc' = [proc EXCEPT ![p].pc = next, ![p].pi = pi,
                                     ![p].seen = row[proc[p].order].status]
    BY <1>1, <2>2 DEF ProcType, Penniless
  <2>3. QED
    BY <2>1, <2>2 DEF ReadOrder
<1>3. NoneBack
  BY <1>1 DEF NoneBack, services
<1>4. /\ \A o \in Order : row'[o].pi = NoIntent /\ row'[o].status # "REFUNDED"
      /\ \A c \in late' : c.kind # "refund"
  BY <1>1 DEF WiredInv, NothingIsRefunded
<1>5. QED
  BY <1>2, <1>3, <1>4, WiredStep

(* The steps of a handler that neither calls nor reads the order. *)
LEMMA OtherWired ==
  ASSUME TypeInv, WiredInv, NEW p \in Proc,
         NEW step \in {"items", "hold", "read", "announce"},
         step = "announce" => proc[p].op # "refund",
         \/ Unwind(p) \/ Goto(p, step) \/ Finish(p, step)
         \/ proc' = [proc EXCEPT ![p] = Idle] \/ FindItems(p),
         UNCHANGED <<services, late, recorded>>,
         \A o \in Order : row'[o] = row[o] \/ (/\ row'[o].pi = NoIntent
                                               /\ row'[o].status # "REFUNDED")
  PROVE  WiredInv'
<1>1. proc \in [Proc -> ProcType] /\ proc[p] \in ProcType /\ Penniless(p)
  BY DEF TypeInv, TypeOK, WiredInv
<1>2. Penniless(p)' /\ \A q \in Proc \ {p} : proc'[q] = proc[q]
  <2>1. CASE Unwind(p) \/ proc' = [proc EXCEPT ![p] = Idle]
    BY <2>1, LeavesPenniless
  <2>2. CASE Goto(p, step)
    BY <1>1, <2>2 DEF Goto, ProcType, Penniless, GivingBack
  <2>3. CASE Finish(p, step)
    BY <1>1, <2>3 DEF Finish, Idle, ProcType, Penniless, GivingBack
  <2>4. CASE FindItems(p)
    BY <1>1, <2>4 DEF FindItems, At, ProcType, Penniless, GivingBack
  <2>5. QED
    BY <2>1, <2>2, <2>3, <2>4
<1>3. NoneBack
  BY DEF NoneBack, services
<1>4. /\ \A o \in Order : row'[o].pi = NoIntent /\ row'[o].status # "REFUNDED"
      /\ \A c \in late' : c.kind # "refund"
  BY DEF WiredInv, NothingIsRefunded
<1>5. QED
  BY <1>2, <1>3, <1>4, WiredStep

LEMMA UpdateWired ==
  ASSUME TypeInv, WiredInv, NEW p \in Proc, NEW status \in Status \ {"REFUNDED"}, NEW expires,
         UpdateOrder(p, status, NoIntent, expires)
  PROVE  WiredInv'
<1> DEFINE o == proc[p].order
<1>1. /\ row \in [Order -> RowType] /\ o \in Order /\ proc[p].op # "refund"
      /\ UNCHANGED <<services, late, recorded>>
  BY HasOrder DEF UpdateOrder, Active, TypeInv, TypeOK, WiredInv, Penniless
<1>2. ASSUME NEW x \in Order
      PROVE  row'[x] = row[x] \/ (row'[x].pi = NoIntent /\ row'[x].status # "REFUNDED")
  <2>1. CASE UNCHANGED row
    BY <2>1
  <2>2. CASE Update(o, status, NoIntent, expires)
    <3>1. PICK e : row' = [row EXCEPT ![o] = [status  |-> status,
                                              pi      |-> @.pi,
                                              expires |-> e]]
      BY <2>2 DEF Update
    <3>2. row[x].pi = NoIntent
      BY DEF WiredInv, NothingIsRefunded
    <3>3. QED
      BY <1>1, <3>1, <3>2
  <2>3. QED
    BY <2>1, <2>2 DEF UpdateOrder
<1>3. Unwind(p) \/ Finish(p, "announce")
  BY DEF UpdateOrder
<1>4. QED
  BY <1>1, <1>2, <1>3, OtherWired

LEMMA HandleWired ==
  ASSUME "paymentIntentId" \notin Repaired, TypeInv, WiredInv, NEW p \in Proc, Handle(p)
  PROVE  WiredInv'
<1>1. /\ Penniless(p) /\ \A o \in Order : row[o].pi = NoIntent
      /\ {"RESERVED", "CONFIRMED", "CANCELLED", "EXPIRED"} \subseteq Status \ {"REFUNDED"}
      /\ {"hold", "intent", "capture", "allocate", "release"} \subseteq TicketCall \cup PaymentCall
      /\ {"hold", "intent", "capture", "allocate", "release", "update", "items"}
           \cap GivingBack = {}
  BY DEF WiredInv, NothingIsRefunded, Status, TicketCall, PaymentCall, GivingBack
<1>2. Active(p) => proc[p].order \in Order /\ row[proc[p].order].pi = NoIntent
  BY <1>1, HasOrder
<1>3. CASE CreateOrder(p)
  <2>1. /\ UNCHANGED <<services, late, recorded>> /\ Active(p) /\ row \in [Order -> RowType]
        /\ Unwind(p) \/ Goto(p, "items")
    BY <1>3 DEF CreateOrder, InsertOrder, InsertItems, At, Active, TypeInv, TypeOK
  <2>2. \A o \in Order : row'[o] = row[o] \/ (row'[o].pi = NoIntent /\ row'[o].status # "REFUNDED")
    <3>1. CASE UNCHANGED row
      BY <3>1
    <3>2. CASE row' = [row EXCEPT ![proc[p].order].status = "PENDING"]
      BY <1>1, <2>1, <3>2 DEF RowType
    <3>3. QED
      BY <1>3, <3>1, <3>2 DEF CreateOrder, InsertOrder, InsertItems
  <2>3. QED
    BY <2>1, <2>2, OtherWired
<1>4. CASE ReserveOrder(p)
  <2>1. CASE At(p, "reserve", "read") /\ ReadOrder(p, {"PENDING"}, NoIntent, "items")
    BY <1>1, <2>1, ReadWired DEF At
  <2>2. CASE FindItems(p)
    BY <2>2, OtherWired DEF FindItems, database
  <2>3. CASE ReserveTickets(p)
    BY <1>1, <2>3, AwaitWired DEF ReserveTickets, At
  <2>4. CASE CreatePaymentIntent(p)
    <3>1. At(p, "reserve", "intent") /\ Await(p, "update", NoIntent)
      BY <2>4 DEF CreatePaymentIntent
    <3>2. QED
      BY <1>1, <3>1, AwaitWired DEF At
  <2>5. CASE At(p, "reserve", "update") /\ UpdateOrder(p, "RESERVED", proc[p].pi, TRUE)
    BY <1>1, <2>5, UpdateWired DEF At, Penniless
  <2>6. QED
    BY <1>4, <2>1, <2>2, <2>3, <2>4, <2>5 DEF ReserveOrder
<1>5. CASE ConfirmOrder(p)
  <2>1. CASE At(p, "confirm", "read") /\ ReadOrder(p, {"RESERVED"}, proc[p].pi, "capture")
    BY <1>1, <2>1, ReadWired DEF At
  <2>2. CASE ConfirmPayment(p) \/ ConfirmAllocation(p)
    BY <1>1, <2>2, AwaitWired DEF ConfirmPayment, ConfirmAllocation, At
  <2>3. CASE At(p, "confirm", "update") /\ UpdateOrder(p, "CONFIRMED", NoIntent, FALSE)
    BY <1>1, <2>3, UpdateWired
  <2>4. QED
    BY <1>5, <2>1, <2>2, <2>3 DEF ConfirmOrder
<1>6. CASE CancelOrder(p)
  <2>1. /\ proc[p].op = "cancel" /\ Active(p) /\ proc[p].pi = NoIntent
        /\ proc[p].pc \notin GivingBack /\ AfterRelease(p) = "update"
    BY <1>1, <1>6 DEF CancelOrder, CancelReleaseTickets, CancelPaymentIntent, At, Active,
                     Penniless, AfterRelease
  <2>2. CASE ReadOrder(p, {"PENDING", "RESERVED", "CONFIRMED"}, row[proc[p].order].pi, "release")
    BY <1>1, <1>2, <2>1, <2>2, ReadWired
  <2>3. CASE CancelReleaseTickets(p)
    BY <1>1, <2>1, <2>3, AwaitWired DEF CancelReleaseTickets, At
  <2>4. CASE UpdateOrder(p, "CANCELLED", NoIntent, FALSE)
    BY <1>1, <2>4, UpdateWired
  <2>5. QED
    BY <1>6, <2>1, <2>2, <2>3, <2>4 DEF CancelOrder, CancelPaymentIntent, At, GivingBack
<1>7. CASE RefundOrder(p)
  <2>1. proc[p].op = "refund" /\ Active(p) /\ proc[p].pc \notin GivingBack \cup {"update"}
    BY <1>1, <1>7 DEF RefundOrder, At, Active, Penniless
  <2>2. ReadOrder(p, {}, NoIntent, "refund")
    BY <1>2, <1>7, <2>1 DEF RefundOrder, At, GivingBack
  <2>3. QED
    BY <2>2, ReadWired
<1>8. CASE ExpireReservation(p)
  <2>1. /\ proc[p].op = "expire" /\ Active(p) /\ proc[p].pi = NoIntent
        /\ proc[p].pc \notin GivingBack
    BY <1>1, <1>8 DEF ExpireReservation, ExpireReleaseTickets, ExpireCancelIntent, At, Active,
                     Penniless
  <2>2. CASE ReadOrder(p, {"RESERVED"}, row[proc[p].order].pi, "release")
    BY <1>1, <1>2, <2>1, <2>2, ReadWired
  <2>3. CASE ExpireReleaseTickets(p)
    BY <1>1, <2>1, <2>3, AwaitWired DEF ExpireReleaseTickets, At
  <2>4. CASE UpdateOrder(p, "EXPIRED", NoIntent, FALSE)
    BY <1>1, <2>4, UpdateWired
  <2>5. QED
    BY <1>8, <2>1, <2>2, <2>3, <2>4 DEF ExpireReservation, ExpireCancelIntent, At, GivingBack
<1>9. CASE Announce(p)
  BY <1>9, OtherWired DEF Announce
<1>10. CASE AcquireLock(p) \/ LockRefused(p) \/ ReleaseLock(p)
  <2>1. /\ UNCHANGED <<services, late, recorded, row>>
        /\ Goto(p, "read") \/ proc' = [proc EXCEPT ![p] = Idle]
    BY <1>10 DEF AcquireLock, LockRefused, ReleaseLock, database
  <2>2. QED
    BY <2>1, OtherWired
<1>11. QED
  BY <1>3, <1>4, <1>5, <1>6, <1>7, <1>8, <1>9, <1>10 DEF Handle

LEMMA ArriveWired ==
  ASSUME TypeInv, WiredInv, NEW op \in Operation, NEW o, NEW step \in {"insert", "read", "lock"},
         NEW pi, NEW amount, op # "confirm" => pi = NoIntent, Arrive(op, o, step, pi, amount)
  PROVE  WiredInv'
<1>1. requests + 1 \in Proc
  BY OrderAssumption DEF OrderAssumption, Arrive, TypeInv, TypeOK, Request, Proc
<1>2. UNCHANGED <<intent, refund, late, row, recorded>>
  BY DEF Arrive, database, services
<1>3. ASSUME NEW p \in Proc, p = requests + 1 PROVE WiredInv'
  <2>1. /\ \A q \in Proc \ {p} : proc'[q] = proc[q]
        /\ proc'[p].op = op /\ proc'[p].pc = step /\ proc'[p].pi = pi
    BY <1>3 DEF Arrive, Idle, TypeInv, TypeOK
  <2>2. Penniless(p)'
    BY <2>1 DEF Penniless, GivingBack
  <2>3. QED
    BY <1>2, <2>1, <2>2, WiredStep DEF NoneBack, WiredInv, NothingIsRefunded
<1>4. QED
  BY <1>1, <1>3

LEMMA EnvironmentWired ==
  ASSUME TypeInv, WiredInv,
         \/ ClientRequest \/ UNCHANGED vars
         \/ \E p \in Proc : Crash(p)
         \/ \E w \in Worker : RunExpirationJob(w) \/ ExpireNext(w)
         \/ \E c \in late : LateCall(c)
         \/ \E o \in Order : ReservationTimesOut(o)
         \/ \E i \in CallId : PaymentSettles(i)
         \/ \E o \in Order, k \in LockKey : LockExpires(o, k)
  PROVE  WiredInv'
<1>1. CASE ClientRequest
  BY <1>1, ArriveWired
     DEF ClientRequest, CreateRequest, ReserveRequest, ConfirmRequest, CancelRequest,
         RefundRequest, Operation, LockKey
<1>2. ASSUME NEW p \in Proc, Crash(p) PROVE WiredInv'
  BY <1>2, OtherWired DEF Crash, database
<1>3. ASSUME NEW w \in Worker, ExpireNext(w) PROVE WiredInv'
  <2>1. /\ w \in Proc /\ UNCHANGED <<intent, refund, late, row, recorded>>
        /\ \A q \in Proc \ {w} : proc'[q] = proc[q]
        /\ proc'[w].op = "expire" /\ proc'[w].pc = "read" /\ proc'[w].pi = NoIntent
    <3>1. w \in Proc /\ proc \in [Proc -> ProcType]
      BY DEF Proc, TypeInv, TypeOK
    <3>2. PICK o : proc' = [proc EXCEPT ![w] = [Idle EXCEPT !.op = "expire", !.order = o,
                                                            !.pc = "read"]]
      BY <1>3 DEF ExpireNext
    <3>3. QED
      BY <1>3, <3>1, <3>2 DEF ExpireNext, Idle, database, services
  <2>2. Penniless(w)'
    BY <2>1 DEF Penniless, GivingBack
  <2>3. QED
    BY <2>1, <2>2, WiredStep DEF NoneBack, WiredInv, NothingIsRefunded
<1>4. ASSUME NEW c \in late, LateCall(c) PROVE WiredInv'
  <2>1. /\ late' \subseteq late /\ UNCHANGED <<row, proc, recorded>>
        /\ (Effect(c) \/ UNCHANGED services)
        /\ c.kind # "refund"
    BY <1>4 DEF LateCall, database, WiredInv
  <2>2. NoneBack
    BY <2>1, EffectWired
  <2>3. QED
    BY <2>1, <2>2, WiredKept
<1>5. ASSUME NEW i \in CallId, PaymentSettles(i) PROVE WiredInv'
  BY <1>5, WiredKept DEF PaymentSettles, database, NoneBack, TypeInv, TypeOK, IntentType
<1>6. CASE \/ \E w \in Worker : RunExpirationJob(w)
           \/ \E o \in Order : ReservationTimesOut(o)
           \/ \E o \in Order, k \in LockKey : LockExpires(o, k)
           \/ UNCHANGED vars
  <2>1. UNCHANGED <<row, proc, late, recorded, refund, intent>>
    BY <1>6 DEF RunExpirationJob, ReservationTimesOut, LockExpires, vars, database, services
  <2>2. QED
    BY <2>1, WiredKept DEF NoneBack
<1>7. QED
  BY <1>1, <1>2, <1>3, <1>4, <1>5, <1>6

(* As long as the answer of the payment service lacks the field that       *)
(* payment.client.ts reads, no order ever knows its payment: whatever is   *)
(* cancelled, expired or refunded, in time or late, no money goes back.    *)
THEOREM UnknownPaymentsStay ==
  ASSUME "paymentIntentId" \notin Repaired PROVE Spec => []NothingIsRefunded
<1>1. Init => WiredInv
  BY OrderAssumption
     DEF OrderAssumption, Init, WiredInv, NothingIsRefunded, Penniless, GivingBack, Idle, Absent
<1>2. ASSUME TypeInv, WiredInv, [Next]_vars PROVE WiredInv'
  BY <1>2, HandleWired, EnvironmentWired DEF Next
<1>3. WiredInv => NothingIsRefunded
  BY DEF WiredInv
<1>4. Spec => [](TypeInv /\ MoneyInv)
  BY MoneyInvariant
<1>5. QED
  BY <1>1, <1>2, <1>3, <1>4, PTL DEF Spec
==============================================================================
