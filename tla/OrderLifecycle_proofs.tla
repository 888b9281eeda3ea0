------------------------ MODULE OrderLifecycle_proofs ------------------------
(***************************************************************************)
(* Type correctness of OrderLifecycle for any number of orders, workers,   *)
(* requests, attempts and calls under way.                                 *)
(***************************************************************************)
EXTENDS OrderLifecycle, TLAPS

(* What a handler p may be busy with: workers expire orders, requests do   *)
(* the rest, only a busy handler has an order, and one that records a      *)
(* refund has made it.                                                     *)
InRole(p, r) == /\ r.pc # "idle" => /\ r.order \in Order
                                    /\ r.op \in Operation
                                    /\ r.op = "expire" <=> p \in Worker
                /\ r.pc = "lock" => r.op \in LockKey
                /\ r.pc = "record" => r.pi \in CallId

ProcTyped == /\ proc \in [Proc -> ProcType]
             /\ \A p \in Proc : InRole(p, proc[p])

ServicesTyped == /\ ticket \in [Order -> TicketState]
                 /\ intent \in [CallId -> IntentType]
                 /\ refund \in [CallId -> RefundType]
                 /\ accepted \subseteq Order

(* The inductive form of type correctness. *)
TypeInv == TypeOK /\ ProcTyped

------------------------------------------------------------------------------
(* Names and numbers. *)

(* The two intents that no call made are told apart from those calls made. *)
LEMMA Names ==
  /\ NoIntent \in IntentId \ CallId /\ Foreign \in IntentId \ CallId /\ NoIntent # Foreign
  /\ CallId \subseteq IntentId
  /\ 1 \in Try /\ 0 \in 0..Total /\ Total \in 0..Total
<1>1. \A i \in CallId : i[1] # 0
  BY OrderAssumption DEF OrderAssumption, CallId, Request
<1>2. NoIntent[1] = 0 /\ Foreign[1] = 0 /\ NoIntent[2] # Foreign[2]
  BY DEF NoIntent, Foreign
<1>3. QED
  BY <1>1, <1>2, OrderAssumption DEF OrderAssumption, IntentId, Try

LEMMA Steps ==
  /\ {"hold", "intent", "update", "capture", "allocate", "release", "void", "refund",
      "items", "read", "announce", "finally"} \subseteq Step \ {"lock", "record"}
  /\ "record" \in Step
  /\ {"RESERVED", "CONFIRMED", "CANCELLED", "EXPIRED", "REFUNDED"} \subseteq Status
BY DEF Step, Status

------------------------------------------------------------------------------
(* Control. *)

LEMMA IdleTyped == Idle \in ProcType /\ \A p \in Proc : InRole(p, Idle)
BY Names DEF Idle, ProcType, InRole, Absent

(* Changing one handler keeps them all well typed and in their roles. *)
LEMMA HandlerTyped ==
  ASSUME ProcTyped, NEW p \in Proc, NEW r \in ProcType, InRole(p, r),
         proc' = [proc EXCEPT ![p] = r]
  PROVE  ProcTyped'
<1>1. proc' \in [Proc -> ProcType]
  BY DEF ProcTyped
<1>2. ASSUME NEW q \in Proc PROVE InRole(q, proc'[q])
  <2>1. CASE q = p
    BY <2>1 DEF ProcTyped
  <2>2. CASE q # p
    <3>1. proc'[q] = proc[q]
      BY <2>2 DEF ProcTyped
    <3>2. QED
      BY <3>1 DEF ProcTyped
  <2>3. QED
    BY <2>1, <2>2
<1>3. QED
  BY <1>1, <1>2 DEF ProcTyped, InRole

(* A busy handler has an order, and its record is well typed. *)
LEMMA HasOrder ==
  ASSUME TypeInv, NEW p \in Proc, Active(p)
  PROVE  /\ proc[p].order \in Order /\ proc[p] \in ProcType /\ InRole(p, proc[p])
         /\ proc[p].pi \in IntentId /\ row[proc[p].order] \in RowType
BY DEF TypeInv, TypeOK, ProcTyped, InRole, Active, ProcType

(* A handler that goes to another step, with another intent in hand, stays *)
(* well typed and in its role.                                             *)
LEMMA MoveTyped ==
  ASSUME TypeInv, NEW p \in Proc, Active(p), NEW step \in Step \ {"lock"},
         NEW try \in Try, NEW pi \in IntentId, NEW amount \in 0..Total,
         NEW seen \in Status \cup {Absent}, step = "record" => pi \in CallId,
         proc' = [proc EXCEPT ![p] = [proc[p] EXCEPT !.pc = step, !.try = try, !.pi = pi,
                                                     !.amount = amount, !.seen = seen]]
  PROVE  ProcTyped'
<1> DEFINE r == [proc[p] EXCEPT !.pc = step, !.try = try, !.pi = pi,
                                !.amount = amount, !.seen = seen]
<1>1. proc[p] \in ProcType /\ InRole(p, proc[p]) /\ Active(p)
  BY HasOrder
<1>2. r \in ProcType
  BY <1>1 DEF ProcType
<1>3. InRole(p, r)
  BY <1>1 DEF InRole, Active, ProcType
<1>4. proc' = [proc EXCEPT ![p] = r]
  OBVIOUS
<1>5. QED
  BY <1>2, <1>3, <1>4, HandlerTyped DEF TypeInv

LEMMA ControlTyped ==
  ASSUME TypeInv, NEW p \in Proc, Active(p), NEW step \in Step \ {"lock", "record"},
         \/ Goto(p, step) \/ Finish(p, step) \/ Unwind(p) \/ Thrown(p, step)
         \/ proc' = [proc EXCEPT ![p] = Idle]
  PROVE  ProcTyped'
<1>1. proc[p] \in ProcType /\ InRole(p, proc[p]) /\ "finally" \in Step \ {"lock", "record"}
  BY HasOrder DEF Step
<1>2. CASE Goto(p, step)
  <2>1. proc' = [proc EXCEPT ![p] = [proc[p] EXCEPT !.pc = step, !.try = 1,
                   !.pi = proc[p].pi, !.amount = proc[p].amount, !.seen = proc[p].seen]]
    BY <1>1, <1>2 DEF Goto, ProcType, TypeInv, ProcTyped
  <2>2. /\ step \in Step \ {"lock"} /\ step # "record" /\ 1 \in Try
        /\ proc[p].pi \in IntentId /\ proc[p].amount \in 0..Total
        /\ proc[p].seen \in Status \cup {Absent}
    BY <1>1, Names DEF ProcType
  <2>3. QED
    BY <2>1, <2>2, MoveTyped
<1>3. ASSUME NEW s \in Step \ {"lock", "record"}, Finish(p, s) PROVE ProcTyped'
  <2> DEFINE r == [Idle EXCEPT !.op = proc[p].op, !.order = proc[p].order, !.pc = s]
  <2>1. r \in ProcType
    BY <1>1, IdleTyped DEF ProcType
  <2>2. InRole(p, r)
    BY <1>1 DEF InRole, Idle, Active
  <2>3. QED
    BY <1>3, <2>1, <2>2, HandlerTyped DEF Finish, TypeInv
<1>4. CASE proc' = [proc EXCEPT ![p] = Idle]
  BY <1>4, IdleTyped, HandlerTyped DEF TypeInv
<1>5. CASE Unwind(p)
  BY <1>1, <1>3, <1>4, <1>5 DEF Unwind
<1>6. QED
  BY <1>2, <1>3, <1>4, <1>5 DEF Thrown

LEMMA Leaves ==
  ASSUME TypeInv, NEW p \in Proc, Unwind(p) \/ proc' = [proc EXCEPT ![p] = Idle]
  PROVE  proc'[p].pc \in {"idle", "finally"} /\ \A q \in Proc \ {p} : proc'[q] = proc[q]
<1>1. proc \in [Proc -> ProcType]
  BY DEF TypeInv, TypeOK
<1>2. CASE proc' = [proc EXCEPT ![p] = Idle]
  BY <1>1, <1>2 DEF Idle
<1>3. CASE Finish(p, "finally")
  BY <1>1, <1>3 DEF Finish, Idle
<1>4. QED
  BY <1>2, <1>3 DEF Unwind

------------------------------------------------------------------------------
(* The services. *)

LEMMA TicketTyped ==
  ASSUME TypeInv, NEW c \in CallType, TicketEffect(c)
  PROVE  ServicesTyped'
<1>1. c.order \in Order
  BY DEF CallType
<1>2. ticket \in [Order -> TicketState]
  BY DEF TypeInv, TypeOK
<1>3. TicketHold(c.order) \/ TicketSell(c.order) \/ TicketRelease(c.order) \/ UNCHANGED ticket
  <2>1. c.kind = "hold" \/ c.kind = "allocate" \/ c.kind = "release"
    BY DEF TicketEffect, TicketCall
  <2>2. QED
    BY <2>1 DEF TicketEffect
<1>4. ticket' \in [Order -> TicketState]
  BY <1>1, <1>2, <1>3 DEF TicketHold, TicketSell, TicketRelease, TicketState
<1>5. QED
  BY <1>4 DEF TicketEffect, TypeInv, TypeOK, ServicesTyped

LEMMA PaymentTyped ==
  ASSUME TypeInv, NEW c \in CallType, PaymentEffect(c)
  PROVE  ServicesTyped'
<1>1. /\ c.order \in Order /\ c.id \in IntentId /\ c.pi \in IntentId /\ c.amount \in 0..Total
      /\ {"open", "pending", "captured", "canceled"} \subseteq IntentState
  BY DEF CallType, IntentState
<1>2. /\ intent \in [CallId -> IntentType] /\ refund \in [CallId -> RefundType]
      /\ accepted \subseteq Order /\ ticket' \in [Order -> TicketState]
  BY DEF TypeInv, TypeOK, PaymentEffect
<1>3. ASSUME NEW i \in CallId, NEW state \in IntentState
      PROVE  [intent EXCEPT ![i].state = state] \in [CallId -> IntentType]
  BY <1>2 DEF IntentType
<1>4. CASE c.kind = "intent"
  <2>1. [order |-> c.order, state |-> "open", refunded |-> 0] \in IntentType
    BY <1>1, Names DEF IntentType
  <2>2. IntentCreate(c.id, c.order)
    BY <1>4 DEF PaymentEffect
  <2>3. QED
    BY <1>2, <2>1, <2>2 DEF IntentCreate, ServicesTyped
<1>5. CASE c.kind = "capture"
  <2>1. IntentConfirm(c.pi, c.order)
    BY <1>5 DEF PaymentEffect
  <2>2. intent' \in [CallId -> IntentType]
    BY <1>1, <1>2, <1>3, <2>1 DEF IntentConfirm
  <2>3. QED
    BY <1>1, <1>2, <2>1, <2>2 DEF IntentConfirm, ServicesTyped
<1>6. CASE c.kind = "void"
  <2>1. IntentCancel(c.pi)
    BY <1>6 DEF PaymentEffect
  <2>2. QED
    BY <1>1, <1>2, <1>3, <2>1 DEF IntentCancel, ServicesTyped
<1>7. CASE c.kind = "refund"
  <2>1. RefundCreate(c.id, c.order, c.pi, c.amount)
    BY <1>7 DEF PaymentEffect
  <2>2. c.pi \in CallId /\ intent[c.pi].refunded + c.amount \in 0..Total
    BY <1>1, <1>2, <2>1, OrderAssumption DEF OrderAssumption, RefundCreate, IntentType
  <2>3. [intent EXCEPT ![c.pi].refunded = @ + c.amount] \in [CallId -> IntentType]
    BY <1>2, <2>2 DEF IntentType
  <2>4. [order |-> c.order, pi |-> c.pi, amount |-> c.amount] \in RefundType
    BY <1>1 DEF RefundType
  <2>5. QED
    BY <1>2, <2>1, <2>3, <2>4 DEF RefundCreate, ServicesTyped
<1>8. QED
  BY <1>4, <1>5, <1>6, <1>7 DEF PaymentEffect, PaymentCall

LEMMA EffectTyped ==
  ASSUME TypeInv, NEW c \in CallType, Effect(c) \/ UNCHANGED services
  PROVE  ServicesTyped'
<1>1. CASE UNCHANGED services
  BY <1>1 DEF services, ServicesTyped, TypeInv, TypeOK
<1>2. QED
  BY <1>1, TicketTyped, PaymentTyped DEF Effect

------------------------------------------------------------------------------
(* Awaited calls. *)

LEMMA AttemptTyped ==
  ASSUME TypeInv, NEW p \in Proc, proc[p].pc \in TicketCall \cup PaymentCall,
         proc[p].op # "expire" \/ proc[p].pc \notin {"intent", "refund"}
  PROVE  /\ Active(p) /\ Attempt(p) \in CallType
         /\ proc[p].pc \in {"intent", "refund"} => p \in Request /\ <<p, proc[p].try>> \in CallId
<1>1. Active(p)
  BY DEF Active, TicketCall, PaymentCall
<1>2. proc[p] \in ProcType /\ proc[p].order \in Order /\ InRole(p, proc[p])
  BY <1>1, HasOrder
<1>3. proc[p].pc \in {"intent", "refund"} => p \in Request /\ <<p, proc[p].try>> \in CallId
  BY <1>1, <1>2 DEF InRole, Active, Proc, CallId, ProcType
<1>4. Attempt(p) \in CallType
  BY <1>2, <1>3, Names DEF Attempt, CallType, ProcType
<1>5. QED
  BY <1>1, <1>3, <1>4

(* A handler whose call was answered goes on with what it holds.           *)
LEMMA AnsweredAt ==
  ASSUME TypeInv, NEW p \in Proc, Active(p), NEW next, NEW pi, Answered(p, next, pi)
  PROVE  /\ proc'[p].pc = next /\ proc'[p].pi = pi /\ proc'[p].op = proc[p].op
         /\ proc'[p].order = proc[p].order /\ proc'[p].amount = proc[p].amount
<1>1. proc \in [Proc -> ProcType] /\ proc[p] \in ProcType
  BY HasOrder DEF TypeInv, TypeOK
<1>2. QED
  BY <1>1 DEF Answered, ProcType

LEMMA AwaitTyped ==
  ASSUME TypeInv, NEW p \in Proc, proc[p].pc \in TicketCall \cup PaymentCall,
         proc[p].op # "expire" \/ proc[p].pc \notin {"intent", "refund"},
         NEW next \in Step \ {"lock"}, NEW pi \in IntentId,
         next = "record" => pi \in CallId /\ proc[p].op # "expire", Await(p, next, pi)
  PROVE  TypeInv'
<1>1. Active(p) /\ Attempt(p) \in CallType
  BY AttemptTyped
<1>2. /\ proc[p] \in ProcType /\ proc[p].order \in Order
      /\ proc \in [Proc -> ProcType]
  BY <1>1, HasOrder DEF TypeInv, TypeOK
<1>3. ServicesTyped'
  BY <1>1, EffectTyped DEF Await, Answered, Refused, TimedOut
<1>4. late' \subseteq CallType /\ delayed' \subseteq Order
  BY <1>1, <1>2 DEF Await, Answered, Refused, TimedOut, TypeInv, TypeOK
<1>5. ProcTyped'
  <2>1. CASE Answered(p, next, pi)
    <3>1. proc' = [proc EXCEPT ![p] = [proc[p] EXCEPT !.pc = next, !.try = 1, !.pi = pi,
                     !.amount = proc[p].amount, !.seen = proc[p].seen]]
      BY <1>2, <2>1 DEF Answered, ProcType
    <3>2. /\ 1 \in Try /\ proc[p].amount \in 0..Total
          /\ proc[p].seen \in Status \cup {Absent}
          /\ next = "record" => pi \in CallId
      BY <1>2, Names DEF ProcType
    <3>3. QED
      BY <1>1, <3>1, <3>2, MoveTyped
  <2>2. CASE Thrown(p, next)
    <3>1. CASE next = "record"
      BY <1>1, <2>2, <3>1, Steps, ControlTyped DEF Thrown
    <3>2. CASE next # "record"
      BY <1>1, <2>2, <3>2, ControlTyped
    <3>3. QED
      BY <3>1, <3>2
  <2>3. CASE proc[p].try < MaxTries /\ proc' = [proc EXCEPT ![p].try = @ + 1]
    <3>1. /\ proc[p].pc \in Step \ {"lock"} /\ proc[p].try + 1 \in Try
          /\ proc[p].pc # "record"
      BY <1>2, <2>3, OrderAssumption
         DEF OrderAssumption, ProcType, Try, Step, TicketCall, PaymentCall
    <3>2. proc' = [proc EXCEPT ![p] = [proc[p] EXCEPT !.pc = proc[p].pc,
                     !.try = proc[p].try + 1, !.pi = proc[p].pi,
                     !.amount = proc[p].amount, !.seen = proc[p].seen]]
      BY <1>2, <2>3 DEF ProcType
    <3>3. /\ proc[p].pi \in IntentId /\ proc[p].amount \in 0..Total
          /\ proc[p].seen \in Status \cup {Absent}
      BY <1>2 DEF ProcType
    <3>4. QED
      BY <1>1, <3>1, <3>2, <3>3, MoveTyped, ZenonT(60)
  <2>4. QED
    BY <2>1, <2>2, <2>3 DEF Await, Refused, TimedOut
<1>6. UNCHANGED <<row, items, recorded, published, deadline, lock, batch, requests, overlapped>>
  BY DEF Await, database
<1>7. QED
  BY <1>3, <1>4, <1>5, <1>6 DEF TypeInv, TypeOK, ServicesTyped, ProcTyped

LEMMA LateTyped == ASSUME TypeInv, NEW c \in late, LateCall(c) PROVE TypeInv'
<1>1. c \in CallType
  BY DEF TypeInv, TypeOK
<1>2. ServicesTyped'
  BY <1>1, EffectTyped DEF LateCall
<1>3. /\ late' \subseteq CallType
      /\ UNCHANGED <<row, items, recorded, published, deadline, lock, proc, batch, requests,
                     overlapped, delayed>>
  BY DEF LateCall, database, history, TypeInv, TypeOK
<1>4. QED
  BY <1>2, <1>3 DEF TypeInv, TypeOK, ServicesTyped, ProcTyped, InRole

------------------------------------------------------------------------------
(* Reads and writes of an order. *)

LEMMA ReadTyped ==
  ASSUME TypeInv, NEW p \in Proc, NEW allowed, NEW pi \in IntentId,
         NEW next \in Step \ {"lock", "record"}, ReadOrder(p, allowed, pi, next)
  PROVE  TypeInv'
<1> DEFINE o == proc[p].order
<1>1. /\ Active(p) /\ o \in Order /\ proc[p] \in ProcType /\ proc \in [Proc -> ProcType]
      /\ row[o].status \in Status \cup {Absent}
  BY HasOrder DEF ReadOrder, Active, RowType, TypeInv, ProcTyped
<1>2. ProcTyped'
  <2>1. CASE row[o].status \in allowed
    <3>1. proc' = [proc EXCEPT ![p] = [proc[p] EXCEPT !.pc = next, !.try = proc[p].try,
                     !.pi = pi, !.amount = proc[p].amount, !.seen = row[o].status]]
      BY <1>1, <2>1, ZenonT(60) DEF ReadOrder, ProcType
    <3>2. QED
      BY <1>1, <3>1, MoveTyped, ZenonT(60) DEF ProcType
  <2>2. CASE ~(row[o].status \in allowed)
    BY <1>1, <2>2, ControlTyped DEF ReadOrder
  <2>3. QED
    BY <2>1, <2>2
<1>3. overlapped' \subseteq Order
  BY <1>1 DEF ReadOrder, TypeInv, TypeOK
<1>4. QED
  BY <1>2, <1>3 DEF ReadOrder, TypeInv, TypeOK, ProcTyped, database, services

LEMMA UpdateTyped ==
  ASSUME TypeInv, NEW o \in Order, NEW status \in Status, NEW pi \in IntentId,
         NEW expires \in BOOLEAN, Update(o, status, pi, expires)
  PROVE  row' \in [Order -> RowType]
<1>1. row[o] \in RowType /\ row \in [Order -> RowType]
  BY DEF TypeInv, TypeOK
<1>2. PICK e \in {row[o].expires} \cup {x \in {expires} : "expiresAt" \in Repaired} :
        row' = [row EXCEPT ![o] = [status  |-> status,
                                   pi      |-> IF pi = NoIntent THEN row[o].pi ELSE pi,
                                   expires |-> e]]
  BY <1>1 DEF Update
<1>3. [status |-> status, pi |-> IF pi = NoIntent THEN row[o].pi ELSE pi, expires |-> e] \in RowType
  BY <1>1 DEF RowType
<1>4. QED
  BY <1>1, <1>2, <1>3

LEMMA UpdateOrderTyped ==
  ASSUME TypeInv, NEW p \in Proc, NEW status \in Status, NEW pi \in IntentId,
         NEW expires \in BOOLEAN, UpdateOrder(p, status, pi, expires),
         deadline' \in [Order -> {"none", "running", "passed"}]
  PROVE  TypeInv'
<1>1. Active(p) /\ "announce" \in Step \ {"lock", "record"} /\ proc[p].order \in Order
  BY HasOrder DEF UpdateOrder, Active, Step
<1>2. ProcTyped'
  BY <1>1, ControlTyped DEF UpdateOrder
<1>3. row' \in [Order -> RowType]
  <2>1. CASE Update(proc[p].order, status, pi, expires)
    BY <1>1, <2>1, UpdateTyped
  <2>2. CASE UNCHANGED row
    BY <2>2 DEF TypeInv, TypeOK
  <2>3. QED
    BY <2>1, <2>2 DEF UpdateOrder
<1>4. UNCHANGED <<items, recorded, published, ticket, intent, refund, accepted, late, lock,
                  batch, requests, overlapped, delayed>>
  BY DEF UpdateOrder, services, history
<1>5. QED
  BY <1>2, <1>3, <1>4 DEF TypeInv, TypeOK, ProcTyped

LEMMA AnnounceTyped == ASSUME TypeInv, NEW p \in Proc, Announce(p) PROVE TypeInv'
<1>1. /\ Active(p) /\ proc[p].order \in Order /\ proc[p].op \in Operation
      /\ "finally" \in Step \ {"lock", "record"}
  BY HasOrder DEF Announce, Active, InRole, Step
<1>2. ProcTyped'
  BY <1>1, ControlTyped DEF Announce
<1>3. published' \subseteq Order \X Operation
  BY <1>1 DEF Announce, TypeInv, TypeOK
<1>4. QED
  BY <1>2, <1>3 DEF Announce, TypeInv, TypeOK, ProcTyped, services, history

------------------------------------------------------------------------------
(* Locks. *)

LEMMA LockTyped ==
  ASSUME TypeInv, NEW p \in Proc, AcquireLock(p) \/ LockRefused(p) \/ ReleaseLock(p)
  PROVE  TypeInv'
<1> DEFINE o == proc[p].order
           k == proc[p].op
<1>1. Active(p) /\ o \in Order /\ "read" \in Step \ {"lock", "record"}
  BY HasOrder DEF AcquireLock, LockRefused, ReleaseLock, Active, Step
<1>2. ProcTyped'
  BY <1>1, ControlTyped DEF AcquireLock, LockRefused, ReleaseLock
<1>3. lock' \in [Order -> [LockKey -> Proc \cup {None}]]
  <2>1. /\ lock \in [Order -> [LockKey -> Proc \cup {None}]]
        /\ lock[o] \in [LockKey -> Proc \cup {None}]
    BY <1>1 DEF TypeInv, TypeOK
  <2>2. ASSUME NEW owner, k \in LockKey => owner \in Proc \cup {None}
        PROVE  [lock EXCEPT ![o][k] = owner] \in [Order -> [LockKey -> Proc \cup {None}]]
    <3>1. [lock[o] EXCEPT ![k] = owner] \in [LockKey -> Proc \cup {None}]
      BY <2>1, <2>2
    <3>2. QED
      BY <2>1, <3>1
  <2>3. CASE AcquireLock(p)
    BY <2>2, <2>3 DEF AcquireLock
  <2>4. CASE ReleaseLock(p)
    <3>1. k \in LockKey => (IF lock[o][k] = p THEN None ELSE lock[o][k]) \in Proc \cup {None}
      BY <2>1
    <3>2. [lock EXCEPT ![o][k] = IF @ = p THEN None ELSE @]
            = [lock EXCEPT ![o][k] = IF lock[o][k] = p THEN None ELSE lock[o][k]]
      BY <1>1, <2>1
    <3>3. QED
      BY <2>1, <2>2, <2>4, <3>1, <3>2 DEF ReleaseLock
  <2>5. CASE LockRefused(p)
    BY <2>1, <2>5 DEF LockRefused
  <2>6. QED
    BY <2>3, <2>4, <2>5
<1>4. UNCHANGED <<row, items, recorded, published, deadline, ticket, intent, refund, accepted,
                  late, batch, requests, overlapped, delayed>>
  BY DEF AcquireLock, LockRefused, ReleaseLock, database, services, history
<1>5. QED
  BY <1>2, <1>3, <1>4 DEF TypeInv, TypeOK, ProcTyped

LEMMA LockExpiresTyped ==
  ASSUME TypeInv, NEW o \in Order, NEW k \in LockKey, LockExpires(o, k)
  PROVE  TypeInv'
<1>1. lock' \in [Order -> [LockKey -> Proc \cup {None}]]
  BY DEF LockExpires, TypeInv, TypeOK
<1>2. QED
  BY <1>1 DEF LockExpires, TypeInv, TypeOK, ProcTyped, InRole, database, services, history

------------------------------------------------------------------------------
(* Requests and the creation of an order. *)

LEMMA ArriveTyped ==
  ASSUME TypeInv, NEW op \in Operation \ {"expire"}, NEW o \in Order,
         NEW step \in Step \ {"record"}, step = "lock" => op \in LockKey,
         NEW pi \in IntentId, NEW amount \in 0..Total, Arrive(op, o, step, pi, amount)
  PROVE  TypeInv'
<1> DEFINE r == [Idle EXCEPT !.op = op, !.order = o, !.pc = step, !.pi = pi, !.amount = amount]
<1>1. requests + 1 \in Request /\ requests' \in 0..MaxRequests
  BY OrderAssumption DEF OrderAssumption, Arrive, TypeInv, TypeOK, Request
<1>2. requests + 1 \in Proc /\ requests + 1 \notin Worker
  BY <1>1, OrderAssumption DEF OrderAssumption, Proc, Request
<1>3. r \in ProcType
  BY IdleTyped DEF ProcType
<1>4. InRole(requests + 1, r)
  BY <1>2 DEF InRole, Idle
<1>5. ProcTyped'
  BY <1>2, <1>3, <1>4, HandlerTyped DEF Arrive, TypeInv
<1>6. UNCHANGED <<row, items, recorded, published, deadline, ticket, intent, refund, accepted,
                  late, lock, batch, overlapped, delayed>>
  BY DEF Arrive, database, services, history
<1>7. QED
  BY <1>1, <1>5, <1>6 DEF TypeInv, TypeOK, ProcTyped

LEMMA RequestTyped == ASSUME TypeInv, ClientRequest PROVE TypeInv'
<1>1. /\ {"create", "reserve", "confirm", "cancel", "refund"} \subseteq Operation \ {"expire"}
      /\ {"confirm", "cancel", "refund"} \subseteq LockKey
      /\ {"insert", "read", "lock"} \subseteq Step \ {"record"}
      /\ 1..Total \subseteq 0..Total
  BY OrderAssumption DEF OrderAssumption, Operation, LockKey, Step
<1>2. CASE CreateRequest
  BY <1>1, <1>2, Names, ArriveTyped DEF CreateRequest
<1>3. CASE ReserveRequest
  BY <1>1, <1>3, Names, ArriveTyped DEF ReserveRequest
<1>4. CASE ConfirmRequest
  BY <1>1, <1>4, Names, ArriveTyped DEF ConfirmRequest
<1>5. CASE CancelRequest
  BY <1>1, <1>5, Names, ArriveTyped DEF CancelRequest
<1>6. CASE RefundRequest
  BY <1>1, <1>6, Names, ArriveTyped DEF RefundRequest
<1>7. QED
  BY <1>2, <1>3, <1>4, <1>5, <1>6 DEF ClientRequest

LEMMA CreateTyped == ASSUME TypeInv, NEW p \in Proc, CreateOrder(p) PROVE TypeInv'
<1>1. Active(p) /\ proc[p].order \in Order /\ "items" \in Step \ {"lock", "record"}
  BY HasOrder DEF CreateOrder, InsertOrder, InsertItems, At, Active, Step
<1>2. ProcTyped'
  BY <1>1, ControlTyped DEF CreateOrder, InsertOrder, InsertItems
<1>3. row' \in [Order -> RowType] /\ items' \subseteq Order
  <2>1. CASE InsertItems(p)
    BY <1>1, <2>1 DEF InsertItems, TypeInv, TypeOK
  <2>2. CASE InsertOrder(p)
    <3>1. row \in [Order -> RowType]
      BY DEF TypeInv, TypeOK
    <3>2. [row EXCEPT ![proc[p].order].status = "PENDING"] \in [Order -> RowType]
      BY <3>1 DEF RowType, Status
    <3>3. QED
      BY <2>2, <3>1, <3>2 DEF InsertOrder, TypeInv, TypeOK
  <2>3. QED
    BY <2>1, <2>2 DEF CreateOrder
<1>4. UNCHANGED <<recorded, published, deadline, ticket, intent, refund, accepted, late, lock,
                  batch, requests, overlapped, delayed>>
  BY DEF CreateOrder, InsertOrder, InsertItems, services, history
<1>5. QED
  BY <1>2, <1>3, <1>4 DEF TypeInv, TypeOK, ProcTyped

------------------------------------------------------------------------------
(* The other operations.  Their calls all have the type of Await. *)

LEMMA KeptDeadline ==
  ASSUME TypeInv, UNCHANGED deadline
  PROVE  deadline' \in [Order -> {"none", "running", "passed"}]
BY DEF TypeInv, TypeOK

LEMMA ReserveTyped == ASSUME TypeInv, NEW p \in Proc, ReserveOrder(p) PROVE TypeInv'
<1>1. /\ Active(p) /\ proc[p] \in ProcType /\ proc[p].pi \in IntentId
      /\ proc[p].order \in Order /\ InRole(p, proc[p])
  BY HasOrder DEF ReserveOrder, FindItems, ReserveTickets, CreatePaymentIntent, At, Active
<1>2. CASE At(p, "reserve", "read") /\ ReadOrder(p, {"PENDING"}, NoIntent, "items")
  BY <1>2, Steps, Names, ReadTyped
<1>3. CASE FindItems(p)
  <2>1. (IF proc[p].order \in items THEN 1 ELSE 0) \in 0..Total
    BY OrderAssumption DEF OrderAssumption
  <2>2. PICK amount \in 0..Total : proc' = [proc EXCEPT ![p].pc = "hold", ![p].amount = amount]
    BY <1>3, <2>1 DEF FindItems
  <2>3. proc' = [proc EXCEPT ![p] = [proc[p] EXCEPT !.pc = "hold", !.try = proc[p].try,
                   !.pi = proc[p].pi, !.amount = amount, !.seen = proc[p].seen]]
    BY <1>1, <2>2 DEF ProcType, TypeInv, ProcTyped
  <2>4. /\ "hold" \in Step \ {"lock"} /\ proc[p].try \in Try
        /\ proc[p].seen \in Status \cup {Absent}
    BY <1>1, Steps DEF ProcType
  <2>5. ProcTyped'
    <3>1. Active(p) /\ proc[p].pi \in IntentId /\ ("hold" = "record" => proc[p].pi \in CallId)
      BY <1>1
    <3>2. QED
      BY <2>3, <2>4, <3>1, MoveTyped
  <2>6. UNCHANGED <<row, items, recorded, published, deadline, ticket, intent, refund, accepted,
                    late, lock, batch, requests, overlapped, delayed>>
    BY <1>3 DEF FindItems, database, services, history
  <2>7. QED
    BY <2>5, <2>6 DEF TypeInv, TypeOK, ProcTyped
<1>4. CASE ReserveTickets(p)
  BY <1>4, Steps, Names, AwaitTyped DEF ReserveTickets, At, TicketCall
<1>5. CASE CreatePaymentIntent(p)
  <2>1. proc[p].pc = "intent" /\ proc[p].op = "reserve"
    BY <1>5 DEF CreatePaymentIntent, At
  <2>2. <<p, proc[p].try>> \in IntentId
    BY <2>1, AttemptTyped, Names DEF PaymentCall
  <2>3. PICK pi \in IntentId : Await(p, "update", pi)
    BY <1>5, <2>2, Names DEF CreatePaymentIntent
  <2>4. QED
    BY <2>1, <2>3, Steps, AwaitTyped DEF PaymentCall
<1>6. CASE /\ At(p, "reserve", "update")
           /\ UpdateOrder(p, "RESERVED", proc[p].pi, TRUE)
           /\ deadline' = [deadline EXCEPT ![proc[p].order] = "running"]
  <2>1. deadline' \in [Order -> {"none", "running", "passed"}]
    BY <1>6 DEF TypeInv, TypeOK
  <2>2. QED
    BY <1>1, <1>6, <2>1, Steps, UpdateOrderTyped
<1>7. QED
  BY <1>2, <1>3, <1>4, <1>5, <1>6 DEF ReserveOrder

LEMMA ConfirmTyped == ASSUME TypeInv, NEW p \in Proc, ConfirmOrder(p) PROVE TypeInv'
<1>1. Active(p) /\ proc[p].pi \in IntentId
  BY HasOrder DEF ConfirmOrder, ConfirmPayment, ConfirmAllocation, At, Active
<1>2. CASE At(p, "confirm", "read") /\ ReadOrder(p, {"RESERVED"}, proc[p].pi, "capture")
  BY <1>1, <1>2, Steps, ReadTyped
<1>3. CASE ConfirmPayment(p)
  BY <1>1, <1>3, Steps, AwaitTyped DEF ConfirmPayment, At, PaymentCall
<1>4. CASE ConfirmAllocation(p)
  BY <1>1, <1>4, Steps, AwaitTyped DEF ConfirmAllocation, At, TicketCall
<1>5. CASE At(p, "confirm", "update") /\ UpdateOrder(p, "CONFIRMED", NoIntent, FALSE)
             /\ UNCHANGED deadline
  BY <1>5, Steps, Names, KeptDeadline, UpdateOrderTyped
<1>6. QED
  BY <1>2, <1>3, <1>4, <1>5 DEF ConfirmOrder

(* The two steps that cancelOrder and refundOrder share. *)
LEMMA GiveBackTyped ==
  ASSUME TypeInv, NEW p \in Proc, proc[p].op # "expire", InitiateRefund(p) \/ RecordRefund(p)
  PROVE  TypeInv'
<1>1. CASE InitiateRefund(p)
  <2>1. proc[p].pc = "refund"
    BY <1>1 DEF InitiateRefund
  <2>2. <<p, proc[p].try>> \in CallId /\ <<p, proc[p].try>> \in IntentId
    BY <2>1, AttemptTyped, Names DEF PaymentCall
  <2>3. QED
    BY <1>1, <2>1, <2>2, Steps, AwaitTyped DEF InitiateRefund, PaymentCall
<1>2. CASE RecordRefund(p)
  <2>1. Active(p) /\ proc[p].pi \in CallId
    BY <1>2, HasOrder DEF RecordRefund, Active, InRole
  <2>2. ProcTyped'
    BY <1>2, <2>1, Steps, ControlTyped DEF RecordRefund
  <2>3. recorded' \subseteq CallId
    BY <1>2, <2>1 DEF RecordRefund, TypeInv, TypeOK
  <2>4. QED
    BY <1>2, <2>2, <2>3 DEF RecordRefund, TypeInv, TypeOK, ProcTyped, services, history
<1>3. QED
  BY <1>1, <1>2

LEMMA CancelTyped == ASSUME TypeInv, NEW p \in Proc, CancelOrder(p) PROVE TypeInv'
<1>1. CASE /\ At(p, "cancel", "read")
           /\ ReadOrder(p, {"PENDING", "RESERVED", "CONFIRMED"}, row[proc[p].order].pi, "release")
  <2>1. row[proc[p].order].pi \in IntentId
    BY <1>1, HasOrder DEF At, Active, RowType
  <2>2. QED
    BY <1>1, <2>1, Steps, ReadTyped
<1>2. CASE CancelReleaseTickets(p)
  <2>1. AfterRelease(p) \in Step \ {"lock", "record"}
    BY Steps DEF AfterRelease
  <2>2. proc[p].pi \in IntentId
    BY <1>2, HasOrder DEF CancelReleaseTickets, At, Active
  <2>3. QED
    BY <1>2, <2>1, <2>2, AwaitTyped DEF CancelReleaseTickets, At, TicketCall
<1>3. CASE CancelPaymentIntent(p)
  <2>1. proc[p].pi \in IntentId
    BY <1>3, HasOrder DEF CancelPaymentIntent, At, Active
  <2>2. QED
    BY <1>3, <2>1, Steps, AwaitTyped DEF CancelPaymentIntent, At, PaymentCall
<1>4. CASE \/ At(p, "cancel", "refund") /\ InitiateRefund(p)
           \/ At(p, "cancel", "record") /\ RecordRefund(p)
  BY <1>4, GiveBackTyped DEF At
<1>5. CASE At(p, "cancel", "update") /\ UpdateOrder(p, "CANCELLED", NoIntent, FALSE)
             /\ UNCHANGED deadline
  BY <1>5, Steps, Names, KeptDeadline, UpdateOrderTyped
<1>6. QED
  BY <1>1, <1>2, <1>3, <1>4, <1>5 DEF CancelOrder

LEMMA RefundOrderTyped == ASSUME TypeInv, NEW p \in Proc, RefundOrder(p) PROVE TypeInv'
<1>1. row[proc[p].order].pi \in IntentId /\ row[proc[p].order].expires \in BOOLEAN
  BY HasOrder DEF RefundOrder, At, Active, RowType
<1>2. CASE At(p, "refund", "read")
             /\ ReadOrder(p, IF row[proc[p].order].pi = NoIntent THEN {} ELSE {"CONFIRMED"},
                          row[proc[p].order].pi, "refund")
  BY <1>1, <1>2, Steps, ReadTyped
<1>3. CASE \/ At(p, "refund", "refund") /\ InitiateRefund(p)
           \/ At(p, "refund", "record") /\ RecordRefund(p)
  BY <1>3, GiveBackTyped DEF At
<1>4. CASE At(p, "refund", "update")
             /\ UpdateOrder(p, "REFUNDED", NoIntent, row[proc[p].order].expires)
             /\ UNCHANGED deadline
  BY <1>1, <1>4, Steps, Names, KeptDeadline, UpdateOrderTyped
<1>5. QED
  BY <1>2, <1>3, <1>4 DEF RefundOrder

LEMMA ExpireTyped == ASSUME TypeInv, NEW p \in Proc, ExpireReservation(p) PROVE TypeInv'
<1>1. /\ Active(p) /\ proc[p].pi \in IntentId /\ row[proc[p].order].pi \in IntentId
  BY HasOrder DEF ExpireReservation, ExpireReleaseTickets, ExpireCancelIntent, At, Active, RowType
<1>2. CASE At(p, "expire", "read") /\ ReadOrder(p, {"RESERVED"}, row[proc[p].order].pi, "release")
  BY <1>1, <1>2, Steps, ReadTyped
<1>3. CASE ExpireReleaseTickets(p)
  <2>1. (IF proc[p].pi = NoIntent THEN "update" ELSE "void") \in Step \ {"lock", "record"}
    BY Steps
  <2>2. QED
    BY <1>1, <1>3, <2>1, AwaitTyped DEF ExpireReleaseTickets, At, TicketCall
<1>4. CASE ExpireCancelIntent(p)
  BY <1>1, <1>4, Steps, AwaitTyped DEF ExpireCancelIntent, At, PaymentCall
<1>5. CASE At(p, "expire", "update") /\ UpdateOrder(p, "EXPIRED", NoIntent, FALSE)
             /\ UNCHANGED deadline
  BY <1>5, Steps, Names, KeptDeadline, UpdateOrderTyped
<1>6. QED
  BY <1>2, <1>3, <1>4, <1>5 DEF ExpireReservation

------------------------------------------------------------------------------
(* The job and the environment. *)

LEMMA JobTyped ==
  ASSUME TypeInv, NEW w \in Worker, RunExpirationJob(w) \/ ExpireNext(w)
  PROVE  TypeInv'
<1>1. CASE RunExpirationJob(w)
  <2>1. batch' \in [Worker -> SUBSET Order]
    BY <1>1 DEF RunExpirationJob, ExpiredReservations, TypeInv, TypeOK
  <2>2. QED
    BY <1>1, <2>1
       DEF RunExpirationJob, TypeInv, TypeOK, ProcTyped, InRole, database, services, history
<1>2. CASE ExpireNext(w)
  <2>1. PICK o \in batch[w] : /\ batch' = [batch EXCEPT ![w] = @ \ {o}]
                              /\ proc' = [proc EXCEPT ![w] = [Idle EXCEPT !.op = "expire",
                                                       !.order = o, !.pc = "read"]]
    BY <1>2 DEF ExpireNext
  <2>2. o \in Order /\ batch' \in [Worker -> SUBSET Order] /\ w \in Proc
    BY <2>1 DEF TypeInv, TypeOK, Proc
  <2>3. [Idle EXCEPT !.op = "expire", !.order = o, !.pc = "read"] \in ProcType
    BY <2>2, IdleTyped DEF ProcType, Operation, Step
  <2>4. InRole(w, [Idle EXCEPT !.op = "expire", !.order = o, !.pc = "read"])
    BY <2>2 DEF InRole, Idle, Operation
  <2>5. ProcTyped'
    BY <2>1, <2>2, <2>3, <2>4, HandlerTyped DEF TypeInv
  <2>6. QED
    BY <1>2, <2>2, <2>5 DEF ExpireNext, TypeInv, TypeOK, ProcTyped, database, services, history
<1>3. QED
  BY <1>1, <1>2

LEMMA CrashTyped == ASSUME TypeInv, NEW p \in Proc, Crash(p) PROVE TypeInv'
<1>1. ProcTyped'
  BY Steps, ControlTyped DEF Crash
<1>2. batch' \in [Worker -> SUBSET Order]
  BY DEF Crash, TypeInv, TypeOK
<1>3. QED
  BY <1>1, <1>2 DEF Crash, TypeInv, TypeOK, ProcTyped, database, services, history

LEMMA TimeoutTyped ==
  ASSUME TypeInv, NEW o \in Order, ReservationTimesOut(o)
  PROVE  TypeInv'
<1>1. deadline' \in [Order -> {"none", "running", "passed"}]
  BY DEF ReservationTimesOut, TypeInv, TypeOK
<1>2. QED
  BY <1>1 DEF ReservationTimesOut, TypeInv, TypeOK, ProcTyped, InRole, database, services, history

LEMMA SettlesTyped ==
  ASSUME TypeInv, NEW i \in CallId, PaymentSettles(i)
  PROVE  TypeInv'
<1>1. intent' \in [CallId -> IntentType]
  BY ZenonT(60) DEF PaymentSettles, TypeInv, TypeOK, IntentType, IntentState
<1>2. QED
  BY <1>1 DEF PaymentSettles, TypeInv, TypeOK, ProcTyped, InRole, database, history

LEMMA InitTyped == ASSUME Init PROVE TypeInv
<1> USE OrderAssumption DEF OrderAssumption, Init
<1>1. /\ row \in [Order -> RowType]
      /\ lock \in [Order -> [LockKey -> Proc \cup {None}]]
  BY Names DEF RowType, Absent, Status
<1>2. /\ intent \in [CallId -> IntentType]
      /\ refund \in [CallId -> RefundType]
  BY Names DEF IntentType, RefundType, IntentState
<1>3. proc \in [Proc -> ProcType] /\ ProcTyped
  BY IdleTyped DEF ProcTyped
<1>4. /\ ticket \in [Order -> TicketState]
      /\ batch \in [Worker -> SUBSET Order]
      /\ deadline \in [Order -> {"none", "running", "passed"}]
      /\ requests \in 0..MaxRequests
  BY DEF TicketState
<1>5. QED
  BY <1>1, <1>2, <1>3, <1>4 DEF TypeInv, TypeOK

LEMMA StepPreservesTypes == ASSUME TypeInv, [Next]_vars PROVE TypeInv'
<1>1. ASSUME NEW p \in Proc, Handle(p) PROVE TypeInv'
  BY <1>1, CreateTyped, ReserveTyped, ConfirmTyped, CancelTyped, RefundOrderTyped,
     ExpireTyped, AnnounceTyped, LockTyped DEF Handle
<1>2. CASE UNCHANGED vars
  BY <1>2 DEF vars, TypeInv, TypeOK, ProcTyped, InRole
<1>3. QED
  BY <1>1, <1>2, RequestTyped, CrashTyped, JobTyped, TimeoutTyped, SettlesTyped,
     LateTyped, LockExpiresTyped DEF Next

(* Whatever the requests, the job, the failures, the repeated and late     *)
(* calls and the crashes, every variable of the order service keeps its    *)
(* type; in particular no intent is ever refunded beyond the total.        *)
THEOREM TypeCorrect == Spec => []TypeOK
<1>1. Init => TypeInv
  BY InitTyped
<1>2. TypeInv /\ [Next]_vars => TypeInv'
  BY StepPreservesTypes
<1>3. TypeInv => TypeOK
  BY DEF TypeInv
<1>4. QED
  BY <1>1, <1>2, <1>3, PTL DEF Spec
==============================================================================
