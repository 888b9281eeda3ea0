-------------------------- MODULE OrderStatus_proofs -------------------------
(***************************************************************************)
(* Status and tickets in OrderLifecycle, for any number of orders,         *)
(* workers, requests, attempts and calls under way: proofs of              *)
(* UndisturbedTransitions and TicketsFollowStatus.  What a handler read of *)
(* an order stays true until it writes, as long as no other handler of the *)
(* order is between its own read and write.                                *)
(***************************************************************************)
EXTENDS OrderLifecycle_proofs

(* The statuses an operation acts on. *)
ActsOn(op) == CASE op = "reserve"               -> {"PENDING"}
                [] op \in {"confirm", "expire"} -> {"RESERVED"}
                [] op = "cancel"                -> {"PENDING", "RESERVED", "CONFIRMED"}
                [] op = "refund"                -> {"CONFIRMED"}
                [] OTHER                        -> {}

Inserting(p) == At(p, "create", "insert")

Alone(o) == \A p, q \in Proc : InWindow(p, o) /\ InWindow(q, o) => p = q

(* The row still has the status that handler p read. *)
OnCourse(p, o) ==
  proc[p].op # "create" => /\ row[o].status = proc[p].seen
                           /\ proc[p].seen \in ActsOn(proc[p].op)

(* An order whose row is still to be inserted is in the hands of the       *)
(* handler that inserts it.                                                *)
InsertionOK(p) == Inserting(p) =>
                    /\ row[proc[p].order].status = Absent
                    /\ \A q \in Proc \ {p} : Active(q) => proc[q].order # proc[p].order
AbsentOK(o) == row[o].status = Absent =>
                 /\ \A w \in Worker : o \notin batch[w]
                 /\ \A p \in Proc : Active(p) /\ proc[p].order = o => Inserting(p)

(* Tickets agree with the row, and are where the handler's calls put them. *)
TicketsOK(o) ==
  /\ row[o].status = Absent => ticket[o] = "none"
  /\ row[o].status = "PENDING" => ticket[o] # "sold"
  /\ row[o].status \in {"CONFIRMED", "REFUNDED"} => ticket[o] \in {"sold", "released"}
  /\ row[o].status = "CANCELLED" => ticket[o] \in {"none", "released"}

TicketsOnCourse(p, o) ==
  /\ proc[p].op = "confirm" /\ proc[p].pc = "update" => ticket[o] = "sold"
  /\ proc[p].op = "cancel" /\ proc[p].pc \in {"void", "refund", "record", "update"}
       => ticket[o] \in {"none", "released"}

StoryOK(o) == /\ o \notin overlapped =>
                   /\ Alone(o)
                   /\ \A p \in Proc : InWindow(p, o) => OnCourse(p, o)
              /\ o \notin overlapped \cup delayed =>
                   /\ TicketsOK(o)
                   /\ \A p \in Proc : InWindow(p, o) => TicketsOnCourse(p, o)

CourseInv == /\ \A p \in Proc : InsertionOK(p)
             /\ \A o \in Order : AbsentOK(o) /\ StoryOK(o)
             /\ \A c \in late : c.kind \in TicketCall => c.order \in delayed

------------------------------------------------------------------------------
(* What a step of one handler leaves as it was. *)

LEMMA OthersInWindow ==
  ASSUME NEW p \in Proc, \A q \in Proc \ {p} : proc'[q] = proc[q], NEW o
  PROVE  /\ \A q \in Proc \ {p} : InWindow(q, o)' <=> InWindow(q, o)
         /\ \A q \in Proc \ {p} : Active(q)' <=> Active(q)
         /\ \A q \in Proc \ {p} : Inserting(q)' <=> Inserting(q)
BY DEF InWindow, Active, Inserting, At

(* The window of an order belongs to one of its active handlers. *)
LEMMA WindowActive ==
  ASSUME NEW p, NEW o, InWindow(p, o)
  PROVE  Active(p) /\ proc[p].order = o
BY DEF InWindow, Active

(* Only the handler that inserts an order works on one without a row.      *)
LEMMA KnownOrder ==
  ASSUME TypeInv, CourseInv, NEW p \in Proc, Active(p), ~Inserting(p)
  PROVE  row[proc[p].order].status # Absent
BY HasOrder DEF CourseInv, AbsentOK

(* A step that moves neither rows nor tickets.  Where it takes its handler *)
(* must fit the order: one with a row, or one to insert; and whoever comes *)
(* into the window of an order on its own must be on course.               *)
LEMMA AsideStep ==
  ASSUME TypeInv, CourseInv, NEW p \in Proc, \A q \in Proc \ {p} : proc'[q] = proc[q],
         UNCHANGED <<row, ticket, delayed>>, overlapped \subseteq overlapped',
         \A c \in late' : c.kind \in TicketCall => c.order \in delayed,
         \A w \in Worker, o \in Order : o \in batch'[w] => o \in batch[w] \/ row[o].status # Absent,
         Active(p)' => \/ row[proc'[p].order].status # Absent /\ ~Inserting(p)'
                       \/ /\ row[proc'[p].order].status = Absent /\ Inserting(p)'
                          /\ \A q \in Proc \ {p} : Active(q) => proc[q].order # proc'[p].order,
         \A o \in Order : InWindow(p, o)' /\ o \notin overlapped' =>
           /\ \A q \in Proc \ {p} : ~InWindow(q, o)
           /\ OnCourse(p, o)'
           /\ o \notin delayed => TicketsOnCourse(p, o)'
  PROVE  CourseInv'
<1>1. ASSUME NEW q \in Proc PROVE InsertionOK(q)'
  <2>1. CASE q = p
    BY <2>1 DEF InsertionOK, Inserting, At, Active
  <2>2. CASE q # p
    <3>1. InsertionOK(q) /\ proc'[q] = proc[q]
      BY <2>2 DEF CourseInv
    <3>2. Inserting(q) => (Active(p)' => proc'[p].order # proc[q].order)
      BY <2>2, <3>1 DEF InsertionOK, Inserting, At, Active
    <3>3. QED
      BY <3>1, <3>2 DEF InsertionOK, Inserting, At, Active
  <2>3. QED
    BY <2>1, <2>2
<1>2. ASSUME NEW o \in Order PROVE AbsentOK(o)'
  <2>1. AbsentOK(o)
    BY DEF CourseInv
  <2>2. row[o].status = Absent => \A w \in Worker : o \notin batch'[w]
    BY <2>1 DEF AbsentOK
  <2>3. ASSUME row[o].status = Absent, NEW q \in Proc, Active(q)', proc'[q].order = o
        PROVE  Inserting(q)'
    <3>1. CASE q = p
      BY <2>3, <3>1
    <3>2. CASE q # p
      BY <2>1, <2>3, <3>2, OthersInWindow DEF AbsentOK
    <3>3. QED
      BY <3>1, <3>2
  <2>4. QED
    BY <2>2, <2>3 DEF AbsentOK
<1>3. ASSUME NEW o \in Order PROVE StoryOK(o)'
  <2>1. StoryOK(o) /\ \A q \in Proc \ {p} : InWindow(q, o)' <=> InWindow(q, o)
    BY OthersInWindow DEF CourseInv
  <2>2. ASSUME o \notin overlapped' PROVE Alone(o)'
    BY <2>1, <2>2 DEF StoryOK, Alone
  <2>3. ASSUME o \notin overlapped', NEW q \in Proc, InWindow(q, o)' PROVE OnCourse(q, o)'
    <3>1. CASE q = p
      BY <2>3, <3>1
    <3>2. CASE q # p
      BY <2>1, <2>3, <3>2 DEF StoryOK, OnCourse
    <3>3. QED
      BY <3>1, <3>2
  <2>4. ASSUME o \notin overlapped' \cup delayed PROVE TicketsOK(o)'
    BY <2>1, <2>4 DEF StoryOK, TicketsOK
  <2>5. ASSUME o \notin overlapped' \cup delayed, NEW q \in Proc, InWindow(q, o)'
        PROVE  TicketsOnCourse(q, o)'
    <3>1. CASE q = p
      BY <2>5, <3>1
    <3>2. CASE q # p
      BY <2>1, <2>5, <3>2 DEF StoryOK, TicketsOnCourse
    <3>3. QED
      BY <3>1, <3>2
  <2>6. QED
    BY <2>2, <2>3, <2>4, <2>5 DEF StoryOK
<1>4. QED
  BY <1>1, <1>2, <1>3 DEF CourseInv

(* A step of a handler in the window of its order, which stays on course   *)
(* or leaves the window, and leaves the tickets in line with the row.      *)
LEMMA WindowStep ==
  ASSUME TypeInv, CourseInv, NEW p \in Proc, NEW o \in Order, InWindow(p, o),
         \A q \in Proc \ {p} : proc'[q] = proc[q],
         \A x \in Order \ {o} : row'[x] = row[x] /\ ticket'[x] = ticket[x],
         UNCHANGED <<overlapped, batch>>, delayed \subseteq delayed',
         \A c \in late' : c.kind \in TicketCall => c.order \in delayed',
         ~Inserting(p)', Active(p)' => proc'[p].order = o,
         row'[o].status = Absent => row[o].status = Absent /\ ~Active(p)',
         o \notin overlapped /\ InWindow(p, o)' => OnCourse(p, o)',
         o \notin overlapped \cup delayed' =>
           TicketsOK(o)' /\ (InWindow(p, o)' => TicketsOnCourse(p, o)')
  PROVE  CourseInv'
<1>1. Active(p) /\ proc[p].order = o
  BY WindowActive
<1>2. ASSUME NEW q \in Proc PROVE InsertionOK(q)'
  <2>1. CASE q = p
    BY <2>1 DEF InsertionOK
  <2>2. CASE q # p
    <3>1. InsertionOK(q) /\ proc'[q] = proc[q]
      BY <2>2 DEF CourseInv
    <3>2. Inserting(q) => proc[q].order # o
      BY <1>1, <2>2, <3>1 DEF InsertionOK
    <3>3. Inserting(q) => proc[q].order \in Order
      BY HasOrder DEF Inserting, At, Active
    <3>4. QED
      BY <2>2, <3>1, <3>2, <3>3 DEF InsertionOK, Inserting, At, Active
  <2>3. QED
    BY <2>1, <2>2
<1>3. ASSUME NEW x \in Order PROVE AbsentOK(x)'
  <2>1. AbsentOK(x) /\ row'[x].status = Absent => row[x].status = Absent
    BY DEF CourseInv
  <2>2. ASSUME row'[x].status = Absent, NEW q \in Proc, Active(q)', proc'[q].order = x
        PROVE  Inserting(q)'
    <3>1. CASE q = p
      BY <2>1, <2>2, <3>1
    <3>2. CASE q # p
      <4>1. Active(q) /\ proc[q].order = x
        BY <2>2, <3>2, OthersInWindow
      <4>2. Inserting(q)
        BY <2>1, <2>2, <4>1 DEF CourseInv, AbsentOK
      <4>3. QED
        BY <3>2, <4>2, OthersInWindow
    <3>3. QED
      BY <3>1, <3>2
  <2>3. QED
    BY <2>1, <2>2 DEF AbsentOK, CourseInv
<1>4. ASSUME NEW x \in Order \ {o} PROVE StoryOK(x)'
  <2>1. /\ StoryOK(x) /\ \A q \in Proc \ {p} : InWindow(q, x)' <=> InWindow(q, x)
        /\ ~InWindow(p, x)' /\ row'[x] = row[x] /\ ticket'[x] = ticket[x]
    BY OthersInWindow, WindowActive DEF CourseInv, InWindow, Active
  <2>2. ASSUME x \notin overlapped PROVE Alone(x)'
    BY <2>1, <2>2 DEF StoryOK, Alone
  <2>3. ASSUME x \notin overlapped, NEW q \in Proc, InWindow(q, x)' PROVE OnCourse(q, x)'
    <3>1. q # p /\ OnCourse(q, x)
      BY <2>1, <2>3 DEF StoryOK
    <3>2. QED
      BY <2>1, <3>1 DEF OnCourse
  <2>4. ASSUME x \notin overlapped \cup delayed' PROVE TicketsOK(x)'
    BY <2>1, <2>4 DEF StoryOK, TicketsOK
  <2>5. ASSUME x \notin overlapped \cup delayed', NEW q \in Proc, InWindow(q, x)'
        PROVE  TicketsOnCourse(q, x)'
    <3>1. q # p /\ TicketsOnCourse(q, x)
      BY <2>1, <2>5 DEF StoryOK
    <3>2. QED
      BY <2>1, <3>1 DEF TicketsOnCourse
  <2>6. QED
    BY <2>2, <2>3, <2>4, <2>5 DEF StoryOK
<1>5. StoryOK(o)'
  <2>1. o \notin overlapped => \A q \in Proc \ {p} : ~InWindow(q, o)'
    BY OthersInWindow DEF CourseInv, StoryOK, Alone
  <2>2. o \notin overlapped => Alone(o)'
    BY <2>1 DEF Alone
  <2>3. QED
    BY <2>1, <2>2 DEF StoryOK
<1>6. QED
  BY <1>2, <1>3, <1>4, <1>5 DEF CourseInv

(* The same for a handler that leaves the row and the tickets alone.       *)
LEMMA PassingStep ==
  ASSUME TypeInv, CourseInv, NEW p \in Proc, Active(p),
         \A q \in Proc \ {p} : proc'[q] = proc[q],
         UNCHANGED <<row, ticket, delayed, overlapped, batch>>, late' \subseteq late,
         ~Inserting(p)', Active(p)' => proc'[p].order = proc[p].order /\ ~Inserting(p),
         \A o \in Order : InWindow(p, o)' =>
           /\ InWindow(p, o)
           /\ o \notin overlapped => OnCourse(p, o)'
           /\ o \notin overlapped \cup delayed => TicketsOnCourse(p, o)'
  PROVE  CourseInv'
<1>1. Active(p)' => row[proc'[p].order].status # Absent
  BY KnownOrder
<1>2. \A o \in Order : InWindow(p, o)' /\ o \notin overlapped' =>
        /\ \A q \in Proc \ {p} : ~InWindow(q, o)
        /\ OnCourse(p, o)'
        /\ o \notin delayed => TicketsOnCourse(p, o)'
  BY DEF CourseInv, StoryOK, Alone
<1>3. QED
  BY <1>1, <1>2, AsideStep DEF CourseInv

(* Whoever leaves keeps its order, if it still has to release the lock.    *)
LEMMA LeavesOrder ==
  ASSUME TypeInv, NEW p \in Proc, Unwind(p) \/ proc' = [proc EXCEPT ![p] = Idle]
  PROVE  Active(p)' => proc'[p].order = proc[p].order /\ ~Inserting(p)
<1>1. proc \in [Proc -> ProcType]
  BY DEF TypeInv, TypeOK
<1>2. CASE proc' = [proc EXCEPT ![p] = Idle]
  BY <1>1, <1>2 DEF Active, Idle
<1>3. CASE proc[p].op \in LockKey /\ Finish(p, "finally")
  BY <1>1, <1>3 DEF Finish, Idle, Inserting, At, LockKey
<1>4. QED
  BY <1>2, <1>3 DEF Unwind

LEMMA LeavingAside ==
  ASSUME TypeInv, CourseInv, NEW p \in Proc, Active(p),
         Unwind(p) \/ proc' = [proc EXCEPT ![p] = Idle],
         UNCHANGED <<row, ticket, delayed, overlapped, batch>>, late' \subseteq late
  PROVE  CourseInv'
<1>1. /\ proc'[p].pc \in {"idle", "finally"} /\ \A q \in Proc \ {p} : proc'[q] = proc[q]
  BY Leaves
<1>2. Active(p)' => proc'[p].order = proc[p].order /\ ~Inserting(p)
  BY LeavesOrder
<1>3. ~Inserting(p)' /\ \A o \in Order : ~InWindow(p, o)'
  BY <1>1 DEF Inserting, At, InWindow
<1>4. QED
  BY <1>1, <1>2, <1>3, PassingStep

------------------------------------------------------------------------------
(* Reads, calls and writes. *)

(* A handler reads an order: it comes into the window alone, or the order  *)
(* counts as overlapped.                                                   *)
LEMMA ReadCourse ==
  ASSUME TypeInv, CourseInv, NEW p \in Proc, proc[p].op # "create",
         NEW allowed \in SUBSET ActsOn(proc[p].op), NEW pi,
         NEW next \in {"items", "capture", "release", "refund"},
         proc[p].op = "cancel" => next = "release",
         ReadOrder(p, allowed, pi, next)
  PROVE  CourseInv'
<1>1. /\ UNCHANGED <<row, ticket, delayed, batch, late>> /\ Active(p) /\ proc[p].pc = "read"
      /\ proc \in [Proc -> ProcType] /\ proc[p] \in ProcType /\ proc[p].order \in Order
  BY HasOrder DEF ReadOrder, database, services, Active, TypeInv, TypeOK
<1>2. CASE Unwind(p) /\ UNCHANGED overlapped
  BY <1>1, <1>2, LeavingAside
<1>3. CASE /\ row[proc[p].order].status \in allowed
           /\ proc' = [proc EXCEPT ![p].pc = next, ![p].pi = pi,
                                   ![p].seen = row[proc[p].order].status]
           /\ overlapped' = IF \E q \in Proc \ {p} : InWindow(q, proc[p].order)
                              THEN overlapped \cup {proc[p].order} ELSE overlapped
  <2>1. /\ \A q \in Proc \ {p} : proc'[q] = proc[q]
        /\ proc'[p].op = proc[p].op /\ proc'[p].pc = next /\ proc'[p].order = proc[p].order
        /\ proc'[p].seen = row[proc[p].order].status
    BY <1>1, <1>3 DEF ProcType
  <2>2. row[proc[p].order].status # Absent /\ ~Inserting(p)'
    BY <1>1, <2>1, KnownOrder DEF Inserting, At
  <2>3. ASSUME NEW o \in Order, InWindow(p, o)', o \notin overlapped'
        PROVE  /\ \A q \in Proc \ {p} : ~InWindow(q, o)
               /\ OnCourse(p, o)'
               /\ TicketsOnCourse(p, o)'
    <3>1. o = proc[p].order
      BY <2>1, <2>3 DEF InWindow
    <3>2. OnCourse(p, o)'
      BY <1>1, <1>3, <2>1, <3>1 DEF OnCourse
    <3>3. TicketsOnCourse(p, o)'
      BY <2>1 DEF TicketsOnCourse
    <3>4. QED
      BY <1>3, <2>3, <3>1, <3>2, <3>3
  <2>4. QED
    BY <1>1, <1>3, <2>1, <2>2, <2>3, AsideStep DEF CourseInv
<1>4. QED
  BY <1>2, <1>3 DEF ReadOrder

(* What an attempt of a handler, honoured or not, does to tickets.         *)
TicketsMoveTo(p, t) ==
  LET o == proc[p].order IN
  /\ \A x \in Order \ {o} : t[x] = ticket[x]
  /\ \/ t[o] = ticket[o]
     \/ proc[p].pc = "hold" /\ t[o] = "held"
     \/ proc[p].pc = "allocate" /\ t[o] = "sold"
     \/ proc[p].pc = "release" /\ t[o] = IF ticket[o] = "none" THEN "none" ELSE "released"

LEMMA AttemptMoves ==
  ASSUME TypeInv, NEW p \in Proc, Active(p),
         Effect(Attempt(p)) \/ UNCHANGED services
  PROVE  TicketsMoveTo(p, ticket')
<1>1. /\ ticket \in [Order -> TicketState] /\ proc[p].order \in Order
      /\ Attempt(p).kind = proc[p].pc /\ Attempt(p).order = proc[p].order
  BY HasOrder DEF TypeInv, TypeOK, Attempt
<1>2. CASE UNCHANGED ticket
  BY <1>2 DEF TicketsMoveTo
<1>3. CASE TicketEffect(Attempt(p)) /\ ~UNCHANGED ticket
  BY <1>1, <1>3 DEF TicketsMoveTo, TicketEffect, TicketCall, TicketHold, TicketSell, TicketRelease
<1>4. QED
  BY <1>2, <1>3 DEF Effect, PaymentEffect, services

(* A release or an allocation that is answered did happen. *)
LEMMA AnswerMoves ==
  ASSUME TypeInv, NEW p \in Proc, Active(p), NEW next, NEW pi, Answered(p, next, pi)
  PROVE  /\ proc[p].pc = "allocate" => ticket'[proc[p].order] = "sold"
         /\ proc[p].pc = "release" => ticket'[proc[p].order] \in {"none", "released"}
         /\ proc[p].pc \in PaymentCall => ticket' = ticket
<1>1. /\ ticket \in [Order -> TicketState] /\ proc[p].order \in Order
      /\ Attempt(p).kind = proc[p].pc /\ Attempt(p).order = proc[p].order
      /\ Effect(Attempt(p))
  BY HasOrder DEF TypeInv, TypeOK, Attempt, Answered
<1>2. CASE TicketEffect(Attempt(p))
  BY <1>1, <1>2 DEF TicketEffect, TicketCall, PaymentCall, TicketSell, TicketRelease
<1>3. CASE PaymentEffect(Attempt(p))
  BY <1>1, <1>3 DEF PaymentEffect, PaymentCall
<1>4. QED
  BY <1>1, <1>2, <1>3 DEF Effect

LEMMA AwaitCourse ==
  ASSUME TypeInv, CourseInv, NEW p \in Proc, proc[p].pc \in TicketCall \cup PaymentCall,
         proc[p].op # "create",
         proc[p].pc = "hold" => proc[p].op = "reserve",
         proc[p].pc = "allocate" => proc[p].op = "confirm",
         proc[p].pc = "release" => proc[p].op \in {"cancel", "expire"},
         proc[p].op = "cancel" => proc[p].pc \in {"release", "refund", "void"},
         NEW next \in {"intent", "allocate", "refund", "void", "record", "update"}, NEW pi,
         proc[p].op = "confirm" /\ next = "update" => proc[p].pc = "allocate",
         Await(p, next, pi)
  PROVE  CourseInv'
<1>1. /\ Active(p) /\ proc[p].pc \notin {"idle", "lock", "read", "announce", "finally"}
      /\ proc \in [Proc -> ProcType] /\ proc[p] \in ProcType /\ proc[p].order \in Order
      /\ ~Inserting(p)
  BY HasOrder DEF Active, TicketCall, PaymentCall, Inserting, At, TypeInv, TypeOK
<1> SUFFICES ASSUME NEW o \in Order, o = proc[p].order PROVE CourseInv'
  BY <1>1
<1>2. InWindow(p, o) /\ row[o].status # Absent
  BY <1>1, KnownOrder DEF InWindow
<1>3. UNCHANGED <<row, overlapped, batch>>
  BY DEF Await, database
<1>4. Effect(Attempt(p)) \/ UNCHANGED services
  BY DEF Await, Answered, Refused, TimedOut
<1>5. TicketsMoveTo(p, ticket')
  BY <1>1, <1>4, AttemptMoves
<1>6. /\ \A q \in Proc \ {p} : proc'[q] = proc[q]
      /\ \/ proc'[p].pc \in {"idle", "finally"}
         \/ /\ proc'[p].op = proc[p].op /\ proc'[p].order = o /\ proc'[p].seen = proc[p].seen
            /\ proc'[p].pc \in {proc[p].pc, next}
      /\ Active(p)' => proc'[p].order = o
  <2>1. CASE Unwind(p)
    BY <2>1, Leaves, LeavesOrder
  <2>2. CASE Goto(p, next)
    BY <1>1, <2>2 DEF Goto, ProcType
  <2>3. CASE Answered(p, next, pi)
    BY <1>1, <2>3 DEF Answered, ProcType
  <2>4. CASE proc' = [proc EXCEPT ![p].try = @ + 1]
    BY <1>1, <2>4 DEF ProcType
  <2>5. QED
    BY <2>1, <2>2, <2>3, <2>4 DEF Await, Refused, TimedOut, Thrown
<1>7. /\ delayed \subseteq delayed'
      /\ \A c \in late' : c.kind \in TicketCall => c.order \in delayed'
  <2>1. CASE UNCHANGED <<late, delayed>>
    BY <2>1 DEF CourseInv
  <2>2. CASE TimedOut(p, next)
    BY <2>2 DEF TimedOut, Attempt, CourseInv
  <2>3. QED
    BY <2>1, <2>2 DEF Await, Answered, Refused
<1>8. ~Inserting(p)'
  BY <1>1, <1>6 DEF Inserting, At
<1>9. o \notin overlapped => OnCourse(p, o)
  BY <1>2 DEF CourseInv, StoryOK
<1>10. o \notin overlapped /\ InWindow(p, o)' => OnCourse(p, o)'
  BY <1>3, <1>6, <1>9 DEF OnCourse, InWindow
<1>11. ASSUME o \notin overlapped \cup delayed'
       PROVE  TicketsOK(o)' /\ (InWindow(p, o)' => TicketsOnCourse(p, o)')
  <2>1. /\ TicketsOK(o) /\ TicketsOnCourse(p, o)
        /\ row[o].status = proc[p].seen /\ proc[p].seen \in ActsOn(proc[p].op)
    BY <1>1, <1>2, <1>7, <1>9, <1>11 DEF CourseInv, StoryOK, OnCourse
  <2>2. TicketsOK(o)'
    <3>1. CASE ticket'[o] = ticket[o]
      BY <1>3, <2>1, <3>1 DEF TicketsOK
    <3>2. CASE proc[p].pc = "hold" /\ ticket'[o] = "held"
      BY <1>2, <1>3, <2>1, <3>2 DEF TicketsOK, ActsOn, Absent
    <3>3. CASE proc[p].pc = "allocate" /\ ticket'[o] = "sold"
      BY <1>2, <1>3, <2>1, <3>3 DEF TicketsOK, ActsOn, Absent
    <3>4. CASE /\ proc[p].pc = "release"
               /\ ticket'[o] = IF ticket[o] = "none" THEN "none" ELSE "released"
      BY <1>2, <1>3, <2>1, <3>4 DEF TicketsOK, ActsOn, Absent
    <3>5. QED
      BY <1>5, <3>1, <3>2, <3>3, <3>4 DEF TicketsMoveTo
  <2>3. ASSUME InWindow(p, o)' PROVE TicketsOnCourse(p, o)'
    <3>1. CASE Answered(p, next, pi)
      <4>1. /\ proc'[p].op = proc[p].op /\ proc'[p].pc = next
        BY <1>1, <3>1 DEF Answered, ProcType
      <4>2. /\ proc[p].pc = "allocate" => ticket'[o] = "sold"
            /\ proc[p].pc = "release" => ticket'[o] \in {"none", "released"}
            /\ proc[p].pc \in PaymentCall => ticket'[o] = ticket[o]
        BY <1>1, <3>1, AnswerMoves
      <4>3. QED
        BY <2>1, <4>1, <4>2 DEF TicketsOnCourse, PaymentCall
    <3>2. CASE proc[p].op = "expire" /\ Goto(p, next)
      BY <1>1, <3>2 DEF Goto, ProcType, TicketsOnCourse
    <3>3. CASE Unwind(p)
      BY <2>3, <3>3, Leaves DEF InWindow
    <3>4. CASE proc' = [proc EXCEPT ![p].try = @ + 1] /\ UNCHANGED services
      BY <1>1, <2>1, <3>4 DEF ProcType, TicketsOnCourse, services
    <3>5. QED
      BY <3>1, <3>2, <3>3, <3>4 DEF Await, Refused, TimedOut, Thrown
  <2>4. QED
    BY <2>2, <2>3
<1>12. \A x \in Order \ {o} : row'[x] = row[x] /\ ticket'[x] = ticket[x]
  BY <1>3, <1>5 DEF TicketsMoveTo
<1>13. QED
  BY <1>2, <1>3, <1>6, <1>7, <1>8, <1>10, <1>11, <1>12, WindowStep

(* The last write of an operation is what its calls have prepared. *)
LeadsTo(op) == CASE op = "reserve" -> "RESERVED"
                 [] op = "confirm" -> "CONFIRMED"
                 [] op = "cancel"  -> "CANCELLED"
                 [] op = "refund"  -> "REFUNDED"
                 [] op = "expire"  -> "EXPIRED"
                 [] OTHER          -> "PENDING"

LEMMA WrittenRow ==
  ASSUME TypeInv, NEW p \in Proc, NEW status, NEW pi, NEW expires,
         UpdateOrder(p, status, pi, expires)
  PROVE  /\ \A x \in Order \ {proc[p].order} : row'[x] = row[x]
         /\ \/ row'[proc[p].order] = row[proc[p].order]
            \/ row'[proc[p].order].status = status
<1>1. row \in [Order -> RowType] /\ proc[p].order \in Order
  BY HasOrder DEF UpdateOrder, Active, TypeInv, TypeOK
<1>2. CASE UNCHANGED row
  BY <1>2
<1>3. CASE Update(proc[p].order, status, pi, expires)
  <2>1. PICK e : row' = [row EXCEPT ![proc[p].order] =
                           [status  |-> status,
                            pi      |-> IF pi = NoIntent THEN @.pi ELSE pi,
                            expires |-> e]]
    BY <1>3 DEF Update
  <2>2. QED
    BY <1>1, <2>1
<1>4. QED
  BY <1>2, <1>3 DEF UpdateOrder

LEMMA UpdateCourse ==
  ASSUME TypeInv, CourseInv, NEW p \in Proc,
         proc[p].op \in {"reserve", "confirm", "cancel", "refund", "expire"}, NEW pi, NEW expires,
         UpdateOrder(p, LeadsTo(proc[p].op), pi, expires)
  PROVE  CourseInv'
<1>1. /\ Active(p) /\ proc[p].pc = "update" /\ ~Inserting(p)
      /\ proc \in [Proc -> ProcType] /\ proc[p] \in ProcType /\ proc[p].order \in Order
      /\ UNCHANGED <<ticket, overlapped, delayed, batch, late>>
  BY HasOrder DEF UpdateOrder, Active, Inserting, At, TypeInv, TypeOK, services, history
<1> SUFFICES ASSUME NEW o \in Order, o = proc[p].order PROVE CourseInv'
  BY <1>1
<1>2. InWindow(p, o) /\ row[o].status # Absent
  BY <1>1, KnownOrder DEF InWindow
<1>3. /\ \A q \in Proc \ {p} : proc'[q] = proc[q]
      /\ proc'[p].pc \in {"idle", "finally", "announce"}
      /\ Active(p)' => proc'[p].order = o
  <2>1. CASE Unwind(p)
    BY <2>1, Leaves, LeavesOrder
  <2>2. CASE Finish(p, "announce")
    BY <1>1, <2>2 DEF Finish, Idle
  <2>3. QED
    BY <2>1, <2>2 DEF UpdateOrder
<1>4. /\ \A x \in Order \ {o} : row'[x] = row[x]
      /\ row'[o] = row[o] \/ row'[o].status = LeadsTo(proc[p].op)
  BY WrittenRow
<1>5. LeadsTo(proc[p].op) \in Status /\ Absent \notin Status
  BY DEF LeadsTo, Status, Absent
<1>6. ASSUME o \notin overlapped \cup delayed PROVE TicketsOK(o)'
  <2>1. /\ TicketsOK(o) /\ TicketsOnCourse(p, o)
        /\ row[o].status = proc[p].seen /\ proc[p].seen \in ActsOn(proc[p].op)
    BY <1>1, <1>2, <1>6 DEF CourseInv, StoryOK, OnCourse
  <2>2. CASE row'[o] = row[o]
    BY <1>1, <2>1, <2>2 DEF TicketsOK
  <2>3. CASE row'[o].status = LeadsTo(proc[p].op)
    BY <1>1, <2>1, <2>3 DEF TicketsOK, TicketsOnCourse, LeadsTo, ActsOn, Absent
  <2>4. QED
    BY <1>4, <2>2, <2>3
<1>7. ~InWindow(p, o)' /\ ~Inserting(p)'
  BY <1>3 DEF InWindow, Inserting, At
<1>8. row'[o].status # Absent
  BY <1>2, <1>4, <1>5
<1>9. QED
  BY <1>1, <1>2, <1>3, <1>4, <1>6, <1>7, <1>8, WindowStep DEF CourseInv

------------------------------------------------------------------------------
(* The operations. *)

LEMMA CreateCourse ==
  ASSUME TypeInv, CourseInv, NEW p \in Proc, CreateOrder(p)
  PROVE  CourseInv'
<1>1. /\ Active(p) /\ proc \in [Proc -> ProcType] /\ proc[p] \in ProcType
      /\ proc[p].op = "create" /\ proc[p].order \in Order /\ row \in [Order -> RowType]
      /\ UNCHANGED <<ticket, overlapped, delayed, batch, late>>
  BY HasOrder DEF CreateOrder, InsertOrder, InsertItems, At, Active, TypeInv, TypeOK, services,
                  history
<1>2. CASE InsertItems(p)
  BY <1>1, <1>2, LeavingAside DEF InsertItems
<1>3. CASE InsertOrder(p) /\ UNCHANGED row /\ Unwind(p)
  BY <1>1, <1>3, LeavingAside
<1>4. CASE InsertOrder(p) /\ row' = [row EXCEPT ![proc[p].order].status = "PENDING"]
  <2> SUFFICES ASSUME NEW o \in Order, o = proc[p].order PROVE CourseInv'
    BY <1>1
  <2>1. /\ InWindow(p, o) /\ Inserting(p) /\ row[o].status = Absent
        /\ Unwind(p) \/ Goto(p, "items")
    BY <1>1, <1>4 DEF InsertOrder, At, InWindow, Inserting, CourseInv, InsertionOK
  <2>2. /\ \A x \in Order \ {o} : row'[x] = row[x]
        /\ row'[o].status = "PENDING"
    BY <1>1, <1>4 DEF RowType
  <2>3. /\ \A q \in Proc \ {p} : proc'[q] = proc[q]
        /\ Active(p)' => proc'[p].order = o
        /\ proc'[p].pc \in {"idle", "finally"} \/ (proc'[p].pc = "items" /\ proc'[p].op = "create")
    <3>1. CASE Unwind(p)
      BY <3>1, Leaves, LeavesOrder
    <3>2. CASE Goto(p, "items")
      BY <1>1, <3>2 DEF Goto, ProcType
    <3>3. QED
      BY <2>1, <3>1, <3>2
  <2>4. ~Inserting(p)' /\ (InWindow(p, o)' => OnCourse(p, o)' /\ TicketsOnCourse(p, o)')
    BY <2>3 DEF Inserting, At, InWindow, OnCourse, TicketsOnCourse
  <2>5. o \notin overlapped \cup delayed => TicketsOK(o)'
    BY <1>1, <2>1, <2>2 DEF CourseInv, StoryOK, TicketsOK
  <2>6. row'[o].status # Absent
    BY <2>2 DEF Absent
  <2>7. QED
    BY <1>1, <2>1, <2>2, <2>3, <2>4, <2>5, <2>6, WindowStep DEF CourseInv
<1>5. QED
  BY <1>2, <1>3, <1>4 DEF CreateOrder, InsertOrder

LEMMA FindCourse ==
  ASSUME TypeInv, CourseInv, NEW p \in Proc, FindItems(p)
  PROVE  CourseInv'
<1>1. /\ Active(p) /\ proc[p].op = "reserve" /\ proc[p].pc = "items"
      /\ proc \in [Proc -> ProcType] /\ proc[p] \in ProcType
      /\ UNCHANGED <<row, ticket, delayed, overlapped, batch, late>>
  BY DEF FindItems, At, Active, TypeInv, TypeOK, database, services, history
<1>2. /\ \A q \in Proc \ {p} : proc'[q] = proc[q]
      /\ proc'[p].op = "reserve" /\ proc'[p].pc = "hold"
      /\ proc'[p].order = proc[p].order /\ proc'[p].seen = proc[p].seen
  BY <1>1 DEF FindItems, ProcType
<1>3. \A o \in Order : InWindow(p, o)' => /\ InWindow(p, o)
                                          /\ o \notin overlapped => OnCourse(p, o)'
                                          /\ TicketsOnCourse(p, o)'
  BY <1>1, <1>2, ZenonT(60) DEF InWindow, OnCourse, TicketsOnCourse, CourseInv, StoryOK
<1>4. QED
  BY <1>1, <1>2, <1>3, PassingStep DEF Inserting, At

LEMMA RecordCourse ==
  ASSUME TypeInv, CourseInv, NEW p \in Proc, proc[p].op \in {"cancel", "refund"}, RecordRefund(p)
  PROVE  CourseInv'
<1>1. /\ Active(p) /\ proc[p].pc = "record"
      /\ proc \in [Proc -> ProcType] /\ proc[p] \in ProcType
      /\ UNCHANGED <<row, ticket, delayed, overlapped, batch, late>>
  BY DEF RecordRefund, Active, TypeInv, TypeOK, services, history
<1>2. CASE Unwind(p)
  BY <1>1, <1>2, LeavingAside
<1>3. CASE Goto(p, "update")
  <2>1. /\ \A q \in Proc \ {p} : proc'[q] = proc[q]
        /\ proc'[p].op = proc[p].op /\ proc'[p].pc = "update"
        /\ proc'[p].order = proc[p].order /\ proc'[p].seen = proc[p].seen
    BY <1>1, <1>3 DEF Goto, ProcType
  <2>2. ASSUME NEW o \in Order, InWindow(p, o)'
        PROVE  /\ InWindow(p, o)
               /\ o \notin overlapped => OnCourse(p, o)'
               /\ o \notin overlapped \cup delayed => TicketsOnCourse(p, o)'
    <3>1. InWindow(p, o)
      BY <1>1, <2>1, <2>2 DEF InWindow
    <3>2. o \notin overlapped => OnCourse(p, o)'
      BY <1>1, <2>1, <3>1 DEF OnCourse, CourseInv, StoryOK
    <3>3. o \notin overlapped \cup delayed => TicketsOnCourse(p, o)'
      BY <1>1, <2>1, <3>1 DEF TicketsOnCourse, CourseInv, StoryOK
    <3>4. QED
      BY <3>1, <3>2, <3>3
  <2>3. QED
    BY <1>1, <2>1, <2>2, PassingStep DEF Inserting, At
<1>4. QED
  BY <1>2, <1>3 DEF RecordRefund

LEMMA ControlCourse ==
  ASSUME TypeInv, CourseInv, NEW p \in Proc,
         Announce(p) \/ AcquireLock(p) \/ LockRefused(p) \/ ReleaseLock(p)
  PROVE  CourseInv'
<1>1. /\ Active(p) /\ proc \in [Proc -> ProcType] /\ proc[p] \in ProcType
      /\ UNCHANGED <<row, ticket, delayed, overlapped, batch, late>>
  BY DEF Announce, AcquireLock, LockRefused, ReleaseLock, Active, TypeInv, TypeOK, database,
         services, history
<1>2. CASE Announce(p) \/ LockRefused(p) \/ ReleaseLock(p)
  BY <1>1, <1>2, LeavingAside DEF Announce, LockRefused, ReleaseLock
<1>3. CASE AcquireLock(p)
  <2>1. /\ \A q \in Proc \ {p} : proc'[q] = proc[q]
        /\ proc[p].pc = "lock" /\ proc'[p].pc = "read" /\ proc'[p].order = proc[p].order
    BY <1>1, <1>3 DEF AcquireLock, Goto, ProcType
  <2>2. ~Inserting(p) /\ ~Inserting(p)' /\ \A o \in Order : ~InWindow(p, o)'
    BY <2>1 DEF Inserting, At, InWindow
  <2>3. QED
    BY <1>1, <2>1, <2>2, PassingStep
<1>4. QED
  BY <1>2, <1>3

LEMMA HandleCourse ==
  ASSUME TypeInv, CourseInv, NEW p \in Proc, Handle(p)
  PROVE  CourseInv'
<1>1. /\ {"intent", "allocate", "update"} \subseteq
           {"intent", "allocate", "refund", "void", "record", "update"}
      /\ {"hold", "intent", "capture", "allocate", "release", "void", "refund"} \subseteq
           TicketCall \cup PaymentCall
  BY DEF TicketCall, PaymentCall
<1>2. CASE ReserveOrder(p)
  <2>1. CASE At(p, "reserve", "read") /\ ReadOrder(p, {"PENDING"}, NoIntent, "items")
    <3>1. {"PENDING"} \in SUBSET ActsOn(proc[p].op) /\ proc[p].op = "reserve"
      BY <2>1 DEF At, ActsOn
    <3>2. QED
      BY <2>1, <3>1, ReadCourse
  <2>2. CASE ReserveTickets(p)
    BY <1>1, <2>2, AwaitCourse DEF ReserveTickets, At
  <2>3. CASE CreatePaymentIntent(p)
    BY <1>1, <2>3, AwaitCourse DEF CreatePaymentIntent, At
  <2>4. CASE At(p, "reserve", "update") /\ UpdateOrder(p, "RESERVED", proc[p].pi, TRUE)
    BY <2>4, UpdateCourse DEF At, LeadsTo
  <2>5. QED
    BY <1>2, <2>1, <2>2, <2>3, <2>4, FindCourse DEF ReserveOrder
<1>3. CASE ConfirmOrder(p)
  <2>1. CASE At(p, "confirm", "read") /\ ReadOrder(p, {"RESERVED"}, proc[p].pi, "capture")
    <3>1. {"RESERVED"} \in SUBSET ActsOn(proc[p].op) /\ proc[p].op = "confirm"
      BY <2>1 DEF At, ActsOn
    <3>2. QED
      BY <2>1, <3>1, ReadCourse
  <2>2. CASE ConfirmPayment(p)
    BY <1>1, <2>2, AwaitCourse DEF ConfirmPayment, At
  <2>3. CASE ConfirmAllocation(p)
    BY <1>1, <2>3, AwaitCourse DEF ConfirmAllocation, At
  <2>4. CASE At(p, "confirm", "update") /\ UpdateOrder(p, "CONFIRMED", NoIntent, FALSE)
    BY <2>4, UpdateCourse DEF At, LeadsTo
  <2>5. QED
    BY <1>3, <2>1, <2>2, <2>3, <2>4 DEF ConfirmOrder
<1>4. CASE InitiateRefund(p) /\ proc[p].op \in {"cancel", "refund"}
  <2>1. /\ proc[p].pc = "refund" /\ proc[p].pc \in TicketCall \cup PaymentCall
        /\ Await(p, "record", <<p, proc[p].try>>)
    BY <1>1, <1>4 DEF InitiateRefund
  <2>2. QED
    BY <1>4, <2>1, AwaitCourse
<1>5. CASE CancelOrder(p)
  <2>1. CASE /\ At(p, "cancel", "read")
             /\ ReadOrder(p, {"PENDING", "RESERVED", "CONFIRMED"}, row[proc[p].order].pi, "release")
    <3>1. /\ {"PENDING", "RESERVED", "CONFIRMED"} \in SUBSET ActsOn(proc[p].op)
          /\ proc[p].op = "cancel"
      BY <2>1 DEF At, ActsOn
    <3>2. QED
      BY <2>1, <3>1, ReadCourse
  <2>2. CASE CancelReleaseTickets(p)
    <3>1. /\ proc[p].op = "cancel" /\ proc[p].pc = "release"
          /\ proc[p].pc \in TicketCall \cup PaymentCall
          /\ Await(p, AfterRelease(p), proc[p].pi)
          /\ AfterRelease(p) \in {"refund", "void", "update"}
      BY <1>1, <2>2 DEF CancelReleaseTickets, At, AfterRelease
    <3>2. QED
      BY <3>1, AwaitCourse
  <2>3. CASE CancelPaymentIntent(p)
    BY <1>1, <2>3, AwaitCourse DEF CancelPaymentIntent, At
  <2>4. CASE At(p, "cancel", "update") /\ UpdateOrder(p, "CANCELLED", NoIntent, FALSE)
    BY <2>4, UpdateCourse DEF At, LeadsTo
  <2>5. QED
    BY <1>4, <1>5, <2>1, <2>2, <2>3, <2>4, RecordCourse DEF CancelOrder, At
<1>6. CASE RefundOrder(p)
  <2> DEFINE allowed == IF row[proc[p].order].pi = NoIntent THEN {} ELSE {"CONFIRMED"}
  <2>1. CASE At(p, "refund", "read") /\ ReadOrder(p, allowed, row[proc[p].order].pi, "refund")
    <3>1. allowed \in SUBSET ActsOn(proc[p].op) /\ proc[p].op = "refund"
      BY <2>1 DEF At, ActsOn
    <3>2. QED
      BY <2>1, <3>1, ReadCourse
  <2>2. CASE /\ At(p, "refund", "update")
             /\ UpdateOrder(p, "REFUNDED", NoIntent, row[proc[p].order].expires)
    BY <2>2, UpdateCourse DEF At, LeadsTo
  <2>3. QED
    BY <1>4, <1>6, <2>1, <2>2, RecordCourse DEF RefundOrder, At
<1>7. CASE ExpireReservation(p)
  <2>1. CASE /\ At(p, "expire", "read")
             /\ ReadOrder(p, {"RESERVED"}, row[proc[p].order].pi, "release")
    <3>1. {"RESERVED"} \in SUBSET ActsOn(proc[p].op) /\ proc[p].op = "expire"
      BY <2>1 DEF At, ActsOn
    <3>2. QED
      BY <2>1, <3>1, ReadCourse
  <2>2. CASE ExpireReleaseTickets(p)
    <3> DEFINE next == IF proc[p].pi = NoIntent THEN "update" ELSE "void"
    <3>1. /\ proc[p].op = "expire" /\ proc[p].pc = "release"
          /\ proc[p].pc \in TicketCall \cup PaymentCall
          /\ Await(p, next, proc[p].pi) /\ next \in {"void", "update"}
      BY <1>1, <2>2 DEF ExpireReleaseTickets, At
    <3>2. QED
      BY <3>1, AwaitCourse
  <2>3. CASE ExpireCancelIntent(p)
    BY <1>1, <2>3, AwaitCourse DEF ExpireCancelIntent, At
  <2>4. CASE At(p, "expire", "update") /\ UpdateOrder(p, "EXPIRED", NoIntent, FALSE)
    BY <2>4, UpdateCourse DEF At, LeadsTo
  <2>5. QED
    BY <1>7, <2>1, <2>2, <2>3, <2>4 DEF ExpireReservation
<1>8. QED
  BY <1>2, <1>3, <1>5, <1>6, <1>7, CreateCourse, ControlCourse DEF Handle

------------------------------------------------------------------------------
(* The environment. *)

(* A request either inserts an order that nobody works on, or is about an  *)
(* order that has its row.                                                 *)
LEMMA ArriveCourse ==
  ASSUME TypeInv, CourseInv, NEW op \in Operation, NEW o \in Order,
         NEW step \in {"insert", "read", "lock"}, NEW pi, NEW amount,
         \/ Known(o) /\ step # "insert"
         \/ ~Known(o) /\ op = "create" /\ step = "insert" /\ \A q \in Proc : proc[q].order # o,
         Arrive(op, o, step, pi, amount)
  PROVE  CourseInv'
<1>1. requests + 1 \in Proc
  BY OrderAssumption DEF OrderAssumption, Arrive, TypeInv, TypeOK, Request, Proc
<1>2. UNCHANGED <<row, ticket, delayed, overlapped, batch, late>>
  BY DEF Arrive, database, services, history
<1>3. ASSUME NEW p \in Proc, p = requests + 1 PROVE CourseInv'
  <2>1. /\ \A q \in Proc \ {p} : proc'[q] = proc[q]
        /\ proc'[p].op = op /\ proc'[p].pc = step /\ proc'[p].order = o
    BY <1>3 DEF Arrive, Idle, TypeInv, TypeOK
  <2>2. CASE Known(o) /\ step # "insert"
    <3>1. row[o].status # Absent /\ ~Inserting(p)' /\ \A x \in Order : ~InWindow(p, x)'
      BY <2>1, <2>2 DEF Known, Inserting, At, InWindow
    <3>2. QED
      BY <1>2, <2>1, <3>1, AsideStep DEF CourseInv
  <2>3. CASE ~Known(o) /\ op = "create" /\ step = "insert" /\ \A q \in Proc : proc[q].order # o
    <3>1. row[o].status = Absent /\ Inserting(p)'
      BY <2>1, <2>3 DEF Known, Inserting, At
    <3>2. \A x \in Order : InWindow(p, x)' => /\ \A q \in Proc \ {p} : ~InWindow(q, x)
                                              /\ OnCourse(p, x)' /\ TicketsOnCourse(p, x)'
      BY <2>1, <2>3 DEF InWindow, OnCourse, TicketsOnCourse
    <3>3. QED
      BY <1>2, <2>1, <2>3, <3>1, <3>2, AsideStep DEF CourseInv
  <2>4. QED
    BY <2>2, <2>3
<1>4. QED
  BY <1>1, <1>3

LEMMA RequestCourse == ASSUME TypeInv, CourseInv, ClientRequest PROVE CourseInv'
<1>1. {"create", "reserve", "confirm", "cancel", "refund"} \subseteq Operation
  BY DEF Operation, LockKey
<1>2. CASE CreateRequest
  BY <1>1, <1>2, ArriveCourse DEF CreateRequest
<1>3. CASE ReserveRequest
  BY <1>1, <1>3, ArriveCourse DEF ReserveRequest
<1>4. CASE ConfirmRequest
  BY <1>1, <1>4, ArriveCourse DEF ConfirmRequest
<1>5. CASE CancelRequest
  BY <1>1, <1>5, ArriveCourse DEF CancelRequest
<1>6. CASE RefundRequest
  BY <1>1, <1>6, ArriveCourse DEF RefundRequest
<1>7. QED
  BY <1>2, <1>3, <1>4, <1>5, <1>6 DEF ClientRequest

LEMMA JobCourse ==
  ASSUME TypeInv, CourseInv, NEW w \in Worker, ExpireNext(w)
  PROVE  CourseInv'
<1>1. w \in Proc /\ proc \in [Proc -> ProcType] /\ batch \in [Worker -> SUBSET Order]
  BY DEF Proc, TypeInv, TypeOK
<1>2. PICK o \in batch[w] : /\ batch' = [batch EXCEPT ![w] = @ \ {o}]
                            /\ proc' = [proc EXCEPT ![w] = [Idle EXCEPT !.op = "expire",
                                                     !.order = o, !.pc = "read"]]
  BY DEF ExpireNext
<1>3. /\ UNCHANGED <<row, ticket, delayed, overlapped, late>>
      /\ \A q \in Proc \ {w} : proc'[q] = proc[q]
      /\ proc'[w].pc = "read" /\ proc'[w].order = o
  BY <1>1, <1>2 DEF ExpireNext, Idle, database, services, history
<1>4. \A v \in Worker, x \in Order : x \in batch'[v] => x \in batch[v]
  BY <1>1, <1>2
<1>5. row[o].status # Absent /\ ~Inserting(w)' /\ \A x \in Order : ~InWindow(w, x)'
  BY <1>1, <1>2, <1>3 DEF CourseInv, AbsentOK, Inserting, At, InWindow
<1>6. QED
  BY <1>1, <1>3, <1>4, <1>5, AsideStep DEF CourseInv

LEMMA CrashCourse == ASSUME TypeInv, CourseInv, NEW p \in Proc, Crash(p) PROVE CourseInv'
<1>1. /\ UNCHANGED <<row, ticket, delayed, overlapped, late>>
      /\ \A q \in Proc \ {p} : proc'[q] = proc[q]
      /\ proc'[p].pc = "idle"
      /\ \A w \in Worker, o \in Order : o \in batch'[w] => o \in batch[w]
  BY DEF Crash, Idle, database, services, history, TypeInv, TypeOK
<1>2. ~Active(p)' /\ \A o \in Order : ~InWindow(p, o)'
  BY <1>1 DEF Active, InWindow
<1>3. QED
  BY <1>1, <1>2, AsideStep DEF CourseInv

(* Nothing that handlers and orders share moves. *)
LEMMA CourseKept ==
  ASSUME CourseInv, UNCHANGED <<row, proc, ticket, overlapped, delayed>>, late' \subseteq late,
         \A w \in Worker, o \in Order : o \in batch'[w] => o \in batch[w] \/ row[o].status # Absent
  PROVE  CourseInv'
<1>1. \A p \in Proc : InsertionOK(p)'
  BY DEF CourseInv, InsertionOK, Inserting, At, Active
<1>2. \A o \in Order : AbsentOK(o)'
  BY DEF CourseInv, AbsentOK, Inserting, At, Active
<1>3. \A o \in Order : StoryOK(o)'
  BY DEF CourseInv, StoryOK, Alone, InWindow, OnCourse, TicketsOK, TicketsOnCourse
<1>4. QED
  BY <1>1, <1>2, <1>3 DEF CourseInv

(* A late ticket call moves tickets of an order that counts as delayed.    *)
LEMMA LateCourse == ASSUME TypeInv, CourseInv, NEW c \in late, LateCall(c) PROVE CourseInv'
<1>1. /\ UNCHANGED <<row, proc, batch, overlapped, delayed>> /\ late' \subseteq late
      /\ ticket \in [Order -> TicketState] /\ c \in CallType /\ c.order \in Order
  BY DEF LateCall, database, history, TypeInv, TypeOK, CallType
<1>2. \A o \in Order \ delayed : ticket'[o] = ticket[o]
  <2>1. CASE UNCHANGED ticket
    BY <2>1
  <2>2. CASE TicketEffect(c)
    <3>1. c.order \in delayed
      BY <2>2 DEF TicketEffect, CourseInv
    <3>2. QED
      BY <1>1, <2>2, <3>1
         DEF TicketEffect, TicketCall, TicketHold, TicketSell, TicketRelease
  <2>3. QED
    BY <2>1, <2>2 DEF LateCall, Effect, PaymentEffect, services
<1>3. \A p \in Proc : InsertionOK(p)'
  BY <1>1 DEF CourseInv, InsertionOK, Inserting, At, Active
<1>4. \A o \in Order : AbsentOK(o)'
  BY <1>1 DEF CourseInv, AbsentOK, Inserting, At, Active
<1>5. \A o \in Order : StoryOK(o)'
  BY <1>1, <1>2 DEF CourseInv, StoryOK, Alone, InWindow, OnCourse, TicketsOK, TicketsOnCourse
<1>6. QED
  BY <1>1, <1>3, <1>4, <1>5 DEF CourseInv

LEMMA StepKeepsCourse == ASSUME TypeInv, CourseInv, [Next]_vars PROVE CourseInv'
<1>1. ASSUME NEW w \in Worker, RunExpirationJob(w) PROVE CourseInv'
  <2>1. /\ UNCHANGED <<row, proc, ticket, overlapped, delayed, late>>
        /\ \A v \in Worker, o \in Order : o \in batch'[v] => o \in batch[v] \/ row[o].status # Absent
    BY <1>1 DEF RunExpirationJob, ExpiredReservations, Absent, database, services, history,
                TypeInv, TypeOK
  <2>2. QED
    BY <2>1, CourseKept
<1>2. ASSUME NEW o \in Order, ReservationTimesOut(o) PROVE CourseInv'
  BY <1>2, CourseKept DEF ReservationTimesOut, database, services, history
<1>3. ASSUME NEW i \in CallId, PaymentSettles(i) PROVE CourseInv'
  BY <1>3, CourseKept DEF PaymentSettles, database, history
<1>4. ASSUME NEW o \in Order, NEW k \in LockKey, LockExpires(o, k) PROVE CourseInv'
  BY <1>4, CourseKept DEF LockExpires, database, services, history
<1>5. CASE UNCHANGED vars
  BY <1>5, CourseKept DEF vars
<1>6. QED
  BY <1>1, <1>2, <1>3, <1>4, <1>5, HandleCourse, RequestCourse, JobCourse, CrashCourse,
     LateCourse DEF Next

LEMMA InitCourse == ASSUME Init PROVE CourseInv
<1>1. /\ late = {}
      /\ \A w \in Worker : batch[w] = {}
      /\ \A p \in Proc : proc[p] = Idle
      /\ \A o \in Order : row[o].status \in {"PENDING", Absent} /\ ticket[o] = "none"
  BY DEF Init
<1>2. \A p \in Proc, o \in Order : ~InWindow(p, o) /\ ~Active(p) /\ ~Inserting(p)
  BY <1>1 DEF InWindow, Active, Inserting, At, Idle
<1>3. \A o \in Order : TicketsOK(o)
  BY <1>1 DEF TicketsOK, Absent
<1>4. \A p \in Proc : ~Inserting(p) /\ ~Active(p)
  BY <1>1 DEF Active, Inserting, At, Idle
<1>5. QED
  BY <1>1, <1>2, <1>3, <1>4 DEF CourseInv, InsertionOK, AbsentOK, StoryOK, Alone

LEMMA CourseInvariant == Spec => [](TypeInv /\ CourseInv)
<1>1. Init => TypeInv /\ CourseInv
  BY InitTyped, InitCourse
<1>2. TypeInv /\ CourseInv /\ [Next]_vars => (TypeInv /\ CourseInv)'
  BY StepPreservesTypes, StepKeepsCourse
<1>3. QED
  BY <1>1, <1>2, PTL DEF Spec

(* As long as no two handlers of an order were at work at once and none of *)
(* its ticket calls timed out, the tickets of the order agree with its     *)
(* status in whatever step its handlers failed or died.                    *)
THEOREM TicketsFollow == Spec => []TicketsFollowStatus
<1>1. CourseInv => TicketsFollowStatus
  BY DEF CourseInv, StoryOK, TicketsOK, TicketsFollowStatus
<1>2. QED
  BY <1>1, CourseInvariant, PTL

------------------------------------------------------------------------------
(* The transitions. *)

Moves(o) == StatusMoves(o) /\ o \notin overlapped

LEMMA UpdateMoves ==
  ASSUME TypeInv, CourseInv, NEW p \in Proc, NEW o \in Order, Moves(o),
         proc[p].op \in {"reserve", "confirm", "cancel", "refund", "expire"}, NEW pi, NEW expires,
         UpdateOrder(p, LeadsTo(proc[p].op), pi, expires)
  PROVE  row'[o].status \in Allowed[row[o].status]
<1>1. o = proc[p].order /\ row'[o].status = LeadsTo(proc[p].op)
  BY WrittenRow DEF Moves, StatusMoves
<1>2. InWindow(p, o)
  BY <1>1 DEF UpdateOrder, InWindow
<1>3. row[o].status = proc[p].seen /\ proc[p].seen \in ActsOn(proc[p].op)
  BY <1>2 DEF CourseInv, StoryOK, OnCourse, Moves
<1>4. /\ Allowed["PENDING"] = {"RESERVED", "CANCELLED", "EXPIRED"}
      /\ Allowed["RESERVED"] = {"CONFIRMED", "CANCELLED", "EXPIRED"}
      /\ Allowed["CONFIRMED"] = {"COMPLETED", "CANCELLED", "REFUNDED"}
  BY DEF Allowed, Status, Absent
<1>5. QED
  BY <1>1, <1>3, <1>4 DEF ActsOn, LeadsTo

LEMMA StepAllowed ==
  ASSUME TypeInv, CourseInv, [Next]_vars, NEW o \in Order, Moves(o)
  PROVE  row'[o].status \in Allowed[row[o].status]
<1>1. ASSUME NEW p \in Proc, CreateOrder(p) PROVE row'[o].status \in Allowed[row[o].status]
  <2>1. /\ Inserting(p) /\ row' = [row EXCEPT ![proc[p].order].status = "PENDING"]
        /\ row \in [Order -> RowType]
    BY <1>1 DEF CreateOrder, InsertOrder, InsertItems, Inserting, Moves, StatusMoves,
                TypeInv, TypeOK
  <2>2. o = proc[p].order /\ row'[o].status = "PENDING"
    BY <2>1 DEF Moves, StatusMoves, RowType
  <2>3. row[o].status = Absent
    BY <2>1, <2>2 DEF CourseInv, InsertionOK
  <2>4. Allowed[Absent] = {"PENDING"}
    BY DEF Allowed, Absent, Status
  <2>5. QED
    BY <2>2, <2>3, <2>4
<1>2. ASSUME NEW p \in Proc,
             ReserveOrder(p) \/ ConfirmOrder(p) \/ CancelOrder(p) \/ RefundOrder(p)
               \/ ExpireReservation(p)
      PROVE  row'[o].status \in Allowed[row[o].status]
  <2>1. ~UNCHANGED row
    BY DEF Moves, StatusMoves
  <2>2. CASE ReserveOrder(p)
    <3>1. At(p, "reserve", "update") /\ UpdateOrder(p, "RESERVED", proc[p].pi, TRUE)
      BY <2>1, <2>2 DEF ReserveOrder, ReadOrder, FindItems, ReserveTickets, CreatePaymentIntent,
                        Await, database
    <3>2. QED
      BY <3>1, UpdateMoves DEF At, LeadsTo
  <2>3. CASE ConfirmOrder(p)
    <3>1. At(p, "confirm", "update") /\ UpdateOrder(p, "CONFIRMED", NoIntent, FALSE)
      BY <2>1, <2>3 DEF ConfirmOrder, ReadOrder, ConfirmPayment, ConfirmAllocation, Await, database
    <3>2. QED
      BY <3>1, UpdateMoves DEF At, LeadsTo
  <2>4. CASE CancelOrder(p)
    <3>1. At(p, "cancel", "update") /\ UpdateOrder(p, "CANCELLED", NoIntent, FALSE)
      BY <2>1, <2>4 DEF CancelOrder, ReadOrder, CancelReleaseTickets, CancelPaymentIntent,
                        InitiateRefund, RecordRefund, Await, database
    <3>2. QED
      BY <3>1, UpdateMoves DEF At, LeadsTo
  <2>5. CASE RefundOrder(p)
    <3>1. At(p, "refund", "update")
          /\ UpdateOrder(p, "REFUNDED", NoIntent, row[proc[p].order].expires)
      BY <2>1, <2>5 DEF RefundOrder, ReadOrder, InitiateRefund, RecordRefund, Await, database
    <3>2. QED
      BY <3>1, UpdateMoves DEF At, LeadsTo
  <2>6. CASE ExpireReservation(p)
    <3>1. At(p, "expire", "update") /\ UpdateOrder(p, "EXPIRED", NoIntent, FALSE)
      BY <2>1, <2>6 DEF ExpireReservation, ReadOrder, ExpireReleaseTickets, ExpireCancelIntent,
                        Await, database
    <3>2. QED
      BY <3>1, UpdateMoves DEF At, LeadsTo
  <2>7. QED
    BY <1>2, <2>2, <2>3, <2>4, <2>5, <2>6
<1>3. ASSUME NEW p \in Proc,
             \/ Announce(p) \/ AcquireLock(p) \/ LockRefused(p) \/ ReleaseLock(p) \/ Crash(p)
      PROVE  UNCHANGED row
  BY <1>3 DEF Announce, AcquireLock, LockRefused, ReleaseLock, Crash, database
<1>4. CASE \/ ClientRequest
           \/ \E w \in Worker : RunExpirationJob(w) \/ ExpireNext(w)
           \/ \E c \in late : LateCall(c)
           \/ \E x \in Order : ReservationTimesOut(x)
           \/ \E i \in CallId : PaymentSettles(i)
           \/ \E x \in Order, k \in LockKey : LockExpires(x, k)
           \/ UNCHANGED vars
  <2>1. UNCHANGED row
    BY <1>4 DEF ClientRequest, CreateRequest, ReserveRequest, ConfirmRequest, CancelRequest,
                RefundRequest, Arrive, RunExpirationJob, ExpireNext, LateCall,
                ReservationTimesOut, PaymentSettles, LockExpires, vars, database
  <2>2. QED
    BY <2>1 DEF Moves, StatusMoves
<1>5. QED
  BY <1>1, <1>2, <1>3, <1>4 DEF Next, Handle, Moves, StatusMoves

(* As long as no two handlers of an order were at work at once, its status *)
(* follows the state machine.                                              *)
THEOREM TransitionsAllowed == Spec => UndisturbedTransitions
<1>1. TypeInv /\ CourseInv /\ [Next]_vars =>
        [\A o \in Order : StatusMoves(o) /\ o \notin overlapped
            => row'[o].status \in Allowed[row[o].status]]_vars
  BY StepAllowed DEF Moves
<1>2. QED
  BY <1>1, CourseInvariant, PTL DEF Spec, UndisturbedTransitions
==============================================================================
