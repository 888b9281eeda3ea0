--------------------------- MODULE OrderRequests ---------------------------
(***************************************************************************)
(* POST /orders of order-service under one Idempotency-Key of one user: a  *)
(* client that sends the request, sends it again when no answer or no good *)
(* one comes, or sends it twice at once; the idempotency middleware, with  *)
(* the Redis entry of the key and the orders table as its fallback         *)
(* (idempotency.middleware.ts); and createOrder, whose row, items and      *)
(* event are not one transaction (order.service.ts).                       *)
(*                                                                         *)
(* The row carries a key only if the client repeats it in the body         *)
(* (createOrderSchema): the header's key is never copied there.            *)
(***************************************************************************)
EXTENDS Naturals, FiniteSets

CONSTANTS Requests,    \* bound: requests of the client at one time
          Orders,      \* bound: the orders they may make, numbered as they are made
          NoOrder,
          MaxFaults    \* bound: failed Redis commands and calls, lost processes

ASSUME RequestsAssumption ==
  /\ Orders \subseteq Nat /\ IsFiniteSet(Orders)
  /\ NoOrder \notin Orders
  /\ MaxFaults \in Nat

VARIABLES keyInBody,   \* the body repeats the key of the header
          cache,       \* the Redis entry of the key
          req,         \* the requests
          stage,       \* how far each order has been written
          told,        \* the orders the client was told of, with a 2xx
          refused,     \* the client was told a 4xx
          faults,
          raced,       \* a request missed the entry while another, past its own
                       \* look, was still in the service
          lapsed       \* an answer's entry has lapsed

vars == <<keyInBody, cache, req, stage, told, refused, faults, raced, lapsed>>

\* look, database, refill, mark and fallback are the awaits of the middleware;
\* handle, items and finish those of createOrder; reply is the onSend hook.
Handling == {"handle", "items", "finish", "reply"}
Steps == {"idle", "look", "database", "refill", "mark", "fallback"} \cup Handling

\* tracked: request.idempotencyRedisKey is set
Request(pc, t, o, c) == [pc |-> pc, tracked |-> t, order |-> o, code |-> c]
Idle == Request("idle", FALSE, NoOrder, "none")

Absent == [code |-> "none", order |-> NoOrder]
Entry(c, o) == [code |-> c, order |-> o]

Rows == {o \in Orders : stage[o] # "none"}

\* SELECT ... WHERE user_id = $1 AND idempotency_key = $2
Found(o) == keyInBody /\ o \in Rows

Set(r, x) == req' = [req EXCEPT ![r] = x]

\* A fault, within the bound.
Fault == faults < MaxFaults /\ faults' = faults + 1

TypeOK ==
  /\ keyInBody \in BOOLEAN
  /\ cache \in [code : {"none", "processing", "2xx", "4xx"}, order : Orders \cup {NoOrder}]
  /\ req \in [Requests -> [pc : Steps, tracked : BOOLEAN, order : Orders \cup {NoOrder},
                           code : {"none", "2xx", "4xx", "5xx"}]]
  /\ stage \in [Orders -> {"none", "row", "items", "complete"}]
  /\ told \subseteq Orders
  /\ refused \in BOOLEAN /\ raced \in BOOLEAN /\ lapsed \in BOOLEAN
  /\ faults \in 0 .. MaxFaults

Init ==
  /\ keyInBody \in BOOLEAN
  /\ cache = Absent
  /\ req = [r \in Requests |-> Idle]
  /\ stage = [o \in Orders |-> "none"]
  /\ told = {} /\ refused = FALSE
  /\ faults = 0
  /\ raced = FALSE /\ lapsed = FALSE

----------------------------------------------------------------------------
(* The middleware.                                                          *)

Send(r) ==
  /\ req[r].pc = "idle"
  /\ Set(r, Request("look", FALSE, NoOrder, "none"))
  /\ UNCHANGED <<keyInBody, cache, stage, told, refused, faults, raced, lapsed>>

\* The answer reaches the client, or it has stopped waiting: it cannot tell.
Answers(r, c, o) ==
  /\ Set(r, Idle)
  /\ told' = IF c = "2xx" THEN told \cup {o} ELSE told
  /\ refused' = (refused \/ c = "4xx")

\* GET of the entry: 409 while it says 102, the cached answer, or a miss.
Look(r) ==
  /\ req[r].pc = "look"
  /\ \/ /\ cache.code = "none"
        /\ Set(r, Request("database", FALSE, NoOrder, "none"))
        /\ raced' = (raced \/ \E q \in Requests : req[q].pc \notin {"idle", "look"})
        /\ UNCHANGED <<told, refused>>
     \/ /\ cache.code = "processing"
        /\ Answers(r, "409", NoOrder)
        /\ UNCHANGED raced
     \/ /\ cache.code \in {"2xx", "4xx"}
        /\ Answers(r, cache.code, cache.order)
        /\ UNCHANGED raced
  /\ UNCHANGED <<keyInBody, cache, stage, faults, lapsed>>

\* Redis fails at the GET or at the SETEX of the marker, or the query fails.
RedisFails(r) ==
  /\ req[r].pc \in {"look", "database", "mark"}
  /\ Fault
  /\ Set(r, Request("fallback", FALSE, NoOrder, "none"))
  /\ UNCHANGED <<keyInBody, cache, stage, told, refused, raced, lapsed>>

\* checkDatabaseForIdempotencyKey after a miss.
Database(r) ==
  /\ req[r].pc = "database"
  /\ \/ \E o \in Orders : Found(o) /\ Set(r, Request("refill", FALSE, o, "none"))
     \/ /\ \A o \in Orders : ~Found(o)
        /\ Set(r, Request("mark", FALSE, NoOrder, "none"))
  /\ UNCHANGED <<keyInBody, cache, stage, told, refused, faults, raced, lapsed>>

\* The row's order goes back into Redis, if Redis takes it, and is answered
\* with 200 "as if it was a successful creation".
Refill(r) ==
  /\ req[r].pc = "refill"
  /\ \/ cache' = Entry("2xx", req[r].order) /\ UNCHANGED faults
     \/ Fault /\ UNCHANGED cache
  /\ Answers(r, "2xx", req[r].order)
  /\ UNCHANGED <<keyInBody, stage, raced, lapsed>>

\* SETEX of the 102 marker, over whatever is there by now.
Mark(r) ==
  /\ req[r].pc = "mark"
  /\ cache' = Entry("processing", NoOrder)
  /\ Set(r, Request("handle", TRUE, NoOrder, "none"))
  /\ UNCHANGED <<keyInBody, stage, told, refused, faults, raced, lapsed>>

\* The catch: the table again, and without a row, or when the query fails too,
\* the request goes on untracked ("degraded mode").
Fallback(r) ==
  /\ req[r].pc = "fallback"
  /\ \/ /\ \E o \in Orders : Found(o) /\ Answers(r, "2xx", o)
        /\ UNCHANGED faults
     \/ /\ \/ (\A o \in Orders : ~Found(o)) /\ UNCHANGED faults
           \/ Fault
        /\ Set(r, Request("handle", FALSE, NoOrder, "none"))
        /\ UNCHANGED <<told, refused>>
  /\ UNCHANGED <<keyInBody, cache, stage, raced, lapsed>>

----------------------------------------------------------------------------
(* createOrder, and the hook that caches its answer.                        *)

Goes(r, pc, o, c) == Set(r, Request(pc, req[r].tracked, o, c))

\* authenticate and validate answer 4xx.
Refuse(r) ==
  /\ req[r].pc = "handle"
  /\ Fault
  /\ Goes(r, "reply", NoOrder, "4xx")
  /\ UNCHANGED <<keyInBody, cache, stage, told, refused, raced, lapsed>>

\* A call or a statement throws: 500, whatever was written before it.
Throws(r) ==
  /\ req[r].pc \in {"handle", "items", "finish"}
  /\ Fault
  /\ Goes(r, "reply", NoOrder, "5xx")
  /\ UNCHANGED <<keyInBody, cache, stage, told, refused, raced, lapsed>>

\* Mutant of Create: the key is not unique.
CreateAgain(r) ==
  /\ req[r].pc = "handle"
  /\ \E o \in Orders \ Rows :
       /\ \A p \in Orders \ Rows : o <= p
       /\ stage' = [stage EXCEPT ![o] = "row"]
       /\ Goes(r, "items", o, "none")
  /\ UNCHANGED <<keyInBody, cache, told, refused, faults, raced, lapsed>>

\* Mutant of Create: the client is answered before the items are written.
CreateAnswersFirst(r) ==
  /\ req[r].pc = "handle"
  /\ \E o \in Orders \ Rows :
       /\ \A p \in Orders \ Rows : o <= p
       /\ stage' = [stage EXCEPT ![o] = "row"]
       /\ Goes(r, "reply", o, "2xx")
  /\ UNCHANGED <<keyInBody, cache, told, refused, faults, raced, lapsed>>

\* INSERT INTO orders.  The key is unique, so a second row with it is an
\* error, and a row without a key never is.
Create(r) ==
  /\ req[r].pc = "handle"
  /\ \/ /\ \E o \in Orders : Found(o)
        /\ Goes(r, "reply", NoOrder, "5xx")
        /\ UNCHANGED stage
     \/ /\ \A o \in Orders : ~Found(o)
        /\ \E o \in Orders \ Rows :
             /\ \A p \in Orders \ Rows : o <= p
             /\ stage' = [stage EXCEPT ![o] = "row"]
             /\ Goes(r, "items", o, "none")
  /\ UNCHANGED <<keyInBody, cache, told, refused, faults, raced, lapsed>>

CreateItems(r) ==
  /\ req[r].pc = "items"
  /\ stage' = [stage EXCEPT ![req[r].order] = "items"]
  /\ Goes(r, "finish", req[r].order, "none")
  /\ UNCHANGED <<keyInBody, cache, told, refused, faults, raced, lapsed>>

\* The order event, the publication and the audit log, then 201.
Finish(r) ==
  /\ req[r].pc = "finish"
  /\ stage' = [stage EXCEPT ![req[r].order] = "complete"]
  /\ Goes(r, "reply", req[r].order, "2xx")
  /\ UNCHANGED <<keyInBody, cache, told, refused, faults, raced, lapsed>>

\* Mutants of Hook: an answer of any code is kept; a good one is not; a 5xx
\* leaves the marker.
HookKeepsErrors(r) ==
  cache' = IF ~req[r].tracked THEN cache ELSE Entry(req[r].code, req[r].order)
HookForgets(r) ==
  cache' = IF ~req[r].tracked THEN cache
           ELSE IF req[r].code = "4xx" THEN Entry("4xx", NoOrder) ELSE Absent
HookLeavesMarker(r) ==
  cache' = IF ~req[r].tracked \/ req[r].code = "5xx" THEN cache
           ELSE Entry(req[r].code, req[r].order)

\* What idempotencyCacheHook makes of the entry.
Hook(r) ==
  cache' = IF ~req[r].tracked THEN cache
           ELSE IF req[r].code = "5xx" THEN Absent
           ELSE Entry(req[r].code, req[r].order)

\* The hook, whose Redis errors are swallowed, and the answer.
Reply(r) ==
  /\ req[r].pc = "reply"
  /\ \/ Hook(r) /\ UNCHANGED faults
     \/ req[r].tracked /\ Fault /\ UNCHANGED cache
  /\ Answers(r, req[r].code, req[r].order)
  /\ UNCHANGED <<keyInBody, stage, raced, lapsed>>

----------------------------------------------------------------------------
(* Lost processes and the TTLs.                                             *)

\* The process of the request dies, or the connection: no answer.
Die(r) ==
  /\ req[r].pc # "idle"
  /\ Fault
  /\ Set(r, Idle)
  /\ UNCHANGED <<keyInBody, cache, stage, told, refused, raced, lapsed>>

\* Mutant of MarkerLapses: the marker is set without its TTL.
MarkerStays == FALSE /\ UNCHANGED vars

\* The marker's 30 minutes are more than a request takes; an answer's hour,
\* day or half hour may be over at any time.
MarkerLapses ==
  /\ cache.code = "processing"
  /\ \A r \in Requests : req[r].pc \notin Handling
  /\ cache' = Absent
  /\ UNCHANGED <<keyInBody, req, stage, told, refused, faults, raced, lapsed>>

AnswerLapses ==
  /\ cache.code \in {"2xx", "4xx"}
  /\ cache' = Absent /\ lapsed' = TRUE
  /\ UNCHANGED <<keyInBody, req, stage, told, refused, faults, raced>>

Serve(r) ==
  \/ Look(r) \/ Database(r) \/ Refill(r) \/ Mark(r) \/ Fallback(r)
  \/ Create(r) \/ CreateItems(r) \/ Finish(r) \/ Reply(r)

Next ==
  \/ \E r \in Requests :
       Send(r) \/ Serve(r) \/ RedisFails(r) \/ Refuse(r) \/ Throws(r) \/ Die(r)
  \/ MarkerLapses \/ AnswerLapses

\* The service answers what it has read, and Redis drops what is over; the
\* client sends again until it has an answer it takes for final.
Final == told # {} \/ refused

Fairness ==
  /\ \A r \in Requests : WF_vars(Serve(r)) /\ WF_vars(~Final /\ Send(r))
  /\ WF_vars(MarkerLapses)

Spec == Init /\ [][Next]_vars /\ Fairness

----------------------------------------------------------------------------
\* A client that repeats the key in the body makes at most one order and is
\* told of no other, whatever it repeats, races, loses or fails.
OneOrder ==
  keyInBody => /\ Cardinality(Rows) <= 1
               /\ told \subseteq Rows

\* A client that does not makes one order too, as long as no two of its
\* requests are between the look and the marker at once, nothing fails and no
\* answer is forgotten: the entry of the key is then enough.
RepeatsMakeNoOrder ==
  ~raced /\ ~lapsed /\ faults = 0 => Cardinality(Rows) <= 1

\* The client is told of no order whose items or event are missing, as long as no
\* two requests raced past the look and nothing failed: the marker keeps a repeat
\* from finding the row of an order that is still being written.
ToldOrdersAreWhole ==
  ~raced /\ faults = 0 => \A o \in told : stage[o] = "complete"

\* The 102 marker is never left behind: some request is there to replace it,
\* unless something failed.
MarkerIsOwned ==
  cache.code = "processing" /\ faults = 0 =>
    \E r \in Requests : req[r].tracked /\ req[r].pc \in Handling

\* The client that keeps sending gets its answer: no marker of a lost request
\* and no lost answer keeps it from one for ever.
ClientIsAnswered == <>Final
=============================================================================
