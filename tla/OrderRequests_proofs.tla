------------------------ MODULE OrderRequests_proofs ------------------------
(***************************************************************************)
(* POST /orders under one key, for any number of requests and of faults.   *)
(***************************************************************************)
EXTENDS OrderRequests, FiniteSetTheorems, TLAPS

Codes == {"none", "2xx", "4xx", "5xx"}
ReqType == [pc : Steps, tracked : BOOLEAN, order : Orders \cup {NoOrder}, code : Codes]
CacheType == [code : {"none", "processing", "2xx", "4xx"}, order : Orders \cup {NoOrder}]
Stages == {"none", "row", "items", "complete"}

\* A reply has a code, and a request that has written its row has an order.
ShapeInv ==
  /\ \A r \in Requests :
       /\ req[r].pc = "reply" => req[r].code # "none"
       /\ req[r].code = "2xx" => req[r].order \in Orders
       /\ req[r].pc \in {"refill", "items", "finish"} => req[r].order \in Orders
  /\ cache.code = "2xx" => cache.order \in Orders

----------------------------------------------------------------------------
LEMMA RecordTypes ==
  /\ Idle \in ReqType /\ Absent \in CacheType
  /\ \A pc \in Steps, t \in BOOLEAN, o \in Orders \cup {NoOrder}, c \in Codes :
       /\ Request(pc, t, o, c) \in ReqType
       /\ Request(pc, t, o, c).pc = pc /\ Request(pc, t, o, c).tracked = t
       /\ Request(pc, t, o, c).order = o /\ Request(pc, t, o, c).code = c
  /\ \A c \in {"none", "processing", "2xx", "4xx"}, o \in Orders \cup {NoOrder} :
       Entry(c, o) \in CacheType
BY DEF Idle, Absent, Request, Entry, ReqType, CacheType, Codes, Steps, Handling

LEMMA SetFacts ==
  ASSUME TypeOK, NEW r \in Requests, NEW x \in ReqType, Set(r, x)
  PROVE  /\ req' \in [Requests -> ReqType] /\ req'[r] = x
         /\ \A q \in Requests \ {r} : req'[q] = req[q]
BY DEF TypeOK, Set, ReqType, Codes

\* A request that is answered is idle again, and the client knows no order but the
\* one it was told.
LEMMA AnswersFacts ==
  ASSUME TypeOK, NEW r \in Requests, NEW c, NEW o, Answers(r, c, o)
  PROVE  /\ req' \in [Requests -> ReqType] /\ req'[r] = Idle
         /\ \A q \in Requests \ {r} : req'[q] = req[q]
         /\ told' = IF c = "2xx" THEN told \cup {o} ELSE told
         /\ refused' \in BOOLEAN
BY SetFacts, RecordTypes DEF Answers, TypeOK

LEMMA GoesFacts ==
  ASSUME TypeOK, NEW r \in Requests, NEW pc \in Steps, NEW o \in Orders \cup {NoOrder},
         NEW c \in Codes, Goes(r, pc, o, c)
  PROVE  /\ req' \in [Requests -> ReqType]
         /\ req'[r].pc = pc /\ req'[r].order = o /\ req'[r].code = c
         /\ req'[r].tracked = req[r].tracked
         /\ \A q \in Requests \ {r} : req'[q] = req[q]
<1>1. req[r].tracked \in BOOLEAN
  BY DEF TypeOK
<1> QED
  BY <1>1, SetFacts, RecordTypes DEF Goes

LEMMA MovesFacts ==
  ASSUME TypeOK, NEW r \in Requests, NEW pc \in Steps, NEW t \in BOOLEAN,
         NEW o \in Orders \cup {NoOrder}, Set(r, Request(pc, t, o, "none"))
  PROVE  /\ req' \in [Requests -> ReqType]
         /\ req'[r].pc = pc /\ req'[r].order = o /\ req'[r].code = "none"
         /\ req'[r].tracked = t
         /\ \A q \in Requests \ {r} : req'[q] = req[q]
BY SetFacts, RecordTypes DEF Codes

LEMMA InitTypeOK == Init => TypeOK /\ ShapeInv
<1> SUFFICES ASSUME Init PROVE TypeOK /\ ShapeInv
  OBVIOUS
<1>1. Idle \in ReqType /\ Absent \in CacheType /\ Idle.pc = "idle" /\ Idle.code = "none"
      /\ Absent.code = "none"
  BY RecordTypes DEF Idle, Absent, Request
<1>2. faults \in 0 .. MaxFaults
  BY RequestsAssumption DEF Init, RequestsAssumption
<1> QED
  BY <1>1, <1>2 DEF Init, TypeOK, ShapeInv, ReqType, CacheType, Codes

LEMMA FaultType == ASSUME TypeOK, Fault PROVE faults' \in 0 .. MaxFaults
BY RequestsAssumption DEF RequestsAssumption, TypeOK, Fault

LEMMA NextTypeOK == TypeOK /\ ShapeInv /\ [Next]_vars => (TypeOK /\ ShapeInv)'
<1> SUFFICES ASSUME TypeOK, ShapeInv, [Next]_vars PROVE (TypeOK /\ ShapeInv)'
  OBVIOUS
<1>0. /\ req \in [Requests -> ReqType] /\ cache \in CacheType /\ stage \in [Orders -> Stages]
      /\ Idle.pc = "idle" /\ Idle.code = "none" /\ NoOrder \notin Orders
  BY RequestsAssumption DEF TypeOK, ReqType, CacheType, Stages, Codes, Idle, Request,
     RequestsAssumption
\* What every step has to show, once the requests and the cache have their types.
<1>1. ASSUME req' \in [Requests -> ReqType], cache' \in CacheType, stage' \in [Orders -> Stages],
             told' \subseteq Orders, refused' \in BOOLEAN, raced' \in BOOLEAN,
             lapsed' \in BOOLEAN, faults' \in 0 .. MaxFaults, keyInBody' = keyInBody
      PROVE  TypeOK'
  BY <1>1 DEF TypeOK, ReqType, CacheType, Stages, Codes
<1>2. ASSUME NEW r \in Requests, \A q \in Requests \ {r} : req'[q] = req[q],
             req'[r].pc = "reply" => req'[r].code # "none",
             req'[r].code = "2xx" => req'[r].order \in Orders,
             req'[r].pc \in {"refill", "items", "finish"} => req'[r].order \in Orders,
             cache'.code = "2xx" => cache'.order \in Orders
      PROVE  ShapeInv'
  BY <1>2 DEF ShapeInv
<1>3. ASSUME NEW r \in Requests,
             Send(r) \/ RedisFails(r) \/ Database(r) \/ Mark(r)
      PROVE  (TypeOK /\ ShapeInv)'
  <2>1. PICK pc \in {"look", "fallback", "refill", "mark", "handle"}, t \in BOOLEAN,
             o \in Orders \cup {NoOrder} :
          Set(r, Request(pc, t, o, "none")) /\ (pc = "refill" => o \in Orders)
    BY <1>3 DEF Send, RedisFails, Database, Mark
  <2>2. faults' \in 0 .. MaxFaults /\ cache' \in CacheType
        /\ (cache'.code = "2xx" => cache'.order \in Orders)
    <3>1. faults' \in 0 .. MaxFaults
      BY <1>3, FaultType DEF Send, RedisFails, Database, Mark, TypeOK
    <3>2. cache' = cache \/ cache' = Entry("processing", NoOrder)
      BY <1>3 DEF Send, RedisFails, Database, Mark
    <3>3. Entry("processing", NoOrder) \in CacheType /\ Entry("processing", NoOrder).code # "2xx"
      BY DEF Entry, CacheType
    <3> QED
      BY <1>0, <3>1, <3>2, <3>3 DEF ShapeInv
  <2>3. UNCHANGED <<stage, told, refused, raced, lapsed, keyInBody>>
    BY <1>3 DEF Send, RedisFails, Database, Mark
  <2>4. /\ req' \in [Requests -> ReqType] /\ req'[r].pc = pc /\ req'[r].order = o
        /\ req'[r].code = "none" /\ \A q \in Requests \ {r} : req'[q] = req[q]
    BY <2>1, MovesFacts DEF Steps, Handling
  <2> QED
    BY <1>0, <1>1, <1>2, <2>1, <2>2, <2>3, <2>4 DEF TypeOK
<1>4. ASSUME NEW r \in Requests,
             Refuse(r) \/ Throws(r) \/ Create(r) \/ CreateItems(r) \/ Finish(r)
      PROVE  (TypeOK /\ ShapeInv)'
  <2>1. PICK pc \in {"reply", "items", "finish"}, c \in Codes, o \in Orders \cup {NoOrder} :
          /\ Goes(r, pc, o, c)
          /\ pc = "reply" => c # "none"
          /\ c = "2xx" => o \in Orders
          /\ pc # "reply" => o \in Orders
    BY <1>4 DEF Refuse, Throws, Create, CreateItems, Finish, Codes, ShapeInv
  <2>2. faults' \in 0 .. MaxFaults /\ stage' \in [Orders -> Stages]
    BY <1>0, <1>4, FaultType DEF Refuse, Throws, Create, CreateItems, Finish, TypeOK, Stages
  <2>3. UNCHANGED <<cache, told, refused, raced, lapsed, keyInBody>>
    BY <1>4 DEF Refuse, Throws, Create, CreateItems, Finish
  <2>4. /\ req' \in [Requests -> ReqType] /\ req'[r].pc = pc /\ req'[r].order = o
        /\ req'[r].code = c /\ \A q \in Requests \ {r} : req'[q] = req[q]
    BY <2>1, GoesFacts DEF Steps, Handling
  <2> QED
    BY <1>0, <1>1, <1>2, <2>1, <2>2, <2>3, <2>4 DEF TypeOK, ShapeInv
<1>5. ASSUME NEW r \in Requests, NEW c, NEW o, Answers(r, c, o), c = "2xx" => o \in Orders,
             stage' = stage, keyInBody' = keyInBody, raced' \in BOOLEAN, lapsed' \in BOOLEAN,
             faults' \in 0 .. MaxFaults, cache' \in CacheType,
             cache'.code = "2xx" => cache'.order \in Orders
      PROVE  (TypeOK /\ ShapeInv)'
  <2>1. /\ req' \in [Requests -> ReqType] /\ req'[r] = Idle
        /\ \A q \in Requests \ {r} : req'[q] = req[q]
        /\ told' = IF c = "2xx" THEN told \cup {o} ELSE told
        /\ refused' \in BOOLEAN
    BY <1>5, AnswersFacts
  <2> QED
    BY <1>0, <1>1, <1>2, <1>5, <2>1 DEF TypeOK
<1>6. ASSUME NEW r \in Requests, Look(r) PROVE (TypeOK /\ ShapeInv)'
  <2>1. CASE cache.code = "none"
    <3>1. Set(r, Request("database", FALSE, NoOrder, "none"))
      BY <1>6, <2>1 DEF Look
    <3>2. /\ req' \in [Requests -> ReqType] /\ req'[r].pc = "database" /\ req'[r].code = "none"
          /\ \A q \in Requests \ {r} : req'[q] = req[q]
      BY <3>1, MovesFacts DEF Steps
    <3>3. UNCHANGED <<cache, stage, faults, lapsed, keyInBody>> /\ told' = told
          /\ refused' = refused /\ raced' \in BOOLEAN
      BY <1>6, <2>1 DEF Look, TypeOK
    <3> QED
      BY <1>0, <1>1, <1>2, <3>2, <3>3 DEF TypeOK, ShapeInv
  <2>2. CASE cache.code # "none"
    <3>1. Answers(r, "409", NoOrder) \/ Answers(r, cache.code, cache.order)
      BY <1>6, <2>2 DEF Look
    <3>2. UNCHANGED <<cache, stage, faults, lapsed, keyInBody>> /\ raced' = raced
      BY <1>6, <2>2 DEF Look
    <3>3. cache.code = "2xx" => cache.order \in Orders
      BY DEF ShapeInv
    <3>4. cache' \in CacheType /\ raced' \in BOOLEAN /\ lapsed' \in BOOLEAN
          /\ faults' \in 0 .. MaxFaults /\ (cache'.code = "2xx" => cache'.order \in Orders)
      BY <1>0, <3>2, <3>3 DEF TypeOK
    <3> QED
      BY <1>5, <3>1, <3>2, <3>3, <3>4
  <2> QED
    BY <2>1, <2>2
<1>7. ASSUME NEW r \in Requests, Refill(r) PROVE (TypeOK /\ ShapeInv)'
  <2>1. req[r].order \in Orders
    BY <1>7 DEF Refill, ShapeInv
  <2>2. cache' \in CacheType /\ (cache'.code = "2xx" => cache'.order \in Orders)
        /\ faults' \in 0 .. MaxFaults
    BY <1>0, <1>7, <2>1, FaultType DEF Refill, Entry, CacheType, ShapeInv, TypeOK
  <2> QED
    BY <1>5, <1>7, <2>1, <2>2 DEF Refill, TypeOK
<1>8. ASSUME NEW r \in Requests, Fallback(r) PROVE (TypeOK /\ ShapeInv)'
  <2>0. UNCHANGED <<keyInBody, cache, stage, raced, lapsed>> /\ faults' \in 0 .. MaxFaults
    BY <1>0, <1>8, FaultType DEF Fallback, TypeOK
  <2>1. CASE \E o \in Orders : Found(o) /\ Answers(r, "2xx", o)
    BY <1>0, <1>5, <2>0, <2>1 DEF TypeOK, ShapeInv
  <2>2. CASE Set(r, Request("handle", FALSE, NoOrder, "none")) /\ UNCHANGED <<told, refused>>
    <3>1. /\ req' \in [Requests -> ReqType] /\ req'[r].pc = "handle" /\ req'[r].code = "none"
          /\ \A q \in Requests \ {r} : req'[q] = req[q]
      BY <2>2, MovesFacts DEF Steps, Handling
    <3> QED
      BY <1>0, <1>1, <1>2, <2>0, <2>2, <3>1 DEF TypeOK, ShapeInv
  <2> QED
    BY <1>8, <2>1, <2>2 DEF Fallback
<1>9. ASSUME NEW r \in Requests, Reply(r) PROVE (TypeOK /\ ShapeInv)'
  <2>1. req[r] \in ReqType /\ req[r].pc = "reply" /\ req[r].code \in {"2xx", "4xx", "5xx"}
        /\ (req[r].code = "2xx" => req[r].order \in Orders)
    BY <1>0, <1>9 DEF Reply, ShapeInv, ReqType, Codes
  <2>2. cache' \in CacheType /\ (cache'.code = "2xx" => cache'.order \in Orders)
    BY <1>0, <1>9, <2>1 DEF Reply, Hook, Entry, Absent, CacheType, ReqType, ShapeInv
  <2>3. faults' \in 0 .. MaxFaults
    BY <1>9, FaultType DEF Reply, TypeOK
  <2> QED
    BY <1>5, <1>9, <2>1, <2>2, <2>3 DEF Reply, TypeOK
<1>10. ASSUME NEW r \in Requests, Die(r) PROVE (TypeOK /\ ShapeInv)'
  <2>1. /\ req' \in [Requests -> ReqType] /\ req'[r] = Idle
        /\ \A q \in Requests \ {r} : req'[q] = req[q]
    BY <1>10, SetFacts, RecordTypes DEF Die
  <2>2. faults' \in 0 .. MaxFaults
    BY <1>10, FaultType DEF Die
  <2> QED
    BY <1>0, <1>1, <1>2, <1>10, <2>1, <2>2 DEF Die, TypeOK, ShapeInv
<1>11. CASE MarkerLapses \/ AnswerLapses
  <2>1. cache' = Absent /\ Absent \in CacheType /\ Absent.code = "none"
    BY <1>11, RecordTypes DEF MarkerLapses, AnswerLapses, Absent
  <2> QED
    BY <1>0, <1>1, <1>11, <2>1 DEF MarkerLapses, AnswerLapses, TypeOK, ShapeInv
<1>12. CASE UNCHANGED vars
  BY <1>12 DEF vars, TypeOK, ShapeInv
<1> QED
  BY <1>3, <1>4, <1>6, <1>7, <1>8, <1>9, <1>10, <1>11, <1>12 DEF Next, Serve

\* Every variable of the middleware and of createOrder keeps its type; in particular
\* the Redis entry never holds a 5xx (idempotency.middleware.ts:185-247).
THEOREM TypeCorrect == Spec => []TypeOK
BY InitTypeOK, NextTypeOK, PTL DEF Spec

----------------------------------------------------------------------------
(* One order.                                                               *)

\* Whatever names an order names a row, and a key in the body has one row.
KnownInv ==
  /\ \A r \in Requests :
       req[r].code = "2xx" \/ req[r].pc \in {"refill", "items", "finish"} => req[r].order \in Rows
  /\ cache.code = "2xx" => cache.order \in Rows
  /\ told \subseteq Rows
  /\ keyInBody => \A o, p \in Rows : o = p

LEMMA InitKnown == Init => KnownInv
BY DEF Init, KnownInv, Idle, Request, Absent, Rows

\* Only the INSERT adds a row, and only where the key has none.
LEMMA CreateFacts ==
  ASSUME TypeOK, NEW r \in Requests, Create(r)
  PROVE  \/ Rows' = Rows /\ Goes(r, "reply", NoOrder, "5xx") /\ \E o \in Orders : Found(o)
         \/ \E o \in Orders :
              /\ Goes(r, "items", o, "none") /\ Rows' = Rows \cup {o}
              /\ \A p \in Orders : ~Found(p)
<1>1. CASE Goes(r, "reply", NoOrder, "5xx") /\ UNCHANGED stage /\ \E o \in Orders : Found(o)
  BY <1>1 DEF Rows
<1>2. ASSUME NEW o \in Orders \ Rows, stage' = [stage EXCEPT ![o] = "row"],
             Goes(r, "items", o, "none"), \A p \in Orders : ~Found(p)
      PROVE  Goes(r, "items", o, "none") /\ Rows' = Rows \cup {o}
             /\ \A p \in Orders : ~Found(p)
  BY <1>2 DEF Rows, TypeOK
<1> QED
  BY <1>1, <1>2 DEF Create

LEMMA RowsKept ==
  ASSUME TypeOK, KnownInv, [Next]_vars, \A r \in Requests : ~Create(r)
  PROVE  Rows' = Rows
<1>1. ASSUME NEW r \in Requests, CreateItems(r) \/ Finish(r)
      PROVE  Rows' = Rows
  <2>1. req[r].order \in Rows
    BY <1>1 DEF CreateItems, Finish, KnownInv
  <2> QED
    BY <1>1, <2>1 DEF CreateItems, Finish, Rows, TypeOK
<1>2. CASE stage' = stage
  BY <1>2 DEF Rows
<1>3. CASE ~ \E r \in Requests : CreateItems(r) \/ Finish(r)
  <2>1. stage' = stage
    BY <1>3 DEF Next, Serve, Send, Look, Database, Refill, Mark, Fallback, Reply, RedisFails,
       Refuse, Throws, Die, MarkerLapses, AnswerLapses, vars
  <2> QED
    BY <1>2, <2>1
<1> QED
  BY <1>1, <1>3

LEMMA NextKnown == TypeOK /\ ShapeInv /\ KnownInv /\ [Next]_vars => KnownInv'
<1> SUFFICES ASSUME TypeOK, ShapeInv, KnownInv, [Next]_vars PROVE KnownInv'
  OBVIOUS
<1>0. Idle.code = "none" /\ Idle.pc = "idle" /\ Absent.code = "none"
  BY DEF Idle, Request, Absent
<1>1. ASSUME NEW r \in Requests, Create(r) PROVE KnownInv'
  <2>1. CASE Rows' = Rows /\ Goes(r, "reply", NoOrder, "5xx")
    <3>1. /\ req'[r].pc = "reply" /\ req'[r].code = "5xx"
          /\ \A q \in Requests \ {r} : req'[q] = req[q]
      BY <2>1, GoesFacts DEF Steps, Handling, Codes
    <3> QED
      BY <1>1, <2>1, <3>1 DEF Create, KnownInv
  <2>2. ASSUME NEW o \in Orders, Goes(r, "items", o, "none"), Rows' = Rows \cup {o},
               \A p \in Orders : ~Found(p)
        PROVE  KnownInv'
    <3>1. /\ req'[r].order = o /\ req'[r].code = "none"
          /\ \A q \in Requests \ {r} : req'[q] = req[q]
      BY <2>2, GoesFacts DEF Steps, Handling, Codes
    <3>2. keyInBody => Rows = {}
      BY <2>2 DEF Found, Rows
    <3> QED
      BY <1>1, <2>2, <3>1, <3>2 DEF Create, KnownInv
  <2> QED
    BY <1>1, <2>1, <2>2, CreateFacts
<1>2. ASSUME \A r \in Requests : ~Create(r) PROVE KnownInv'
  <2>0. Rows' = Rows /\ keyInBody' = keyInBody
    BY <1>2, RowsKept DEF Next, Serve, Send, Look, Database, Refill, Mark, Fallback, Reply,
       RedisFails, CreateItems, Finish, Refuse, Throws, Die, MarkerLapses, AnswerLapses, vars
  \* What a step has to show when it moves one request.
  <2>1. ASSUME NEW r \in Requests, \A q \in Requests \ {r} : req'[q] = req[q],
               req'[r].code = "2xx" \/ req'[r].pc \in {"refill", "items", "finish"}
                 => req'[r].order \in Rows,
               cache'.code = "2xx" => cache'.order \in Rows, told' \subseteq Rows
        PROVE  KnownInv'
    BY <2>0, <2>1 DEF KnownInv
  <2>2. ASSUME NEW r \in Requests, NEW c, NEW o, Answers(r, c, o), c = "2xx" => o \in Rows,
               cache'.code = "2xx" => cache'.order \in Rows
        PROVE  KnownInv'
    <3>1. /\ req'[r] = Idle /\ \A q \in Requests \ {r} : req'[q] = req[q]
          /\ told' = IF c = "2xx" THEN told \cup {o} ELSE told
      BY <2>2, AnswersFacts
    <3> QED
      BY <1>0, <2>1, <2>2, <3>1 DEF KnownInv
  <2>3. ASSUME NEW r \in Requests, Send(r) \/ RedisFails(r) \/ Database(r) \/ Mark(r)
        PROVE  KnownInv'
    <3>1. PICK pc \in {"look", "fallback", "refill", "mark", "handle"}, t \in BOOLEAN,
               o \in Orders \cup {NoOrder} :
            Set(r, Request(pc, t, o, "none")) /\ (pc = "refill" => o \in Rows)
      BY <2>3 DEF Send, RedisFails, Database, Mark, Found
    <3>2. /\ req'[r].pc = pc /\ req'[r].order = o /\ req'[r].code = "none"
          /\ \A q \in Requests \ {r} : req'[q] = req[q]
      BY <3>1, MovesFacts DEF Steps, Handling
    <3>3. (cache' = cache \/ cache' = Entry("processing", NoOrder)) /\ told' = told
      BY <2>3 DEF Send, RedisFails, Database, Mark
    <3>4. Entry("processing", NoOrder).code # "2xx"
      BY DEF Entry
    <3> QED
      BY <2>1, <3>1, <3>2, <3>3, <3>4 DEF KnownInv
  <2>4. ASSUME NEW r \in Requests, Refuse(r) \/ Throws(r) \/ CreateItems(r) \/ Finish(r)
        PROVE  KnownInv'
    <3>1. PICK pc \in {"reply", "finish"}, c \in Codes, o \in Orders \cup {NoOrder} :
            Goes(r, pc, o, c) /\ (c = "2xx" \/ pc = "finish" => o \in Rows)
      <4>1. CASE Refuse(r) \/ Throws(r)
        BY <4>1 DEF Refuse, Throws, Codes
      <4>2. CASE CreateItems(r) \/ Finish(r)
        BY <4>2 DEF CreateItems, Finish, Codes, KnownInv, Rows
      <4> QED
        BY <2>4, <4>1, <4>2
    <3>2. /\ req'[r].pc = pc /\ req'[r].order = o /\ req'[r].code = c
          /\ \A q \in Requests \ {r} : req'[q] = req[q]
      BY <3>1, GoesFacts DEF Steps, Handling
    <3>3. cache' = cache /\ told' = told
      BY <2>4 DEF Refuse, Throws, CreateItems, Finish
    <3> QED
      BY <2>1, <3>1, <3>2, <3>3 DEF KnownInv
  <2>5. ASSUME NEW r \in Requests, Look(r) PROVE KnownInv'
    <3>1. CASE cache.code = "none"
      <4>1. Set(r, Request("database", FALSE, NoOrder, "none")) /\ cache' = cache /\ told' = told
        BY <2>5, <3>1 DEF Look
      <4>2. /\ req'[r].pc = "database" /\ req'[r].code = "none"
            /\ \A q \in Requests \ {r} : req'[q] = req[q]
        BY <4>1, MovesFacts DEF Steps
      <4> QED
        BY <2>1, <4>1, <4>2 DEF KnownInv
    <3>2. CASE cache.code # "none"
      <4>1. Answers(r, "409", NoOrder) \/ Answers(r, cache.code, cache.order)
        BY <2>5, <3>2 DEF Look
      <4>2. cache' = cache /\ (cache.code = "2xx" => cache.order \in Rows)
        BY <2>5 DEF Look, KnownInv
      <4> QED
        BY <2>2, <4>1, <4>2
    <3> QED
      BY <3>1, <3>2
  <2>6. ASSUME NEW r \in Requests, Refill(r) PROVE KnownInv'
    <3>1. req[r].order \in Rows /\ Answers(r, "2xx", req[r].order)
          /\ (cache' = cache \/ cache' = Entry("2xx", req[r].order))
      BY <2>6 DEF Refill, KnownInv
    <3> QED
      BY <2>2, <3>1 DEF Entry, KnownInv
  <2>7. ASSUME NEW r \in Requests, Fallback(r) PROVE KnownInv'
    <3>1. CASE \E o \in Orders : Found(o) /\ Answers(r, "2xx", o)
      BY <2>2, <2>7, <3>1 DEF Fallback, Found, KnownInv
    <3>2. CASE Set(r, Request("handle", FALSE, NoOrder, "none")) /\ UNCHANGED <<told, refused>>
      <4>1. /\ req'[r].pc = "handle" /\ req'[r].code = "none"
            /\ \A q \in Requests \ {r} : req'[q] = req[q]
        BY <3>2, MovesFacts DEF Steps, Handling
      <4> QED
        BY <2>1, <2>7, <3>2, <4>1 DEF Fallback, KnownInv
    <3> QED
      BY <2>7, <3>1, <3>2 DEF Fallback
  <2>8. ASSUME NEW r \in Requests, Reply(r) PROVE KnownInv'
    <3>1. Answers(r, req[r].code, req[r].order) /\ (req[r].code = "2xx" => req[r].order \in Rows)
      BY <2>8 DEF Reply, KnownInv
    <3>2. cache' = cache \/ cache' = Absent \/ cache' = Entry(req[r].code, req[r].order)
      BY <2>8 DEF Reply, Hook
    <3>3. cache'.code = "2xx" => cache'.order \in Rows
      BY <1>0, <3>1, <3>2 DEF Entry, KnownInv
    <3> QED
      BY <2>2, <3>1, <3>3
  <2>9. ASSUME NEW r \in Requests, Die(r) PROVE KnownInv'
    <3>1. req'[r] = Idle /\ \A q \in Requests \ {r} : req'[q] = req[q]
      BY <2>9, SetFacts, RecordTypes DEF Die
    <3> QED
      BY <1>0, <2>1, <2>9, <3>1 DEF Die, KnownInv
  <2>10. CASE MarkerLapses \/ AnswerLapses
    BY <1>0, <2>0, <2>10 DEF MarkerLapses, AnswerLapses, KnownInv
  <2>11. CASE UNCHANGED vars
    BY <2>0, <2>11 DEF vars, KnownInv
  <2> QED
    BY <1>2, <2>3, <2>4, <2>5, <2>6, <2>7, <2>8, <2>9, <2>10, <2>11 DEF Next, Serve
<1> QED
  BY <1>1, <1>2

LEMMA AtMostOne ==
  ASSUME NEW S, \A x, y \in S : x = y
  PROVE  Cardinality(S) <= 1
<1>1. CASE S = {}
  BY <1>1, FS_EmptySet
<1>2. CASE S # {}
  <2>1. PICK x \in S : S = {x}
    BY <1>2
  <2> QED
    BY <2>1, FS_Singleton
<1> QED
  BY <1>1, <1>2

\* A client that repeats its key in the body makes at most one order and is told of no
\* other, for any number of requests, crashes and Redis failures: the unique key of the
\* table does it, not the entry in Redis.
THEOREM OneOrderOnly == Spec => []OneOrder
<1>1. Init => TypeOK /\ ShapeInv /\ KnownInv
  BY InitTypeOK, InitKnown
<1>2. TypeOK /\ ShapeInv /\ KnownInv /\ [Next]_vars => (TypeOK /\ ShapeInv /\ KnownInv)'
  BY NextTypeOK, NextKnown
<1>3. KnownInv => OneOrder
  BY AtMostOne DEF KnownInv, OneOrder
<1> QED
  BY <1>1, <1>2, <1>3, PTL DEF Spec

----------------------------------------------------------------------------
(* The entry alone, as long as nothing fails.                               *)

\* Every request past the middleware set the marker, which it has not yet replaced,
\* and no answer is an error of the client's.
OwnInv ==
  faults = 0 =>
    /\ \A r \in Requests : /\ req[r].pc \in Handling => req[r].tracked
                           /\ req[r].pc # "fallback" /\ req[r].code # "4xx"
    /\ cache.code # "4xx"
    /\ MarkerIsOwned

\* As long as no two requests raced past the look and no answer was forgotten, either:
\* one request is past the look, it has missed only if there is no row, and a row is
\* in the entry or about to be.
SoloInv ==
  ~raced /\ ~lapsed /\ faults = 0 =>
    /\ \A q, r \in Requests :
         req[q].pc \notin {"idle", "look"} /\ req[r].pc \notin {"idle", "look"} => q = r
    /\ \A o, p \in Rows : o = p
    /\ \A r \in Requests :
         /\ req[r].pc \in {"database", "mark", "handle"} => Rows = {}
         /\ req[r].pc # "refill"
         /\ req[r].pc = "reply" => req[r].code = "2xx"
    /\ Rows # {} => \/ cache.code = "2xx"
                    \/ \E r \in Requests : req[r].pc \in {"items", "finish", "reply"}

LEMMA InitSolo == Init => OwnInv /\ SoloInv
BY DEF Init, OwnInv, SoloInv, MarkerIsOwned, Idle, Request, Absent, Rows, Handling

LEMMA FaultCounts ==
  ASSUME TypeOK, [Next]_vars, faults' = 0
  PROVE  faults = 0 /\ ~Fault
<1>1. ~Fault
  BY DEF TypeOK, Fault
<1>2. ASSUME NEW r \in Requests, Send(r) \/ Serve(r) PROVE faults' = faults
  <2>1. CASE Send(r) \/ Look(r) \/ Database(r) \/ Mark(r)
    BY <2>1 DEF Send, Look, Database, Mark
  <2>2. CASE Create(r) \/ CreateItems(r) \/ Finish(r)
    BY <2>2 DEF Create, CreateItems, Finish
  <2>3. CASE Refill(r) \/ Fallback(r) \/ Reply(r)
    BY <1>1, <2>3 DEF Refill, Fallback, Reply
  <2> QED
    BY <1>2, <2>1, <2>2, <2>3 DEF Serve
<1>3. \A r \in Requests : ~RedisFails(r) /\ ~Refuse(r) /\ ~Throws(r) /\ ~Die(r)
  BY <1>1 DEF RedisFails, Refuse, Throws, Die
<1>4. MarkerLapses \/ AnswerLapses \/ UNCHANGED vars => faults' = faults
  BY DEF MarkerLapses, AnswerLapses, vars
<1> QED
  BY <1>1, <1>2, <1>3, <1>4 DEF Next

\* Without a fault a step is one of these.
LEMMA FaultlessSteps ==
  ASSUME TypeOK, OwnInv, [Next]_vars, faults' = 0
  PROVE  \/ \E r \in Requests : \/ Send(r) \/ Look(r) \/ Database(r) \/ Refill(r) \/ Mark(r)
                               \/ Create(r) \/ CreateItems(r) \/ Finish(r)
                               \/ (Reply(r) /\ Hook(r))
         \/ AnswerLapses \/ UNCHANGED vars
<1>1. faults = 0 /\ ~Fault
  BY FaultCounts
<1>2. ~MarkerLapses
  BY <1>1 DEF MarkerLapses, OwnInv, MarkerIsOwned
<1>3. \A r \in Requests : ~Fallback(r) /\ ~RedisFails(r) /\ ~Refuse(r) /\ ~Throws(r) /\ ~Die(r)
  BY <1>1 DEF Fallback, RedisFails, Refuse, Throws, Die, OwnInv
<1>4. \A r \in Requests : Reply(r) => Hook(r)
  BY <1>1 DEF Reply
<1> QED
  BY <1>2, <1>3, <1>4 DEF Next, Serve

LEMMA NextSolo ==
  TypeOK /\ ShapeInv /\ KnownInv /\ OwnInv /\ SoloInv /\ [Next]_vars => (OwnInv /\ SoloInv)'
<1> SUFFICES ASSUME TypeOK, ShapeInv, KnownInv, OwnInv, SoloInv, [Next]_vars, faults' = 0
             PROVE  (OwnInv /\ SoloInv)'
  BY DEF OwnInv, SoloInv
<1>0. /\ faults = 0 /\ Idle.pc = "idle" /\ Idle.code = "none" /\ Absent.code = "none"
      /\ \A r \in Requests : req[r] \in ReqType
  BY FaultCounts DEF Idle, Request, Absent, TypeOK, ReqType, Codes
<1>a. /\ \A r \in Requests : /\ req[r].pc \in Handling => req[r].tracked
                             /\ req[r].pc # "fallback" /\ req[r].code # "4xx"
      /\ cache.code # "4xx"
      /\ cache.code = "processing" =>
           \E r \in Requests : req[r].tracked /\ req[r].pc \in Handling
  BY <1>0 DEF OwnInv, MarkerIsOwned
<1> DEFINE Clean == ~raced /\ ~lapsed
<1>b. ASSUME Clean
      PROVE  /\ \A q, r \in Requests :
                  req[q].pc \notin {"idle", "look"} /\ req[r].pc \notin {"idle", "look"} => q = r
             /\ \A o, p \in Rows : o = p
             /\ \A r \in Requests :
                  /\ req[r].pc \in {"database", "mark", "handle"} => Rows = {}
                  /\ req[r].pc # "refill"
                  /\ req[r].pc = "reply" => req[r].code = "2xx"
             /\ Rows # {} => \/ cache.code = "2xx"
                             \/ \E r \in Requests : req[r].pc \in {"items", "finish", "reply"}
  BY <1>0, <1>b DEF SoloInv
<1> HIDE DEF Clean
<1>1. ASSUME NEW r \in Requests, Send(r) PROVE (OwnInv /\ SoloInv)'
  <2>1. /\ req'[r].pc = "look" /\ req'[r].code = "none" /\ req[r].pc = "idle"
        /\ \A q \in Requests \ {r} : req'[q] = req[q]
    BY <1>1, MovesFacts DEF Send, Steps
  <2>2. UNCHANGED <<cache, stage, raced, lapsed>> /\ Rows' = Rows
    BY <1>1 DEF Send, Rows
  <2>3. OwnInv'
    BY <1>a, <2>1, <2>2 DEF OwnInv, MarkerIsOwned, Handling
  <2>4. SoloInv'
    BY <1>b, <2>1, <2>2 DEF SoloInv, Clean
  <2> QED
    BY <2>3, <2>4
<1>2. ASSUME NEW r \in Requests, Look(r) PROVE (OwnInv /\ SoloInv)'
  <2>0. UNCHANGED <<cache, stage, lapsed>> /\ Rows' = Rows /\ req[r].pc = "look"
    BY <1>2 DEF Look, Rows
  <2>1. CASE cache.code = "none"
    <3>1. /\ req'[r].pc = "database" /\ req'[r].code = "none"
          /\ \A q \in Requests \ {r} : req'[q] = req[q]
      BY <1>2, <2>1, MovesFacts DEF Look, Steps
    <3>2. raced' = (raced \/ \E q \in Requests : req[q].pc \notin {"idle", "look"})
      BY <1>2, <2>1 DEF Look
    <3>3. OwnInv'
      BY <1>a, <2>0, <2>1, <3>1 DEF OwnInv, MarkerIsOwned, Handling
    <3>4. ASSUME ~raced', ~lapsed'
          PROVE  Clean /\ Rows = {} /\ \A q \in Requests : req[q].pc \in {"idle", "look"}
      BY <1>b, <2>0, <2>1, <3>2, <3>4 DEF Clean
    <3>5. SoloInv'
      BY <1>b, <2>0, <3>1, <3>4 DEF SoloInv
    <3> QED
      BY <3>3, <3>5
  <2>2. CASE cache.code # "none"
    <3>1. /\ req'[r] = Idle /\ \A q \in Requests \ {r} : req'[q] = req[q]
      BY <1>2, <2>2, AnswersFacts DEF Look
    <3>2. raced' = raced
      BY <1>2, <2>2 DEF Look
    <3>3. OwnInv'
      BY <1>0, <1>a, <2>0, <3>1 DEF OwnInv, MarkerIsOwned, Handling
    <3>4. SoloInv'
      BY <1>0, <1>b, <2>0, <3>1, <3>2 DEF SoloInv, Clean
    <3> QED
      BY <3>3, <3>4
  <2> QED
    BY <2>1, <2>2
<1>3. ASSUME NEW r \in Requests, Database(r) PROVE (OwnInv /\ SoloInv)'
  <2>0. UNCHANGED <<cache, stage, raced, lapsed>> /\ Rows' = Rows /\ req[r].pc = "database"
    BY <1>3 DEF Database, Rows
  <2>1. PICK pc \in {"refill", "mark"}, o \in Orders \cup {NoOrder} :
          Set(r, Request(pc, FALSE, o, "none")) /\ (pc = "refill" => o \in Rows)
    BY <1>3 DEF Database, Found
  <2>2. /\ req'[r].pc = pc /\ req'[r].code = "none"
        /\ \A q \in Requests \ {r} : req'[q] = req[q]
    BY <2>1, MovesFacts DEF Steps
  <2>3. OwnInv'
    BY <1>a, <2>0, <2>2 DEF OwnInv, MarkerIsOwned, Handling
  <2>4. SoloInv'
    BY <1>b, <2>0, <2>1, <2>2 DEF SoloInv, Clean
  <2> QED
    BY <2>3, <2>4
<1>4. ASSUME NEW r \in Requests, Refill(r) PROVE (OwnInv /\ SoloInv)'
  <2>0. /\ UNCHANGED <<stage, raced, lapsed>> /\ Rows' = Rows /\ req[r].pc = "refill"
        /\ req'[r] = Idle /\ \A q \in Requests \ {r} : req'[q] = req[q]
        /\ (cache' = cache \/ cache' = Entry("2xx", req[r].order))
    BY <1>4, AnswersFacts DEF Refill, Rows
  <2>1. Entry("2xx", req[r].order).code = "2xx"
    BY DEF Entry
  <2>2. OwnInv'
    BY <1>0, <1>a, <2>0, <2>1 DEF OwnInv, MarkerIsOwned, Handling
  <2>3. ~Clean
    BY <1>b, <2>0
  <2> QED
    BY <2>0, <2>2, <2>3 DEF SoloInv, Clean
<1>5. ASSUME NEW r \in Requests, Mark(r) PROVE (OwnInv /\ SoloInv)'
  <2>0. /\ UNCHANGED <<stage, raced, lapsed>> /\ Rows' = Rows /\ req[r].pc = "mark"
        /\ cache' = Entry("processing", NoOrder)
        /\ req'[r].pc = "handle" /\ req'[r].tracked /\ req'[r].code = "none"
        /\ \A q \in Requests \ {r} : req'[q] = req[q]
    BY <1>5, MovesFacts DEF Mark, Rows, Steps, Handling
  <2>1. Entry("processing", NoOrder).code = "processing"
    BY DEF Entry
  <2>2. OwnInv'
    BY <1>a, <2>0, <2>1 DEF OwnInv, MarkerIsOwned, Handling
  <2>3. SoloInv'
    BY <1>b, <2>0 DEF SoloInv, Clean
  <2> QED
    BY <2>2, <2>3
<1>6. ASSUME NEW r \in Requests, Create(r) PROVE (OwnInv /\ SoloInv)'
  <2>0. UNCHANGED <<cache, raced, lapsed>> /\ req[r].pc = "handle"
    BY <1>6 DEF Create
  <2>1. CASE Rows' = Rows /\ Goes(r, "reply", NoOrder, "5xx") /\ \E o \in Orders : Found(o)
    <3>1. /\ req'[r].pc = "reply" /\ req'[r].code = "5xx" /\ req'[r].tracked = req[r].tracked
          /\ \A q \in Requests \ {r} : req'[q] = req[q]
      BY <2>1, GoesFacts DEF Steps, Handling, Codes
    <3>2. ~Clean
      BY <1>b, <2>0, <2>1 DEF Found
    <3>3. OwnInv'
      BY <1>a, <2>0, <3>1 DEF OwnInv, MarkerIsOwned, Handling
    <3> QED
      BY <2>0, <3>2, <3>3 DEF SoloInv, Clean
  <2>2. ASSUME NEW o \in Orders, Goes(r, "items", o, "none"), Rows' = Rows \cup {o}
        PROVE  (OwnInv /\ SoloInv)'
    <3>1. /\ req'[r].pc = "items" /\ req'[r].code = "none" /\ req'[r].tracked = req[r].tracked
          /\ \A q \in Requests \ {r} : req'[q] = req[q]
      BY <2>2, GoesFacts DEF Steps, Handling, Codes
    <3>2. OwnInv'
      BY <1>a, <2>0, <3>1 DEF OwnInv, MarkerIsOwned, Handling
    <3>3. ASSUME Clean
          PROVE  Rows = {} /\ \A q \in Requests \ {r} : req[q].pc \in {"idle", "look"}
      BY <1>b, <2>0, <3>3
    <3>4. SoloInv'
      BY <2>0, <2>2, <3>1, <3>3 DEF SoloInv, Clean
    <3> QED
      BY <3>2, <3>4
  <2> QED
    BY <1>6, <2>1, <2>2, CreateFacts
<1>7. ASSUME NEW r \in Requests, CreateItems(r) \/ Finish(r) PROVE (OwnInv /\ SoloInv)'
  <2>0. /\ UNCHANGED <<cache, raced, lapsed>> /\ req[r].pc \in {"items", "finish"}
        /\ req[r].order \in Rows
    BY <1>7 DEF CreateItems, Finish, KnownInv
  <2>1. Rows' = Rows
    BY <1>7, <2>0 DEF CreateItems, Finish, Rows, TypeOK
  <2>2. PICK pc \in {"finish", "reply"}, c \in {"none", "2xx"} :
          Goes(r, pc, req[r].order, c) /\ (pc = "reply" => c = "2xx")
    BY <1>7 DEF CreateItems, Finish
  <2>3. /\ req'[r].pc = pc /\ req'[r].code = c /\ req'[r].tracked = req[r].tracked
        /\ \A q \in Requests \ {r} : req'[q] = req[q]
    BY <2>0, <2>2, GoesFacts DEF Steps, Handling, Codes, Rows
  <2>4. OwnInv'
    BY <1>a, <2>0, <2>2, <2>3 DEF OwnInv, MarkerIsOwned, Handling
  <2>5. SoloInv'
    BY <1>b, <2>0, <2>1, <2>2, <2>3 DEF SoloInv, Clean
  <2> QED
    BY <2>4, <2>5
<1>8. ASSUME NEW r \in Requests, Reply(r), Hook(r) PROVE (OwnInv /\ SoloInv)'
  <2>0. /\ UNCHANGED <<stage, raced, lapsed>> /\ Rows' = Rows /\ req[r].pc = "reply"
        /\ req'[r] = Idle /\ \A q \in Requests \ {r} : req'[q] = req[q]
    BY <1>8, AnswersFacts DEF Reply, Rows
  <2>1. req[r].tracked /\ req[r].code \in {"2xx", "5xx"}
    BY <1>0, <1>a, <2>0 DEF Handling, ShapeInv, ReqType, Codes
  <2>2. cache' = IF req[r].code = "5xx" THEN Absent ELSE Entry(req[r].code, req[r].order)
    BY <1>8, <2>1 DEF Hook
  <2>3. cache'.code = IF req[r].code = "5xx" THEN "none" ELSE "2xx"
    BY <1>0, <2>1, <2>2 DEF Entry
  <2>4. OwnInv'
    BY <1>0, <1>a, <2>0, <2>3 DEF OwnInv, MarkerIsOwned, Handling
  <2>5. SoloInv'
    BY <1>0, <1>b, <2>0, <2>3 DEF SoloInv, Clean
  <2> QED
    BY <2>4, <2>5
<1>9. CASE AnswerLapses
  <2>1. cache'.code = "none" /\ req' = req /\ lapsed'
    BY <1>0, <1>9 DEF AnswerLapses
  <2> QED
    BY <1>a, <2>1 DEF OwnInv, MarkerIsOwned, SoloInv
<1>10. CASE UNCHANGED vars
  <2>1. req' = req /\ cache' = cache /\ raced' = raced /\ lapsed' = lapsed /\ Rows' = Rows
    BY <1>10 DEF vars, Rows
  <2> QED
    BY <1>a, <1>b, <2>1 DEF OwnInv, MarkerIsOwned, SoloInv, Clean
<1> QED
  BY <1>1, <1>2, <1>3, <1>4, <1>5, <1>6, <1>7, <1>8, <1>9, <1>10, FaultlessSteps

\* The 102 marker has an owner that will replace it, for any number of requests.
THEOREM MarkersOwned == Spec => []MarkerIsOwned
<1>1. Init => TypeOK /\ ShapeInv /\ KnownInv /\ OwnInv /\ SoloInv
  BY InitTypeOK, InitKnown, InitSolo
<1>2. TypeOK /\ ShapeInv /\ KnownInv /\ OwnInv /\ SoloInv /\ [Next]_vars
        => (TypeOK /\ ShapeInv /\ KnownInv /\ OwnInv /\ SoloInv)'
  BY NextTypeOK, NextKnown, NextSolo
<1>3. OwnInv => MarkerIsOwned
  BY DEF OwnInv, MarkerIsOwned
<1> QED
  BY <1>1, <1>2, <1>3, PTL DEF Spec

\* A client whose requests do not race past the look makes one order without the key in
\* the body, as long as nothing fails and no answer is forgotten: for any number of
\* requests, the entry in Redis is then enough.
THEOREM RepeatsAreHarmless == Spec => []RepeatsMakeNoOrder
<1>1. Init => TypeOK /\ ShapeInv /\ KnownInv /\ OwnInv /\ SoloInv
  BY InitTypeOK, InitKnown, InitSolo
<1>2. TypeOK /\ ShapeInv /\ KnownInv /\ OwnInv /\ SoloInv /\ [Next]_vars
        => (TypeOK /\ ShapeInv /\ KnownInv /\ OwnInv /\ SoloInv)'
  BY NextTypeOK, NextKnown, NextSolo
<1>3. SoloInv => RepeatsMakeNoOrder
  BY AtMostOne DEF SoloInv, RepeatsMakeNoOrder
<1> QED
  BY <1>1, <1>2, <1>3, PTL DEF Spec

----------------------------------------------------------------------------
(* Orders the client is told of.                                            *)

Writes(r, o) == req[r].pc \in {"items", "finish"} /\ req[r].order = o

\* Without a race and a fault one request is past the look, an order that is not whole
\* has it for its writer, and wherever an answer waits its order is whole.
WholeInv ==
  ~raced /\ faults = 0 =>
    /\ \A q, r \in Requests :
         req[q].pc \notin {"idle", "look"} /\ req[r].pc \notin {"idle", "look"} => q = r
    /\ \A o \in Rows : stage[o] # "complete" => \E r \in Requests : Writes(r, o)
    /\ \A r \in Requests, o \in Orders : Writes(r, o) => stage[o] # "complete"
    /\ \A r \in Requests :
         req[r].pc = "refill" \/ req[r].code = "2xx" => stage[req[r].order] = "complete"
    /\ cache.code = "2xx" => stage[cache.order] = "complete"
    /\ \A o \in told : stage[o] = "complete"

LEMMA InitWhole == Init => WholeInv
BY DEF Init, WholeInv, Writes, Idle, Request, Absent, Rows

LEMMA NextWhole ==
  TypeOK /\ ShapeInv /\ KnownInv /\ OwnInv /\ WholeInv /\ [Next]_vars => WholeInv'
<1> SUFFICES ASSUME TypeOK, ShapeInv, KnownInv, OwnInv, WholeInv, [Next]_vars,
                    faults' = 0, ~raced'
             PROVE  WholeInv'
  BY DEF WholeInv
<1>0. /\ faults = 0 /\ Idle.pc = "idle" /\ Idle.code = "none" /\ Absent.code = "none"
      /\ \A r \in Requests : req[r] \in ReqType
  BY FaultCounts DEF Idle, Request, Absent, TypeOK, ReqType, Codes
<1>1. ~raced
  BY FaultlessSteps DEF Send, Look, Database, Refill, Mark, Create, CreateItems, Finish, Reply,
     AnswerLapses, vars
<1>2. /\ \A q, r \in Requests :
           req[q].pc \notin {"idle", "look"} /\ req[r].pc \notin {"idle", "look"} => q = r
      /\ \A o \in Rows : stage[o] # "complete" => \E r \in Requests : Writes(r, o)
      /\ \A r \in Requests, o \in Orders : Writes(r, o) => stage[o] # "complete"
      /\ \A r \in Requests :
           req[r].pc = "refill" \/ req[r].code = "2xx" => stage[req[r].order] = "complete"
      /\ cache.code = "2xx" => stage[cache.order] = "complete"
      /\ \A o \in told : stage[o] = "complete"
  BY <1>0, <1>1 DEF WholeInv
\* What a step has to show that moves one request and writes nothing.
<1>3. ASSUME NEW r \in Requests, \A q \in Requests \ {r} : req'[q] = req[q], stage' = stage,
             \/ req'[r].pc \in {"idle", "look"} \/ req[r].pc \notin {"idle", "look"}
             \/ \A q \in Requests : req[q].pc \in {"idle", "look"},
             req[r].pc \notin {"items", "finish"}, req'[r].pc \notin {"items", "finish"},
             req'[r].pc = "refill" \/ req'[r].code = "2xx" => stage[req'[r].order] = "complete",
             cache'.code = "2xx" => stage[cache'.order] = "complete",
             \A o \in told' : stage[o] = "complete"
      PROVE  WholeInv'
  <2>1. \A q, s \in Requests :
          req'[q].pc \notin {"idle", "look"} /\ req'[s].pc \notin {"idle", "look"} => q = s
    BY <1>2, <1>3
  <2>2. \A q \in Requests, o \in Orders : Writes(q, o)' <=> Writes(q, o)
    BY <1>3 DEF Writes
  <2>3. Rows' = Rows /\ Rows \subseteq Orders
    BY <1>3 DEF Rows
  <2> QED
    BY <1>2, <1>3, <2>1, <2>2, <2>3 DEF WholeInv
<1>4. ASSUME NEW r \in Requests, Send(r) PROVE WholeInv'
  <2>1. /\ req'[r].pc = "look" /\ req'[r].code = "none" /\ req[r].pc = "idle"
        /\ \A q \in Requests \ {r} : req'[q] = req[q]
    BY <1>4, MovesFacts DEF Send, Steps
  <2> QED
    BY <1>2, <1>3, <1>4, <2>1 DEF Send
<1>5. ASSUME NEW r \in Requests, Look(r) PROVE WholeInv'
  <2>1. CASE cache.code = "none"
    <3>1. /\ req'[r].pc = "database" /\ req'[r].code = "none"
          /\ \A q \in Requests \ {r} : req'[q] = req[q]
      BY <1>5, <2>1, MovesFacts DEF Look, Steps
    <3>2. /\ \A q \in Requests : req[q].pc \in {"idle", "look"}
          /\ UNCHANGED <<cache, stage, told>>
      BY <1>5, <2>1 DEF Look
    <3> QED
      BY <1>2, <1>3, <2>1, <3>1, <3>2
  <2>2. CASE cache.code # "none"
    <3>1. PICK c \in {"409", cache.code}, o \in {NoOrder, cache.order} :
            Answers(r, c, o) /\ (c = "2xx" => cache.code = "2xx" /\ o = cache.order)
      <4>1. Answers(r, "409", NoOrder) \/ Answers(r, cache.code, cache.order)
        BY <1>5, <2>2 DEF Look
      <4> QED
        BY <4>1
    <3>2. /\ req'[r] = Idle /\ \A q \in Requests \ {r} : req'[q] = req[q]
          /\ told' = IF c = "2xx" THEN told \cup {o} ELSE told
      BY <3>1, AnswersFacts
    <3>3. req[r].pc = "look" /\ UNCHANGED <<cache, stage>>
      BY <1>5 DEF Look
    <3>4. \A x \in told' : stage[x] = "complete"
      BY <1>2, <3>1, <3>2
    <3> QED
      BY <1>0, <1>2, <1>3, <3>2, <3>3, <3>4
  <2> QED
    BY <2>1, <2>2
<1>6. ASSUME NEW r \in Requests, Database(r) PROVE WholeInv'
  <2>0. UNCHANGED <<cache, stage, told>> /\ req[r].pc = "database"
    BY <1>6 DEF Database
  <2>1. PICK pc \in {"refill", "mark"}, o \in Orders \cup {NoOrder} :
          Set(r, Request(pc, FALSE, o, "none")) /\ (pc = "refill" => o \in Rows)
    BY <1>6 DEF Database, Found
  <2>2. /\ req'[r].pc = pc /\ req'[r].code = "none" /\ req'[r].order = o
        /\ \A q \in Requests \ {r} : req'[q] = req[q]
    BY <2>1, MovesFacts, ZenonT(60) DEF Steps
  \* This request is the one past the look, so none is writing.
  <2>3. \A x \in Rows : stage[x] = "complete"
    BY <1>2, <2>0 DEF Writes
  <2> QED
    BY <1>2, <1>3, <2>0, <2>1, <2>2, <2>3
<1>7. ASSUME NEW r \in Requests, Refill(r) PROVE WholeInv'
  <2>1. /\ req'[r] = Idle /\ \A q \in Requests \ {r} : req'[q] = req[q]
        /\ told' = told \cup {req[r].order} /\ stage' = stage /\ req[r].pc = "refill"
        /\ (cache' = cache \/ cache' = Entry("2xx", req[r].order))
    BY <1>7, AnswersFacts DEF Refill
  <2>2. stage[req[r].order] = "complete"
    BY <1>2, <2>1
  <2>3. Entry("2xx", req[r].order).order = req[r].order
    BY DEF Entry
  <2>4. cache'.code = "2xx" => stage[cache'.order] = "complete"
    BY <1>2, <2>1, <2>2, <2>3
  <2>5. \A x \in told' : stage[x] = "complete"
    BY <1>2, <2>1, <2>2
  <2> QED
    BY <1>0, <1>3, <2>1, <2>4, <2>5
<1>8. ASSUME NEW r \in Requests, Mark(r) PROVE WholeInv'
  <2>1. /\ UNCHANGED <<stage, told>> /\ req[r].pc = "mark"
        /\ cache' = Entry("processing", NoOrder)
        /\ req'[r].pc = "handle" /\ req'[r].code = "none"
        /\ \A q \in Requests \ {r} : req'[q] = req[q]
    BY <1>8, MovesFacts DEF Mark, Steps, Handling
  <2>2. Entry("processing", NoOrder).code # "2xx"
    BY DEF Entry
  <2> QED
    BY <1>2, <1>3, <2>1, <2>2
<1>9. ASSUME NEW r \in Requests, Create(r) PROVE WholeInv'
  <2>0. UNCHANGED <<cache, told>> /\ req[r].pc = "handle"
    BY <1>9 DEF Create
  <2>1. CASE Goes(r, "reply", NoOrder, "5xx") /\ stage' = stage
    <3>1. /\ req'[r].pc = "reply" /\ req'[r].code = "5xx"
          /\ \A q \in Requests \ {r} : req'[q] = req[q]
      BY <2>1, GoesFacts DEF Steps, Handling, Codes
    <3> QED
      BY <1>2, <1>3, <2>0, <2>1, <3>1
  <2>2. ASSUME NEW o \in Orders \ Rows, stage' = [stage EXCEPT ![o] = "row"],
               Goes(r, "items", o, "none")
        PROVE  WholeInv'
    <3>1. /\ req'[r].pc = "items" /\ req'[r].code = "none" /\ req'[r].order = o
          /\ \A q \in Requests \ {r} : req'[q] = req[q]
      BY <2>2, GoesFacts DEF Steps, Handling, Codes
    <3>2. /\ stage'[o] = "row" /\ \A x \in Orders \ {o} : stage'[x] = stage[x]
          /\ stage[o] # "complete"
      BY <2>2 DEF TypeOK, Rows
    <3>3. Rows' = Rows \cup {o} /\ Rows \subseteq Orders
      BY <2>2, <3>2 DEF Rows
    <3>4. \A q, s \in Requests :
            req'[q].pc \notin {"idle", "look"} /\ req'[s].pc \notin {"idle", "look"} => q = s
      BY <1>2, <2>0, <3>1
    <3>5. \A x \in Rows' : stage'[x] # "complete" => \E q \in Requests : Writes(q, x)'
      <4>1. \A x \in Rows : stage[x] = "complete"
        BY <1>2, <2>0 DEF Writes
      <4> QED
        BY <2>2, <3>1, <3>2, <3>3, <4>1 DEF Writes
    <3>6. \A q \in Requests, x \in Orders : Writes(q, x)' => stage'[x] # "complete"
      BY <1>2, <2>0, <3>1, <3>2 DEF Writes
    <3>7. \A q \in Requests :
            req'[q].pc = "refill" \/ req'[q].code = "2xx" => stage'[req'[q].order] = "complete"
      BY <1>2, <3>1, <3>2 DEF ShapeInv
    <3>8. cache'.code = "2xx" => stage'[cache'.order] = "complete"
      BY <1>2, <2>0, <3>2 DEF ShapeInv
    <3>9. \A x \in told' : stage'[x] = "complete"
      BY <1>2, <2>0, <3>2 DEF TypeOK
    <3> QED
      BY <3>4, <3>5, <3>6, <3>7, <3>8, <3>9 DEF WholeInv
  <2> QED
    BY <1>9, <2>1, <2>2 DEF Create
<1>10. ASSUME NEW r \in Requests, CreateItems(r) \/ Finish(r) PROVE WholeInv'
  <2>0. UNCHANGED <<cache, told>> /\ req[r].pc \in {"items", "finish"} /\ req[r].order \in Orders
    BY <1>10 DEF CreateItems, Finish, ShapeInv
  <2>a. PICK o \in Orders : o = req[r].order
    BY <2>0
  <2>1. PICK pc \in {"finish", "reply"}, c \in {"none", "2xx"}, s \in {"items", "complete"} :
          /\ Goes(r, pc, o, c) /\ stage' = [stage EXCEPT ![o] = s]
          /\ (pc = "finish" => c = "none" /\ s = "items")
          /\ (pc = "reply" => s = "complete")
    BY <1>10, <2>a DEF CreateItems, Finish
  <2>2. /\ req'[r].pc = pc /\ req'[r].code = c /\ req'[r].order = o
        /\ \A q \in Requests \ {r} : req'[q] = req[q]
    BY <2>0, <2>1, GoesFacts DEF Steps, Handling, Codes
  <2>3. stage'[o] = s /\ \A x \in Orders \ {o} : stage'[x] = stage[x]
    BY <2>0, <2>1 DEF TypeOK
  \* r is the one writer: its order is not whole, and nobody else has one in hand.
  <2>4. stage[o] # "complete" /\ o \in Rows
    BY <1>2, <2>0, <2>a DEF Writes, KnownInv
  <2>5. Rows' = Rows /\ Rows \subseteq Orders
    BY <2>3, <2>4 DEF Rows
  <2>6. \A q, x \in Requests :
          req'[q].pc \notin {"idle", "look"} /\ req'[x].pc \notin {"idle", "look"} => q = x
    BY <1>2, <2>0, <2>2
  <2>7. \A x \in Rows' : stage'[x] # "complete" => \E q \in Requests : Writes(q, x)'
    <3>1. \A x \in Rows \ {o} : stage[x] = "complete"
      BY <1>2, <2>0, <2>a DEF Writes
    <3>2. stage'[o] # "complete" => Writes(r, o)'
      BY <2>1, <2>2, <2>3 DEF Writes
    <3> QED
      BY <2>3, <2>5, <3>1, <3>2
  <2>8. \A q \in Requests, x \in Orders : Writes(q, x)' => stage'[x] # "complete"
    <3>1. \A q \in Requests \ {r} : req[q].pc \notin {"items", "finish"}
      BY <1>2, <2>0
    <3> QED
      BY <2>1, <2>2, <2>3, <3>1 DEF Writes
  <2>9. \A q \in Requests :
          req'[q].pc = "refill" \/ req'[q].code = "2xx" => stage'[req'[q].order] = "complete"
    BY <1>2, <2>1, <2>2, <2>3, <2>4 DEF ShapeInv
  <2>10. cache'.code = "2xx" => stage'[cache'.order] = "complete"
    BY <1>2, <2>0, <2>3, <2>4 DEF ShapeInv
  <2>11. \A x \in told' : stage'[x] = "complete"
    BY <1>2, <2>0, <2>3, <2>4 DEF TypeOK
  <2> QED
    BY <2>6, <2>7, <2>8, <2>9, <2>10, <2>11 DEF WholeInv
<1>11. ASSUME NEW r \in Requests, Reply(r), Hook(r) PROVE WholeInv'
  <2>0. /\ UNCHANGED stage /\ req[r].pc = "reply"
        /\ req'[r] = Idle /\ \A q \in Requests \ {r} : req'[q] = req[q]
        /\ told' = IF req[r].code = "2xx" THEN told \cup {req[r].order} ELSE told
    BY <1>11, AnswersFacts DEF Reply
  <2>1. \A x \in told' : stage[x] = "complete"
    BY <1>2, <2>0
  <2>2. cache' = cache \/ cache' = Absent \/ cache' = Entry(req[r].code, req[r].order)
    BY <1>11 DEF Hook
  <2>3. /\ Entry(req[r].code, req[r].order).code = req[r].code
        /\ Entry(req[r].code, req[r].order).order = req[r].order
    BY DEF Entry
  <2>4. cache'.code = "2xx" => stage[cache'.order] = "complete"
    BY <1>0, <1>2, <2>2, <2>3
  <2> QED
    BY <1>0, <1>3, <2>0, <2>1, <2>4
<1>12. CASE AnswerLapses
  <2>1. cache'.code = "none" /\ UNCHANGED <<req, stage, told>> /\ Rows' = Rows
    BY <1>0, <1>12 DEF AnswerLapses, Rows
  <2> QED
    BY <1>2, <2>1 DEF WholeInv, Writes
<1>13. CASE UNCHANGED vars
  <2>1. UNCHANGED <<req, stage, told, cache>> /\ Rows' = Rows
    BY <1>13 DEF vars, Rows
  <2> QED
    BY <1>2, <2>1 DEF WholeInv, Writes
<1> QED
  BY <1>4, <1>5, <1>6, <1>7, <1>8, <1>9, <1>10, <1>11, <1>12, <1>13, FaultlessSteps

\* No client is told of an order that is still being written, for any number of requests,
\* as long as none of them race past the look and nothing fails.
THEOREM WholeOrdersTold == Spec => []ToldOrdersAreWhole
<1>1. Init => TypeOK /\ ShapeInv /\ KnownInv /\ OwnInv /\ SoloInv /\ WholeInv
  BY InitTypeOK, InitKnown, InitSolo, InitWhole
<1>2. TypeOK /\ ShapeInv /\ KnownInv /\ OwnInv /\ SoloInv /\ WholeInv /\ [Next]_vars
        => (TypeOK /\ ShapeInv /\ KnownInv /\ OwnInv /\ SoloInv /\ WholeInv)'
  BY NextTypeOK, NextKnown, NextSolo, NextWhole
<1>3. WholeInv => ToldOrdersAreWhole
  BY DEF WholeInv, ToldOrdersAreWhole
<1> QED
  BY <1>1, <1>2, <1>3, PTL DEF Spec
=============================================================================
