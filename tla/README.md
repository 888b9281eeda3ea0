# TicketToken order platform: TLA+ models, checks and proofs

TicketToken is a ticketing platform of some twenty Fastify services in
TypeScript (`src/backend/services/*`), a shared library
(`src/backend/shared`), PostgreSQL, Redis and RabbitMQ. This directory models
the part of it where money, tickets and orders meet: each service has its own
database, nothing spans two of them, and every operation is a chain of awaited
calls that can fail, be answered late or be overtaken half-way.

## 1. The system and what makes it correct

| component | state | operations | how it meets the others |
|---|---|---|---|
| order-service, `services/order.service.ts` | `orders`, `order_items`, `order_events`, `order_refunds`; published events | create, reserve, confirm, cancel, expire, refund | HTTP calls to ticket- and payment-service, RabbitMQ events, Redis locks |
| order-service, `jobs/expiration.job.ts` | a batch in memory | every minute, expire each order found | calls `expireReservation` |
| order-service, `jobs/job-executor.ts` | status, extension timer and circuit breaker of a process; job lock in Redis | start, fire, retry, time out, extend, stop | runs each job under `utils/distributed-lock.ts` |
| order-service, `middleware/idempotency.middleware.ts` | a Redis entry per user and key | look, mark, fall back to the table, cache the answer | wraps `POST /orders` |
| shared, `utils/distributed-lock.ts` | one Redis key per resource | acquire with retries, run, release | used by confirm, cancel and refund of an order, by purchases of tickets and by others |
| shared, `http-client/*` | circuit breakers, attempts | call, retry, time out, open, half-open | every call between services |
| payment-service, `routes/internal.routes.ts` | payment intents and refunds at Stripe | create, confirm, cancel, refund | called by order-service |
| payment-service, `services/event-ordering.service.ts` | events of a payment with sequence numbers | enqueue, process in order, retry queued | fed by webhooks |
| payment-service, `services/escrow.service.ts` | held and released amounts | create, release, cancel, dispute, automatic release | called by routes and a job |
| payment-service, `workers/outbox.processor.ts` | `outbox` rows, attempts | send, mark, count a failure | webhooks to order- and ticket-service |
| ticket-service, `services/ticketService.ts`, `workers/reservation-cleanup.worker.ts` | `ticket_types` counters, `reservations`, `tickets` | reserve, confirm, release, expire | called by order-service |
| transfer-service, `services/transfer.service.ts` | `ticket_transfers`, owner of a ticket | create, accept, expire | blockchain transfer before the commit |
| scanning-service, `services/QRValidator.ts`, `routes/offline.ts` | `scans`, `scan_count`, duplicate markers in Redis, the pool | validate a scan, reconcile an upload | reads tickets and devices |
| minting-service, `utils/spending-limits.ts` | spent amounts in Redis | check, record | mint queue |
| the other services | see `components` in `PROJECT.json` | | |

What is hard, and what must hold:

* **Orders.** Operations on one order overlap: reservation takes no lock,
  confirmation, cancellation and refund take three different ones, expiration
  takes none. Each reads the status once, makes several calls and then writes
  the status without testing it. A call that times out is sent again while the first
  is still under way, and the services it reaches do not tell the two apart. Correct
  means that no status runs ahead of the calls that earn it, that money goes back only
  where it came from, that tickets agree with the status and transitions with
  `utils/order-state-machine.ts` where handlers do not overlap, that a cancelled order
  gets its money back and that a reservation that timed out ends; the last two, and the
  transitions where handlers do overlap, the code does not keep (section 6).
* **Locks.** A key outlives its dead holder by its lifetime and can run out under a
  live one; a late release must not free another's lock, and two callers may have drawn the
  same value. Correct means mutual exclusion within the lifetime, and freedom after a crash.
* **Ticket inventory.** Counters of a ticket type against the reservations that
  hold them, under row locks taken in request order; confirmation, release and
  cleanup race. Correct means that no seat is sold twice, none is lost and the
  counters agree with the reservations.
* **Payment events, escrow, outbox.** Late, duplicated and reordered
  events; money held and released by several actors; at-least-once
  sending. Correct means that events are applied once and in order, that held
  and released amounts add up, that a message is sent until it is taken or given up.
* **Jobs.** Several processes fire the same job; a timeout rejects an attempt whose work
  goes on. Correct means that no two runs of the work overlap, that every execution ends and
  that the job keeps running whoever crashed, hangs or holds the lock.
* **Repeated requests.** A client that got no answer sends again. Correct means one order
  per key, no answer about an order that is only partly written, no marker left behind, and an answer at
  last.
* **Doors.** Two doors and a late upload see the same ticket. Correct means no second entry
  inside the window, a count that agrees with the entries, a cause for each DUPLICATE, and
  doors that are never stuck on the connection pool or each other's rows.
* **Transfers, spending limits.** A check in one place and a write in another: one pending
  transfer per ticket, a limit that is not overrun.

`hazards` in `PROJECT.json` gives each of them its line.

## 2. Plan

Done, each with its proofs:

1. `LockLease`, `DistributedLock`.
2. `OrderLifecycle` with the expiration job and the two services it calls.
3. `SeatPool`, `TicketInventory`.
4. `JobExecutor`, the runner of the background jobs.
5. `OrderRequests`, the idempotency of `POST /orders`.
6. `TicketScan`, the doors of an event.

Next:

7. The payment side: `Escrow` (held and released amounts, an abstract account that
   never pays out more than it holds), `PaymentEventOrdering` (an abstract log
   applied once and in order), `Outbox` (at least once, bounded attempts).
8. `DisputeEvents`, order-service's consumer of `events/event-subscriber.ts`: test, handle,
   mark and acknowledge, with redelivery and reordering.
9. `SpendingLimits` of minting-service: check, then record.
10. Compositions: `OrderLifecycle` over `DistributedLock` (the lock of an order is a
    lease) and over `SeatPool` (what `OrderLifecycle` assumes of tickets).

Every safety and action property a passing run checks is a theorem too. Worth proving next:
that `OrderLifecycle` needs no more of tickets than a `SeatPool` gives (10), and that `Escrow`
never releases more than it holds.

## 3. Modules

| module | models | extended by |
|---|---|---|
| `LockLease` | what a lock promises: granted to one, ended by its holder or by running out | instantiated by `DistributedLock` |
| `DistributedLock` | `withLock` of `shared/src/utils/distributed-lock.ts` on one key | `DistributedLock_proofs`, `MCDistributedLock` |
| `OrderLifecycle` | order-service, the expiration job, the calls to ticket- and payment-service with their retries | `OrderLifecycle_proofs`, on top of it `OrderMoney_proofs` and `OrderStatus_proofs`; `MCOrderLifecycle` |
| `SeatPool` | what the inventory promises: whole baskets, only free seats, each claim ended once | instantiated by `TicketInventory` |
| `TicketInventory` | the transactions of `ticketService.ts` and the expiry workers | `TicketInventory_proofs`, `MCTicketInventory` |
| `JobExecutor` | `job-executor.ts` in several processes, with `retry.ts`, `circuit-breaker.ts` and the lock of order-service | `JobExecutor_proofs`, `MCJobExecutor` |
| `OrderRequests` | `POST /orders` under one key: the middleware and `createOrder` | `OrderRequests_proofs`, `MCOrderRequests` |
| `TicketScan` | `validateScan` and `POST /offline/reconcile` of scanning-service | `TicketScan_proofs`, `MCTicketScan` |

`map` in `PROJECT.json` gives the lines of each definition. The definitions whose
comment begins "Mutant of" are wrong on purpose: each is a plausible bug that some
property must notice, and no specification uses it.

**DistributedLock.** `key` and `ttl` are the Redis key and its remaining lifetime,
`pc` and `attempts` the execution of `withLock` by each caller; `held`, `holder` and
`lapsed` are history. Each `SET NX PX`, each retry, the give-up after the last one, the
Redis failures (with and without effect), the end of the protected function, the
compare-and-delete and the death of a holder are steps of their own. The value of
the key is `process.pid` and a millisecond (`distributed-lock.ts:105`), and containers often
have the same pid: `ValueOf` gives each execution a value and may give two the same.
An execution whose key ran out can then delete the key of the other. Everything said
of the lock says so: two executions are inside at once only if one of them *or one of the same
value* overstayed (`Overstayed`), and the lease may be ended by a namesake once one of
that name has run out (`LockLease!GiveUpForNamesake`). In the run two callers share a value.

**OrderLifecycle.** `row`, `items`, `recorded`, `published` are the tables `orders`,
`order_items`, `order_refunds` and the events that claim money; `ticket`, `intent`,
`refund` what the other services hold; `late` the calls that timed out and are still under
way; `lock` the Redis locks, one per locked operation and order; `proc` the handlers;
`batch` what a run of the job has still to do. `accepted` (a confirmation was accepted
for the order), `overlapped` (a handler read the order while another was at work on it)
and `delayed` (a ticket call of the order timed out) are history. Each operation of
`order.service.ts` is a chain of steps, one per awaited call. A call (`Await`) is

* answered, its effect done;
* refused, which also stands for an open breaker, a network error, and an answer that is lost after the
  effect: the client repeats none of these (`ServiceClientError` carries no field that `retry.ts` looks at);
* timed out: `circuit-breaker.ts` gives it up after 10 s while the HTTP request has 15 s (10 s to
  ticket-service), so it joins `late` and takes effect whenever it likes, or never. This error alone
  is retried, up to three times.

Every attempt bears a number of its own (`Request`, `Try`): the payment routes pass no
idempotency key on, so an attempt repeated is an intent or a refund repeated. The refund the handler
records is that of the attempt that was answered. `ConfirmRequest` takes any
intent, also another order's or one of no order (`Foreign`), because neither `confirmOrder` nor the
payment service compares it with anything. A confirmation may leave a payment pending (`IntentConfirm`), and nothing
tells the order what became of it (`PaymentSettles`). The row keeps `expires_at` as it is, since
`OrderModel.update` looks for another field, and no intent id reaches the handler, since the reply has it
under another name. `Repaired` names the fields that may match after all: it *adds* outcomes and takes none
away, so that what holds with both repaired holds of the code too, and the runs that look for
counterexamples have it empty. The gateway is external; of tickets the model has what `ticket.client.ts` expects, a
call honoured or refused. As wired every one of them is refused (section 9), which is among the
outcomes. Prices, fees, users and event bodies are left out.

**TicketInventory.** `types`, `resv`, `tickets` are committed rows; `rowLock` the
transaction that holds a row until its end; `key` the Redis locks; `queued` the mint
jobs; `due` the reservations past `expires_at`; `handler` a request with the cart it works
on and the number of items `done`. A transaction runs under READ COMMITTED: it waits for
a row, tests it, updates it and keeps it locked, so its work is applied at `Commit` and
an abort has nothing to undo. `LockTimeout` is `lock_timeout` (10 s) or the deadlock
detector. Folded or left out:

* the shared lock a foreign key takes on a type when a ticket is inserted is folded
  into the lock of the UPDATE that follows;
* the counter of a user's purchases, which a trigger updates when a ticket is inserted,
  is one more row to wait for, which `LockTimeout` and `SqlError` cover;
* the two triggers on `reservations` fire only for a row inserted as confirmed, or a
  confirmed one that changes again; no operation here does either;
* a cart names no type twice (`CartAssumption`).

`purchaseController.ts` and `PurchaseSaga.ts` write the same counters by another
path, which does not work as it is wired (section 9).

**JobExecutor.** `exec` holds the executions of each process (`executeWithMonitoring` with
its retries), `att` the attempts (`withLock(executeCore)`); `running`, `extending` and `breaker` are
the fields of the job, `lock` the key `job:NAME`, `hung` and `exits` bounds, `overrun` the history of
attempts that outlasted the breaker's timeout. That timeout rejects the promise and ends nothing: the
attempt goes on as an orphan (`of = NoExecution`), still holds or lets go of the lock, and all attempts of a
process share one lock value. The lock is order-service's own `utils/distributed-lock.ts`, whose
release is a GET and a DEL. Metrics, alerts, heartbeat and the persisted state are left out: nothing reads
them but the cleanup of stalled jobs, which looks at `lock:job:NAME`, a key nobody sets
(`job-executor.ts:314`). The interval is any: a firing may come at any time.

**OrderRequests.** `cache` is the Redis entry of the key, `req` the requests with the await each one is at,
`stage` how far each order is written (row, items, event), `keyInBody` whether the client repeats the
key in the body, without which the row has none; `told` and `refused` are what the client knows,
`raced` and `lapsed` history. A Redis command, a query or a process may fail at each await (`MaxFaults`). The
user is taken as known: as wired, the idempotency handler runs before `authenticate`
(`order.routes.ts:170-174`) and answers 401 to every request that has a key; the model is of
the middleware with its user.

**TicketScan.** `entered`, `recorded`, `recent` and `count` are the tables `scans` and `tickets` as they are
committed, `marker` the duplicate keys in Redis, `scan` and `batch` the requests. A scan takes a second
connection of the pool while it holds its first, reads the ticket without a lock, updates the row and
writes its markers before its COMMIT; the tables change at COMMIT. An upload runs
all its entries in one transaction; a failed statement aborts it, the loop goes on and the
COMMIT rolls back (`aborted`). The checks before the window (code, nonce, device, ticket status, times, zone) are
one DENY. Offline entries are those the device allowed, with a device count of one. As wired, the queries
of the service do not match its migrations (section 9); the model is of the code with tables that fit.

## 4. Runs

| run | what varies | distinct states |
|---|---|---|
| `lock` | 3 callers, two of them with one lock value, lifetime 2, 2 attempts | 71,447 |
| `orders` | 1 order, 3 requests, 2 handlers at a time, 1 worker, 1 attempt per call | 592,635 |
| `order_calls` | 1 order, 3 requests one after the other, 2 attempts per call, 1 late call, a total of 2 | 544,136 |
| `tickets` | 2 types (2 and 1 seats), 2 carts that name both, 2 reservations, 2 handlers, 3 requests; liveness too | 154,342 |
| `jobs` | 2 processes, 2 executions and 2 attempts at a time, 2 tries, 1 crash or shutdown | 1,874,351 (with symmetry) |
| `job_waits` | liveness, 1 process, 1 hung core, 1 crash or shutdown | 43,858 |
| `requests` | 3 requests at a time, 3 orders, 2 faults; liveness too | 508,886 |
| `scan` | 2 scans, 2 offline entries in 2 crossed uploads, a pool of 2; liveness too | 398,010 |

Why this is enough: every hazard here is between two handlers of the same thing. Two
handlers with a third request before and after them give every order of their steps;
a third caller of the lock can take a key between its expiry and a late release.
The order of a run may be there already, pending, with its items, so that three requests reach reserve,
confirm and a cancellation or refund of them. `orders` lets two handlers and the job interleave, with
calls that fail or are half done; `order_calls` lets the calls themselves repeat and come late,
also after their handler has ended, and a total of 2 tells a refund of a part from a full one. The two
together are out of TLC's reach; the theorems are about both. A payment of no order (`Foreign`)
stands for those of other orders, and orders share nothing else but the number of a request, so one
is enough; again the theorems hold for any number.
In `tickets` three requests reach a reservation, what ends it and one that overlaps; both carts want the one
seat of the second type and name the types in opposite orders, so transactions can wait for
each other. An administrator may lower a quantity to 1 while more seats are out.
In `jobs` the two attempts are an orphan with its successor, or one of each process, and the
lifetime of the lock is two intervals as in the code; the failure threshold is reached within one
execution. In `requests` a third request can come between two that race, and a second fault can
follow on the repeat of the first. In `scan` two scans fill the pool and need a third connection,
and the two uploads list their tickets in opposite orders.
Symmetry is used for processes in `jobs`, which checks no liveness. The bounds are the constants whose comment says so.

`CHECK_DEADLOCK FALSE` everywhere but in `jobs` and `job_waits`: when the clients send no more requests
the system rests. A job never does.

What the runs show: `lock`, that exclusion within the lifetime needs the compare before
the delete, that nobody's act but the lapse of a key of its value ends a live execution's lease (`LeaseKept`), and that
a dead holder's key frees itself; `orders` and `order_calls`, that no order is `CONFIRMED`
before the gateway accepted a confirmation for it, nor `REFUNDED` before a refund of it was
recorded; `orders`, that without an overlap tickets agree with the status and the status follows the state machine in
whatever step something failed; `order_calls`, that repeated and late calls refund no more than the total, take
it from no other order's payment, and record no refund that was not made; `tickets`, that no seat is lost or sold twice
although the Redis lock protects only the first type of a cart and may lapse, because the
row locks do the work, and that `lock_timeout` ends what the order of
row locks lets deadlock; `jobs`, that overlapping firings, retries, an open breaker, crashes and
shutdowns never run the work twice at once unless an attempt outlasted the breaker's timeout, the one gap; `job_waits`, that a
core that hangs for ever stops neither its execution nor the job; `requests`, that the key in the body makes one
order whatever fails, that without it the Redis entry is enough until two requests race past it, and that
neither a lost answer nor a lost marker keeps a client waiting; `scan`, that the row lock and the second look into the
table keep entries and counts right when Redis forgets, and that timeouts free the pool.

## 5. Fairness

* `DistributedLock!FairSpec`: time passes, and a caller that is not in the protected
  function takes its next step. The loop of retries is bounded and each call is awaited.
* `OrderLifecycle!JobSpec`, for `order_expiry` alone: a handler takes its next step (`FairSpec`), because every
  await there has a timeout or is a bounded loop; the job runs each minute; and a step it attempts over and
  over is taken at last: strong fairness, because the database or the process may fail
  at each attempt but not at every one. The violation is found with all of this granted.
* `TicketInventory!FairSpec`: a handler goes on where it can, by the bounded retries,
  `statement_timeout` and `lock_timeout`; the workers run each minute. No fairness
  is assumed of clients, crashes, failures or lapses.
* `JobExecutor!Fairness`: timers fire and promises settle, a core that does not hang ends, a dead process is
  started again by the orchestrator. Time and the steps of an execution are strongly fair, because a
  retry's delay or a full set of attempts may disable them again and again. At most `MaxHung` cores hang.
* `OrderRequests!Fairness`: a request goes on, Redis drops a marker that is over (its TTL), and the client
  sends again while it has no final answer: that is what an idempotency key is for.
* `TicketScan!Spec`: a scan and an upload that were received go on, by `connectionTimeoutMillis` and
  PostgreSQL's deadlock detector where they wait.

## 6. Where code and documentation part

Four are runs that TLC finds violated; `findings` in `PROJECT.json` has the quotations.

* `order_state_machine`: the status is written without looking at it again, and
  confirm, cancel and refund hold three different keys, so they overlap and
  transitions outside `order-state-machine.ts` happen.
* `order_expiry`: `reserveOrder` passes `expiresAt`, `OrderModel.update` reads
  `reservationExpiresAt`: `expires_at` stays NULL, the job finds nothing and a reservation that timed out
  stays `RESERVED`. It fails under `JobSpec`, so not for want of a fair job.
* `order_cancel`: the payment service answers with `paymentIntent.id` and the client reads
  `paymentIntentId`, so the order has no payment intent and a confirmed order that is cancelled keeps its
  captured money; no overlap, retry or failure is needed.
* `scan_upload`: an entry is answered "Scan reconciled" although a later entry's error aborted
  the transaction, whose COMMIT rolled it back.

In the first three the model lets the ticket calls succeed, which they do not as wired (section 9): the runs
speak of `order.service.ts` with a ticket service that serves what its client asks for.

What `OrderLifecycle` lets happen as the code does, so that no property may exclude it:

* one reservation leaves two payment intents, and one refund call refunds a part twice, when its POST is
  repeated after a timeout, though a comment at `base-service-client.ts:333` has the idempotency key "prevent
  duplicate operations on retry" and `payment-service/docs/adr/001-stripe-integration.md:52` says "Prevents duplicate charges on retry";
* an intent of another order, or one that is still pending, confirms an order;
* a payment whose cancellation failed, or that settles late, stays with an order that has expired;
* a refund that fails leaves an order `CONFIRMED` with its tickets released.

The rest was read off the code while modelling:

* the workers call `release_expired_reservations()`, which no migration creates: a
  reservation past its time keeps its seats, and can still be confirmed;
* `idempotency.middleware.ts:99` marks a key as in progress "to prevent concurrent duplicates", with a
  SETEX that tests nothing: two requests that both looked before pass both (`raced`);
* `idempotency.middleware.ts:164` answers with an order "as if it was a successful creation", also
  when the first request failed after the row and before the items (`faults`);
* `job-executor.ts:401` skips a firing "if already running", but `start()` and the end of an older
  execution reset the status under a newer one; only the lock keeps their work apart;
* `QRValidator.ts:562` asks the re-entry policy only inside the duplicate window, so that after it
  every ticket gets in again, and the answer's `scan_count` is the one read before, plus one.

## 7. Proofs

All are checked by TLAPS for every value of the constants under the named
assumptions (`LockAssumption`, `OrderAssumption`, `InventoryAssumption`,
`CartAssumption`, `JobAssumption`, `RequestsAssumption`, `ScanAssumption`), which TLC evaluates in the runs.

* **`DistributedLock_proofs`.** `LockInv` ties the key to the execution whose SET made it, whatever value it
  bears, and says that an execution inside either still has its key or one of its value overstayed or lapsed.
  `LockCorrect` proves it invariant; `Exclusion` (`ExclusionWithinTTL`) and `Refinement`
  (`ImplementsLease`) follow, and `WorkUnderLease` (`LeaseKept`) is proved of the
  abstract lease and carried over by the refinement. `LockTypes` is `TypeOK`. None of them
  assumes that lock values differ; `LockAssumption` only gives every execution one.
* **`OrderLifecycle_proofs`.** `TypeCorrect`: `TypeOK` is not inductive alone, because a
  refund stays within the total only if a busy handler has an order and workers do
  only expirations; `TypeInv` adds `Roles`.
* **`OrderMoney_proofs`.** `MoneyInv` has two halves. For the calls: the number of an attempt that is still to be made
  is borne by nothing yet, neither at the gateway nor under way (`Fresh`), no two calls under way have one number
  (`Distinct`), and a late call still has its effect before it (`CallOK`), so that it can add something but undo
  nothing. For each handler: how far it got, a confirmation past its capture has an accepted one, a refund at its
  record has a real one, a payment it holds belongs to its order (`HandlerOK`, `RowOK`, `PublishedOK`). `Growth`
  says that what a call made stays. From it follow `StatusEarned` (`StatusIsEarned`) and `RefundsReal`
  (`RecordedRefundsAreReal`), for any number of attempts and late calls. As the services are wired
  (`"paymentIntentId"` not in `Repaired`) no order knows its payment, and there is no refund
  for `RefundsReal` to speak of: `UnknownPaymentsStay` proves just that, by `WiredInv`
  (`Penniless`: only a confirmation, whose payment the client names, carries one).
* **`OrderStatus_proofs`.** The properties speak of every state, so the induction
  needs what holds inside an operation. `CourseInv` says of an order that was not overlapped that one handler at most
  is between its read and its write (`Alone`) and that the row still has the status it read (`OnCourse`); and, where no
  ticket call timed out either, that its tickets are those of the row (`TicketsOK`) and where the handler's calls
  have put them by now (`TicketsOnCourse`). `InsertionOK` and `AbsentOK` keep everybody else off an order
  that is still to be inserted. Lemmas on what a step leaves alone let one order be followed at a time. `TicketsFollow`
  (`TicketsFollowStatus`) and `TransitionsAllowed` (`UndisturbedTransitions`) follow, whatever
  the payment service answers, fails to do, repeats or does late.
* **`TicketInventory_proofs`.** `Inv` says what a transaction relies on between its
  statements: the reservation it read is locked, still pending and has the cart it
  carries (`OwnsReservation`); the types it has handled are locked and still have the
  seats it will take (`OwnsTypes`); a new id is its own until it is inserted (`Fresh`).
  `Bystander` shows that a step of another handler keeps all that. From `Inv` follow
  `InventoryTypes`, `TicketsIssued`, `EndedForGood` and `PoolRefinement`: a COMMIT
  is one step of `SeatPool` and every other step a stutter. The Redis lock is nowhere
  used: it may lapse at any time. `SeatsAddUp` proves `SeatsAccounted`, which counts sets of seats
  (`HeldSeats`, `IssuedSeats`) rather than summing over reservations, so that no induction is needed: a COMMIT
  adds or removes the block of one reservation (`SeatsAdded`, from the library's facts on cardinality).
  Its invariant `SeatsInv` adds that these sets are finite, so that the reservations need not be.
* **`JobExecutor_proofs`.** `CoresExclude` needs to know who owns the lock and for how long.
  `IInv` adds to `TypeOK` that an unused slot carries nothing (`IdleInv`), that while no attempt outlasted the
  timeout a core has its lock, with at least as much lifetime left as its attempt has time
  (`LeaseInv`, `YoungInv`), and that a process then has one such attempt (`AloneInv`). The
  assumption `BreakerTimeout <= LockTTL` is used exactly there.
* **`OrderRequests_proofs`.** `KnownInv` (what is told or cached is an order), `OwnInv` (who owns the marker),
  `SoloInv` (without a race one request is past the look) and `WholeInv` (an order cached or told
  is complete) give `OneOrderOnly`, `MarkersOwned`, `RepeatsAreHarmless` and `WholeOrdersTold`.
* **`TicketScan_proofs`.** `QuietInv` (an upload that is over holds no row), `SeenInv` (what a scan has read was
  recorded), `CauseInv` and `OnceInv` give `EntryIsOnce`, `DuplicatesAreCaused` and `EntriesRecordedOnce`;
  `CountsMatch` follows each COMMIT through lemmas on the cardinality of a ticket's entries.

## 8. Only model-checked

* Liveness (`CrashedHolderFreed`, `RequestsEnd` of tickets and of scans, `ExecutionsEnd`, `JobKeepsRunning`, `ClientIsAnswered`): temporal reasoning under fairness is out of the prover's reach.
* The four runs that expect a violation: a counterexample is what they show.

Every other property of a run is a theorem.

## 9. Not modelled

Some parts are written but cannot run as they are wired. The order's own path is among them:

* ticket-service serves none of the routes `ticket.client.ts` calls: `/internal/tickets/availability`, `prices`, `reserve`,
  `confirm` and `release` are neither in `routes/internalRoutes.ts` nor elsewhere under `app.ts:384-414`;
* so `checkAvailability` catches a 404 and answers `{}` (`ticket.client.ts:64-67`), and `createOrder` throws
  "Insufficient tickets" at `order.service.ts:91` every time: over HTTP no order is ever created;
* `confirmOrder` has no caller in order-service: no route, consumer or job confirms an order;
* `order_number` is `ORD-`, 13 digits, `-` and nine characters (`order.service.ts:130`), 27 in a
  `varchar(20)` (`migrations/001_consolidated_baseline.ts:233`), so the INSERT fails.

`OrderLifecycle` models the code of `order.service.ts` all the same, with requests that arrive and ticket calls and inserts that
succeed or fail. What is wired does nothing more than this, so its safety results hold of the program as
it is (of which they say little, since no order gets far), and of the program once these four are mended. `OrderRequests` is
likewise of a `createOrder` that gets past its checks. Scanning-service compares statuses in another letter case than the tickets
have, and inserts into `scans` without the NOT NULL `tenant_id`; the concurrency of its code does not depend on that, so it is
modelled too (section 3). Not modelled for such reasons:

* `purchaseController.ts` and `PurchaseSaga.ts` of ticket-service write a status and columns of
  `ticket_idempotency_keys` the schema does not have, call an `/internal/orders` that order-service
  does not serve, and compensate on a second connection that waits for the saga's own open transaction;
* transfer-service asks for `/internal/tickets/:id/for-transfer`, which ticket-service does not serve, and leaves a
  NOT NULL `tenant_id` empty; ticket-service's own transfer moves a ticket once only;
* `outbox.processor.ts` of payment-service is started by nothing;
* the webhook processor of payment-service hands `event-ordering.service.ts` a gateway id and no tenant, and the state
  table it tests against is seeded in another letter case.

`components` in `PROJECT.json` lists every part with its reason. In short: the services
of section 2, points 7 to 9, are planned; order tools, marketplace, events, venues and
file service are database code with few actors; search, analytics, notifications,
monitoring and integrations read or forward; the blockchain and the gateways
are external; authentication and compliance are outside this work, which states
correctness and not security. Queries, validation, serialisation, pricing and
logging are abstracted everywhere.
