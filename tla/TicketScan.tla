----------------------------- MODULE TicketScan -----------------------------
(***************************************************************************)
(* The doors of an event (scanning-service): validateScan, which lets a    *)
(* ticket in or turns it away, and the upload of the scans that a device   *)
(* made while it was offline.  A scan holds one connection of the pool     *)
(* from its BEGIN to its COMMIT, and asks the pool for a second one to     *)
(* look for an earlier entry; it reads the ticket without a row lock, and  *)
(* what it leaves in Redis is not part of its transaction.                 *)
(***************************************************************************)
EXTENDS Naturals, FiniteSets, Sequences

CONSTANTS Scans,        \* bound: the scans made online, each of one code
          Offline,      \* bound: the entries that devices allowed offline, each
                        \* a ticket_id and a scanned_at
          Batches,      \* bound: the uploads of such entries
          Tickets,
          TicketOf,     \* the ticket of each scan and offline entry
          Items,        \* the entries that each upload lists, in its order
          PoolSize,     \* max of the pool
          MaxReentries  \* max_reentries of the event's policy

ASSUME ScanAssumption ==
  /\ Scans \cap Offline = {} /\ IsFiniteSet(Scans) /\ IsFiniteSet(Offline)
  /\ TicketOf \in [Scans \cup Offline -> Tickets]
  /\ Items \in [Batches -> Seq(Offline)]
  /\ PoolSize \in Nat \ {0} /\ MaxReentries \in Nat

VARIABLES
  entered,   \* the scans with an ALLOW row
  recorded,  \* how many ALLOW rows each offline entry has
  recent,    \* the entries whose row is inside the duplicate window
  count,     \* scan_count of each ticket
  marker,    \* the tickets with a scan:duplicate key in Redis
  scan,      \* the scans
  batch,     \* the uploads
  overlapped \* two uploads have been in progress at once

vars == <<entered, recorded, recent, count, marker, scan, batch, overlapped>>
tables == <<entered, recorded, recent, count>>

ScanSteps == {"connect", "read", "window", "database", "refill", "policy",
              "admit", "forget", "mark", "commit"}

\* passed: the scan has been let through the checks; again: as a re-entry.
NewScan == [pc |-> "idle", passed |-> FALSE, again |-> FALSE, seen |-> 0,
            before |-> {}, answer |-> "none"]
NewBatch == [pc |-> "idle", next |-> 1, pending |-> {}, aborted |-> FALSE, told |-> {}]

Present(o) == recorded[o] > 0
Entries == entered \cup {o \in Offline : Present(o)}
On(t) == {e \in Scans \cup Offline : TicketOf[e] = t}

TypeOK ==
  /\ entered \subseteq Scans
  /\ recorded \in [Offline -> Nat]
  /\ recent \subseteq Entries
  /\ count \in [Tickets -> Nat]
  /\ marker \subseteq Tickets
  /\ scan \in [Scans -> [pc : ScanSteps \cup {"idle", "done"}, passed : BOOLEAN,
                         again : BOOLEAN, seen : Nat, before : SUBSET (Scans \cup Offline),
                         answer : {"none", "ALLOW", "DUPLICATE", "NO"}]]
  /\ batch \in [Batches -> [pc : {"idle", "connect", "look", "insert", "done"},
                            next : Nat \ {0}, pending : SUBSET Offline,
                            aborted : BOOLEAN, told : SUBSET Offline]]
  /\ overlapped \in BOOLEAN

Init ==
  /\ entered = {} /\ recent = {}
  /\ recorded = [o \in Offline |-> 0]
  /\ count = [t \in Tickets |-> 0]
  /\ marker = {}
  /\ scan = [s \in Scans |-> NewScan]
  /\ batch = [b \in Batches |-> NewBatch]
  /\ overlapped = FALSE

----------------------------------------------------------------------------
(* The pool and the row locks.                                              *)

Connected(r) == r.pc \notin {"idle", "connect", "done"}

InUse == Cardinality({s \in Scans : Connected(scan[s])})
         + Cardinality({b \in Batches : Connected(batch[b])})
PoolIsFree == InUse < PoolSize

\* The transactions that have updated the row of t and are not over.
ScanHolds(s, t) == TicketOf[s] = t /\ scan[s].pc \in {"forget", "mark", "commit"}
BatchHolds(b, t) == ~batch[b].aborted /\ \E o \in batch[b].pending : TicketOf[o] = t

RowIsFree(t) == /\ \A s \in Scans : ~ScanHolds(s, t)
                /\ \A b \in Batches : ~BatchHolds(b, t)

----------------------------------------------------------------------------
(* validateScan.                                                            *)

At(s, p) == scan[s].pc = p
Go(s, p) == scan' = [scan EXCEPT ![s].pc = p]

\* The transaction is over and the connection released: nothing that was read is
\* kept, except of an entry.
Over(k) == [NewScan EXCEPT !.pc = "done", !.passed = k.passed]
Answered(k, a) ==
  IF a = "ALLOW" THEN [k EXCEPT !.pc = "done", !.answer = a, !.seen = 0]
                 ELSE [Over(k) EXCEPT !.answer = a]

Answer(s, a) == scan' = [scan EXCEPT ![s] = Answered(scan[s], a)]

Arrive(s) ==
  /\ At(s, "idle")
  /\ Go(s, "connect")
  /\ UNCHANGED <<tables, marker, batch, overlapped>>

Connect(s) ==
  /\ At(s, "connect") /\ PoolIsFree
  /\ Go(s, "read")
  /\ UNCHANGED <<tables, marker, batch, overlapped>>

\* Mutant of Read: the ticket is marked as scanned before it has passed.
ReadMarks(s) ==
  /\ At(s, "read")
  /\ marker' = marker \cup {TicketOf[s]}
  /\ \/ scan' = [scan EXCEPT ![s].pc = "window", ![s].seen = count[TicketOf[s]],
                             ![s].before = Entries]
     \/ Answer(s, "NO")
  /\ UNCHANGED <<tables, batch, overlapped>>

\* The code (its age, its nonce in Redis and its HMAC), the device, the ticket and
\* its status, venue, times and zone: a DENY on any.
Read(s) ==
  /\ At(s, "read")
  /\ \/ scan' = [scan EXCEPT ![s].pc = "window",
                             ![s].seen = count[TicketOf[s]],
                             ![s].before = Entries]
     \/ Answer(s, "NO")
  /\ UNCHANGED <<tables, marker, batch, overlapped>>

\* checkDuplicate: first the key in Redis,
Window(s) ==
  /\ At(s, "window")
  /\ Go(s, IF TicketOf[s] \in marker THEN "policy" ELSE "database")
  /\ UNCHANGED <<tables, marker, batch, overlapped>>

\* Mutant of Database: only the key in Redis tells a duplicate.
DatabaseTrustsRedis(s) ==
  /\ At(s, "database") /\ PoolIsFree
  /\ scan' = [scan EXCEPT ![s].pc = "admit", ![s].passed = TRUE]
  /\ UNCHANGED <<tables, marker, batch, overlapped>>

\* then the rows of the window, on a second connection.
Database(s) ==
  /\ At(s, "database") /\ PoolIsFree
  /\ IF recent \cap On(TicketOf[s]) # {}
       THEN Go(s, "refill")
       ELSE scan' = [scan EXCEPT ![s].pc = "admit", ![s].passed = TRUE]
  /\ UNCHANGED <<tables, marker, batch, overlapped>>

Refill(s) ==
  /\ At(s, "refill")
  /\ marker' = marker \cup {TicketOf[s]}
  /\ Go(s, "policy")
  /\ UNCHANGED <<tables, batch, overlapped>>

\* checkReentryPolicy, on the ticket as it was read: a policy that is enabled and
\* lets it in or does not (a ticket never scanned has no cooldown to wait for), or
\* none; the venue may change it between two scans.
Policy(s) ==
  /\ At(s, "policy") /\ PoolIsFree
  /\ \/ /\ scan[s].seen < MaxReentries
        /\ scan' = [scan EXCEPT ![s].pc = "admit", ![s].passed = TRUE, ![s].again = TRUE]
     \/ /\ scan[s].seen >= MaxReentries \/ scan[s].seen > 0
        /\ Answer(s, "NO")
     \/ Answer(s, "DUPLICATE")
  /\ UNCHANGED <<tables, marker, batch, overlapped>>

\* Mutant of Admit: the ALLOW row is written on the pool, not in the transaction.
AdmitOutside(s) ==
  /\ At(s, "admit") /\ RowIsFree(TicketOf[s])
  /\ Go(s, "forget")
  /\ recent' = recent \cup {s}
  /\ UNCHANGED <<entered, recorded, count, marker, batch, overlapped>>

\* The UPDATE of the ticket, which waits for its row, and the ALLOW row.
Admit(s) ==
  /\ At(s, "admit") /\ RowIsFree(TicketOf[s])
  /\ Go(s, "forget")
  /\ UNCHANGED <<tables, marker, batch, overlapped>>

Forget(s) ==
  /\ At(s, "forget")
  /\ marker' = marker \ {TicketOf[s]}
  /\ Go(s, "mark")
  /\ UNCHANGED <<tables, batch, overlapped>>

Mark(s) ==
  /\ At(s, "mark")
  /\ marker' = marker \cup {TicketOf[s]}
  /\ Go(s, "commit")
  /\ UNCHANGED <<tables, batch, overlapped>>

\* Mutant of Commit: the count that was read, and one.
CommitOwnCount(s) ==
  /\ At(s, "commit")
  /\ entered' = entered \cup {s}
  /\ recent' = recent \cup {s}
  /\ count' = [count EXCEPT ![TicketOf[s]] = scan[s].seen + 1]
  /\ Answer(s, "ALLOW")
  /\ UNCHANGED <<recorded, marker, batch, overlapped>>

Commit(s) ==
  /\ At(s, "commit")
  /\ entered' = entered \cup {s}
  /\ recent' = recent \cup {s}
  /\ count' = [count EXCEPT ![TicketOf[s]] = @ + 1]
  /\ Answer(s, "ALLOW")
  /\ UNCHANGED <<recorded, marker, batch, overlapped>>

\* connectionTimeoutMillis: the wait for the first or the second connection.
Waiting(s) == scan[s].pc \in {"connect", "database", "policy"}

\* Mutant of PoolTimeout: only the wait for the first connection ends.
PoolTimeoutAtFirst(s) ==
  /\ At(s, "connect") /\ ~PoolIsFree
  /\ Answer(s, "NO")
  /\ UNCHANGED <<tables, marker, batch, overlapped>>

PoolTimeout(s) ==
  /\ Waiting(s) /\ ~PoolIsFree
  /\ Answer(s, "NO")
  /\ UNCHANGED <<tables, marker, batch, overlapped>>

\* Any other await throws: ROLLBACK.
ScanFails(s) ==
  /\ scan[s].pc \in ScanSteps \ {"connect"}
  /\ Answer(s, "NO")
  /\ UNCHANGED <<tables, marker, batch, overlapped>>

----------------------------------------------------------------------------
(* POST /offline/reconcile.                                                 *)

Entry(b) == Items[b][batch[b].next]
Listed(b) == batch[b].next <= Len(Items[b])
Running(b) == batch[b].pc \notin {"idle", "done"}

Upload(b) ==
  /\ batch[b].pc = "idle"
  /\ batch' = [batch EXCEPT ![b].pc = "connect"]
  /\ overlapped' = (overlapped \/ \E c \in Batches : Running(c))
  /\ UNCHANGED <<tables, marker, scan>>

BatchConnect(b) ==
  /\ batch[b].pc = "connect"
  /\ batch' = [batch EXCEPT ![b].pc = IF PoolIsFree THEN "look" ELSE "done"]
  /\ UNCHANGED <<tables, marker, scan, overlapped>>

\* Mutant of Look: the rows of earlier uploads are not looked for.
LookNotBack(b) ==
  /\ batch[b].pc = "look" /\ Listed(b)
  /\ IF batch[b].aborted \/ Entry(b) \in batch[b].pending
       THEN batch' = [batch EXCEPT ![b].next = @ + 1]
       ELSE batch' = [batch EXCEPT ![b].pc = "insert"]
  /\ UNCHANGED <<tables, marker, scan, overlapped>>

\* SELECT of a row of that ticket and time: an entry that has one is skipped, and
\* an aborted transaction runs no statement.
Look(b) ==
  /\ batch[b].pc = "look" /\ Listed(b)
  /\ IF batch[b].aborted \/ Present(Entry(b)) \/ Entry(b) \in batch[b].pending
       THEN batch' = [batch EXCEPT ![b].next = @ + 1]
       ELSE batch' = [batch EXCEPT ![b].pc = "insert"]
  /\ UNCHANGED <<tables, marker, scan, overlapped>>

RowIsMine(b) == /\ \A s \in Scans : ~ScanHolds(s, TicketOf[Entry(b)])
                /\ \A c \in Batches \ {b} : ~BatchHolds(c, TicketOf[Entry(b)])

Insert(b) ==
  /\ batch[b].pc = "insert" /\ RowIsMine(b)
  /\ batch' = [batch EXCEPT ![b].pc = "look", ![b].next = @ + 1,
                            ![b].pending = @ \cup {Entry(b)}, ![b].told = @ \cup {Entry(b)}]
  /\ UNCHANGED <<tables, marker, scan, overlapped>>

\* An error in a statement aborts the transaction and frees its rows; the loop
\* catches it and goes on.  So does an upload of a device that is not found: no
\* entry of it is recorded or reported as reconciled.
Aborts(b) ==
  /\ batch' = [batch EXCEPT ![b].pc = "look", ![b].next = @ + 1, ![b].aborted = TRUE]
  /\ UNCHANGED <<tables, marker, scan, overlapped>>

StatementFails(b) ==
  /\ batch[b].pc \in {"look", "insert"} /\ Listed(b) /\ ~batch[b].aborted
  /\ Aborts(b)

\* Some uploads wait for each other's rows: PostgreSQL aborts one of them.
Deadlocked(b) ==
  \E S \in SUBSET Batches :
    /\ b \in S
    /\ \A x \in S : /\ batch[x].pc = "insert"
                    /\ \E y \in S \ {x} : BatchHolds(y, TicketOf[Entry(x)])

DeadlockBroken(b) == Deadlocked(b) /\ Aborts(b)

\* COMMIT, which of an aborted transaction is a ROLLBACK and no error.
\* scan_count becomes at least the count of the device, here one; an entry may
\* be reported inside the window or after it.
BatchCommit(b) ==
  /\ batch[b].pc = "look" /\ ~Listed(b)
  /\ LET rows == IF batch[b].aborted THEN {} ELSE batch[b].pending
     IN  /\ recorded' = [o \in Offline |-> IF o \in rows THEN recorded[o] + 1 ELSE recorded[o]]
         /\ \E new \in SUBSET {o \in rows : ~Present(o)} : recent' = recent \cup new
         /\ count' = [t \in Tickets |->
                        IF count[t] = 0 /\ \E o \in rows : TicketOf[o] = t THEN 1 ELSE count[t]]
  /\ batch' = [batch EXCEPT ![b].pc = "done", ![b].pending = {}]
  /\ UNCHANGED <<entered, marker, scan, overlapped>>

\* BEGIN or COMMIT fails: ROLLBACK, and the device is told that all failed.
BatchFails(b) ==
  /\ batch[b].pc = "look"
  /\ batch' = [batch EXCEPT ![b].pc = "done", ![b].pending = {}, ![b].told = {}]
  /\ UNCHANGED <<tables, marker, scan, overlapped>>

----------------------------------------------------------------------------
(* Time and faults.                                                         *)

\* The row of an entry leaves the window.
Ages(e) ==
  /\ e \in recent
  /\ recent' = recent \ {e}
  /\ UNCHANGED <<entered, recorded, count, marker, scan, batch, overlapped>>

\* A key of Redis reaches its time, or Redis loses it.
RedisForgets ==
  /\ \E t \in marker : marker' = marker \ {t}
  /\ UNCHANGED <<tables, scan, batch, overlapped>>

\* The process is lost, and every transaction and answer with it.
Crash ==
  /\ \/ \E s \in Scans : scan[s].pc \in ScanSteps
     \/ \E b \in Batches : Running(b)
  /\ scan' = [s \in Scans |-> IF scan[s].pc \in ScanSteps
                                THEN Over(scan[s])
                                ELSE scan[s]]
  /\ batch' = [b \in Batches |-> IF Running(b)
                 THEN [batch[b] EXCEPT !.pc = "done", !.pending = {}, !.told = {}]
                 ELSE batch[b]]
  /\ UNCHANGED <<tables, marker, overlapped>>

----------------------------------------------------------------------------
Validate(s) ==
  \/ Connect(s) \/ Read(s) \/ Window(s) \/ Database(s)
  \/ Refill(s) \/ Policy(s) \/ Admit(s) \/ Forget(s) \/ Mark(s) \/ Commit(s)
  \/ PoolTimeout(s)

Reconcile(b) ==
  \/ BatchConnect(b) \/ Look(b) \/ Insert(b) \/ DeadlockBroken(b) \/ BatchCommit(b)

Next ==
  \/ \E s \in Scans : Arrive(s) \/ Validate(s) \/ ScanFails(s)
  \/ \E b \in Batches : Upload(b) \/ Reconcile(b) \/ StatementFails(b) \/ BatchFails(b)
  \/ \E e \in recent : Ages(e)
  \/ RedisForgets
  \/ Crash

\* A request that has been received goes on: the event loop and the database run.
Spec == /\ Init /\ [][Next]_vars
        /\ \A s \in Scans : WF_vars(Validate(s))
        /\ \A b \in Batches : WF_vars(Reconcile(b))

----------------------------------------------------------------------------
\* No second entry: a scan that read its ticket after another entry of it had
\* been recorded does not get in while that entry is inside the window, unless
\* the re-entry policy let it, whatever Redis lost and whoever crashed
\* (QRValidator.ts:562-604).
NoSecondEntry ==
  \A s \in entered : \A e \in scan[s].before :
    {s, e} \subseteq recent /\ TicketOf[e] = TicketOf[s] => scan[s].again

\* The count of a ticket is never below its online entries, and never above
\* all its entries: no increment of scans at two doors is lost, and an upload
\* raises the count without adding to it (QRValidator.ts:607-614, offline.ts:125-135).
CountMatchesEntries ==
  \A t \in Tickets :
    /\ Cardinality(entered \cap On(t)) <= count[t]
    /\ count[t] <= Cardinality(Entries \cap On(t))

\* A ticket is turned away as already scanned only if another scan of it passed
\* the checks, or an offline entry of it was uploaded (QRValidator.ts:576-583).
DuplicateHasCause ==
  \A s \in Scans : scan[s].answer = "DUPLICATE" =>
    \E e \in On(TicketOf[s]) \ {s} :
      (e \in Scans /\ scan[e].passed) \/ (e \in Offline /\ Present(e))

\* An offline entry is recorded once, however often its device sends it again,
\* as long as its uploads do not overlap (offline.ts:81-96).
RecordedOnce == ~overlapped => \A o \in Offline : recorded[o] <= 1

\* What an upload reports as reconciled is recorded (offline.ts:137-141,
\* "Scan reconciled").
SuccessIsRecorded ==
  \A b \in Batches : batch[b].pc = "done" => \A o \in batch[b].told : Present(o)

\* Every scan and every upload is answered, so that the doors come to rest, even
\* when each connection of the pool is held by a scan that waits for its second
\* one (database.ts:33) or two uploads wait for each other's rows.
AtRest == /\ \A s \in Scans : scan[s].pc \notin ScanSteps
          /\ \A b \in Batches : ~Running(b)
RequestsEnd == ~AtRest ~> AtRest
=============================================================================
