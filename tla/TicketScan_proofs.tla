------------------------- MODULE TicketScan_proofs -------------------------
(***************************************************************************)
(* The doors, for any number of scans, offline entries and uploads.        *)
(***************************************************************************)
EXTENDS TicketScan, FiniteSetTheorems, TLAPS

ScanType == [pc : ScanSteps \cup {"idle", "done"}, passed : BOOLEAN,
             again : BOOLEAN, seen : Nat, before : SUBSET (Scans \cup Offline),
             answer : {"none", "ALLOW", "DUPLICATE", "NO"}]
BatchType == [pc : {"idle", "connect", "look", "insert", "done"}, next : Nat \ {0},
              pending : SUBSET Offline, aborted : BOOLEAN, told : SUBSET Offline]

\* Before and after a scan has been let through the checks.
Checking == {"idle", "connect", "read", "window", "database", "refill", "policy"}
Passing == {"admit", "forget", "mark", "commit"}

----------------------------------------------------------------------------
(* What a step does to the scan or the upload that takes it.                *)

LEMMA NewTypes == NewScan \in ScanType /\ NewBatch \in BatchType
BY DEF NewScan, NewBatch, ScanType, BatchType

LEMMA GoFacts ==
  ASSUME TypeOK, NEW s \in Scans, NEW p \in ScanSteps, Go(s, p)
  PROVE  /\ scan' \in [Scans -> ScanType]
         /\ \A r \in Scans \ {s} : scan'[r] = scan[r]
         /\ scan'[s].pc = p /\ scan'[s].passed = scan[s].passed
         /\ scan'[s].answer = scan[s].answer
         /\ scan'[s].before = scan[s].before /\ scan'[s].again = scan[s].again
<1>1. scan \in [Scans -> ScanType]
  BY DEF TypeOK, ScanType
<1> DEFINE k == [scan[s] EXCEPT !.pc = p]
<1>2. scan' = [scan EXCEPT ![s] = k]
  BY DEF Go
<1>3. k \in ScanType
  BY <1>1 DEF ScanType
<1>4. k.pc = p /\ k.passed = scan[s].passed /\ k.answer = scan[s].answer
      /\ k.before = scan[s].before /\ k.again = scan[s].again
  BY <1>1 DEF ScanType
<1> HIDE DEF k
<1> QED
  BY <1>1, <1>2, <1>3, <1>4

LEMMA AnsweredType ==
  ASSUME NEW k \in ScanType, NEW a \in {"ALLOW", "DUPLICATE", "NO"}
  PROVE  /\ Answered(k, a) \in ScanType
         /\ Answered(k, a).pc = "done" /\ Answered(k, a).answer = a
         /\ Answered(k, a).passed = k.passed
         /\ a = "ALLOW" => /\ Answered(k, a).before = k.before
                           /\ Answered(k, a).again = k.again
         /\ a # "ALLOW" => Answered(k, a).before = {}
BY DEF Answered, Over, NewScan, ScanType

LEMMA OverType ==
  ASSUME NEW k \in ScanType
  PROVE  Over(k) \in ScanType /\ Over(k).pc = "done" /\ Over(k).passed = k.passed
         /\ Over(k).before = {} /\ Over(k).answer = "none"
BY DEF Over, NewScan, ScanType

LEMMA AnswerFacts ==
  ASSUME TypeOK, NEW s \in Scans, NEW a \in {"ALLOW", "DUPLICATE", "NO"}, Answer(s, a)
  PROVE  /\ scan' \in [Scans -> ScanType]
         /\ \A r \in Scans \ {s} : scan'[r] = scan[r]
         /\ scan'[s].pc = "done" /\ scan'[s].answer = a /\ scan'[s].passed = scan[s].passed
         /\ a = "ALLOW" => /\ scan'[s].before = scan[s].before
                           /\ scan'[s].again = scan[s].again
         /\ a # "ALLOW" => scan'[s].before = {}
<1>1. scan \in [Scans -> ScanType] /\ scan[s] \in ScanType
  BY DEF TypeOK, ScanType
<1>2. /\ scan'[s] = Answered(scan[s], a)
      /\ \A r \in Scans \ {s} : scan'[r] = scan[r]
  BY <1>1 DEF Answer
<1>3. scan' \in [Scans -> ScanType]
  BY <1>1, AnsweredType DEF Answer
<1> QED
  BY <1>1, <1>2, <1>3, AnsweredType

\* The steps of a scan, by what they do to it: it moves on among the checks or
\* among the writes, reads, passes, is turned away, or is recorded.
Moves(s) ==
  /\ \E p \in ScanSteps :
       /\ Go(s, p)
       /\ \/ scan[s].pc \in Checking /\ p \in Checking
          \/ scan[s].pc \in Passing /\ p \in Passing
  /\ UNCHANGED <<tables, batch, overlapped>>
Reads(s) ==
  /\ scan[s].pc = "read"
  /\ scan' = [scan EXCEPT ![s].pc = "window", ![s].seen = count[TicketOf[s]],
                          ![s].before = Entries]
  /\ UNCHANGED <<tables, marker, batch, overlapped>>
Passes(s) ==
  /\ \/ /\ scan[s].pc = "database" /\ recent \cap On(TicketOf[s]) = {}
        /\ scan' = [scan EXCEPT ![s].pc = "admit", ![s].passed = TRUE]
     \/ /\ scan[s].pc = "policy"
        /\ scan' = [scan EXCEPT ![s].pc = "admit", ![s].passed = TRUE, ![s].again = TRUE]
  /\ UNCHANGED <<tables, marker, batch, overlapped>>
TurnedAway(s) ==
  /\ scan[s].pc \in ScanSteps
  /\ \E a \in {"DUPLICATE", "NO"} :
       Answer(s, a) /\ (a = "DUPLICATE" => scan[s].pc = "policy")
  /\ UNCHANGED <<tables, marker, batch, overlapped>>

LEMMA StepsOfScan ==
  ASSUME TypeOK, NEW s \in Scans, Arrive(s) \/ Validate(s) \/ ScanFails(s)
  PROVE  Moves(s) \/ Reads(s) \/ Passes(s) \/ TurnedAway(s) \/ Commit(s)
<1>1. CASE Arrive(s) \/ Connect(s) \/ Window(s) \/ Refill(s) \/ Admit(s) \/ Forget(s) \/ Mark(s)
  BY <1>1 DEF Arrive, Connect, Window, Refill, Admit, Forget, Mark, Moves, At, ScanSteps,
              Checking, Passing, tables
<1>2. CASE Read(s)
  BY <1>2 DEF Read, Reads, TurnedAway, At, ScanSteps
<1>3. CASE Database(s)
  BY <1>3 DEF Database, Moves, Passes, At, ScanSteps, Checking, tables
<1>4. CASE Policy(s)
  BY <1>4 DEF Policy, Passes, TurnedAway, At, ScanSteps
<1>5. CASE PoolTimeout(s) \/ ScanFails(s)
  BY <1>5 DEF PoolTimeout, ScanFails, Waiting, TurnedAway, ScanSteps
<1> QED
  BY <1>1, <1>2, <1>3, <1>4, <1>5 DEF Validate

LEMMA ReadsFacts ==
  ASSUME TypeOK, NEW s \in Scans, Reads(s)
  PROVE  /\ scan' \in [Scans -> ScanType]
         /\ \A r \in Scans \ {s} : scan'[r] = scan[r]
         /\ scan'[s].pc = "window" /\ scan'[s].before = Entries
         /\ scan'[s].passed = scan[s].passed /\ scan'[s].answer = scan[s].answer
<1>1. scan \in [Scans -> ScanType] /\ scan[s] \in ScanType
  BY DEF TypeOK, ScanType
<1>2. Entries \in SUBSET (Scans \cup Offline) /\ count[TicketOf[s]] \in Nat
  BY ScanAssumption DEF TypeOK, Entries, ScanAssumption
<1> DEFINE k == [scan[s] EXCEPT !.pc = "window", !.seen = count[TicketOf[s]], !.before = Entries]
<1>3. scan' = [scan EXCEPT ![s] = k]
  BY DEF Reads
<1>4. k \in ScanType
  BY <1>1, <1>2 DEF ScanType, ScanSteps
<1>5. k.pc = "window" /\ k.before = Entries /\ k.passed = scan[s].passed
      /\ k.answer = scan[s].answer
  BY <1>1 DEF ScanType
<1> HIDE DEF k
<1> QED
  BY <1>1, <1>3, <1>4, <1>5

LEMMA PassesFacts ==
  ASSUME TypeOK, NEW s \in Scans, Passes(s)
  PROVE  /\ scan' \in [Scans -> ScanType]
         /\ \A r \in Scans \ {s} : scan'[r] = scan[r]
         /\ scan'[s].pc = "admit" /\ scan'[s].before = scan[s].before
         /\ scan'[s].passed /\ scan'[s].answer = scan[s].answer
         /\ scan'[s].again \/ recent \cap On(TicketOf[s]) = {}
<1>1. scan \in [Scans -> ScanType] /\ scan[s] \in ScanType
  BY DEF TypeOK, ScanType
<1>2. PICK g \in BOOLEAN :
        /\ scan' = [scan EXCEPT ![s] = [scan[s] EXCEPT !.pc = "admit", !.passed = TRUE, !.again = g]]
        /\ g \/ recent \cap On(TicketOf[s]) = {}
  <2>1. CASE scan' = [scan EXCEPT ![s].pc = "admit", ![s].passed = TRUE, ![s].again = TRUE]
    BY <2>1
  <2>2. CASE /\ scan' = [scan EXCEPT ![s].pc = "admit", ![s].passed = TRUE]
             /\ recent \cap On(TicketOf[s]) = {}
    <3>1. scan[s].again \in BOOLEAN
      BY <1>1 DEF ScanType
    <3>2. [scan[s] EXCEPT !.pc = "admit", !.passed = TRUE]
            = [scan[s] EXCEPT !.pc = "admit", !.passed = TRUE, !.again = scan[s].again]
      BY <1>1 DEF ScanType
    <3> QED
      BY <2>2, <3>1, <3>2
  <2> QED
    BY <2>1, <2>2 DEF Passes
<1> DEFINE k == [scan[s] EXCEPT !.pc = "admit", !.passed = TRUE, !.again = g]
<1>3. k \in ScanType
  BY <1>1 DEF ScanType, ScanSteps
<1>4. k.pc = "admit" /\ k.before = scan[s].before /\ k.passed = TRUE /\ k.again = g
      /\ k.answer = scan[s].answer
  BY <1>1 DEF ScanType
<1>5. scan' = [scan EXCEPT ![s] = k]
  BY <1>2
<1> HIDE DEF k
<1> QED
  BY <1>1, <1>2, <1>3, <1>4, <1>5

\* A scan's step changes neither the uploads nor the other scans, and only its
\* commit changes a table.
LEMMA ScanStepFacts ==
  ASSUME TypeOK, NEW s \in Scans, Arrive(s) \/ Validate(s) \/ ScanFails(s)
  PROVE  /\ scan' \in [Scans -> ScanType]
         /\ \A r \in Scans \ {s} : scan'[r] = scan[r]
         /\ UNCHANGED <<recorded, batch, overlapped>>
         /\ scan[s].passed => scan'[s].passed
         /\ Commit(s) \/ UNCHANGED tables
<1>1. scan[s] \in ScanType
  BY DEF TypeOK, ScanType
<1>2. CASE Moves(s)
  <2>1. PICK p \in ScanSteps : Go(s, p)
    BY <1>2 DEF Moves
  <2>2. UNCHANGED <<recorded, batch, overlapped>> /\ UNCHANGED tables
    BY <1>2 DEF Moves, tables
  <2> QED
    BY <2>1, <2>2, GoFacts
<1>3. CASE Reads(s)
  BY <1>3, ReadsFacts DEF Reads, tables
<1>4. CASE Passes(s)
  BY <1>4, PassesFacts DEF Passes, tables
<1>5. CASE TurnedAway(s)
  BY <1>5, AnswerFacts DEF TurnedAway, tables
<1>6. CASE Commit(s)
  BY <1>6, AnswerFacts DEF Commit
<1> QED
  BY <1>2, <1>3, <1>4, <1>5, <1>6, StepsOfScan

----------------------------------------------------------------------------
(* Types.  An upload writes an entry that it lists, and one that is over     *)
(* holds no row.                                                            *)

QuietInv ==
  \A b \in Batches : /\ batch[b].pc = "insert" => Listed(b)
                     /\ batch[b].pc \notin {"look", "insert"} => batch[b].pending = {}

LEMMA EntryIsListed ==
  ASSUME TypeOK, NEW b \in Batches, Listed(b)
  PROVE  Entry(b) \in Offline
<1>1. Items[b] \in Seq(Offline) /\ batch[b].next \in Nat \ {0}
  BY ScanAssumption DEF ScanAssumption, TypeOK
<1> QED
  BY <1>1 DEF Listed, Entry

\* What an upload's step leaves of the uploads: its own record changes.
LEMMA BatchStepFacts ==
  ASSUME TypeOK, QuietInv, NEW b \in Batches,
         Upload(b) \/ Reconcile(b) \/ StatementFails(b) \/ BatchFails(b)
  PROVE  /\ batch' \in [Batches -> BatchType]
         /\ \A c \in Batches \ {b} : batch'[c] = batch[c]
         /\ batch'[b].pc = "insert" => Listed(b) /\ batch'[b].next = batch[b].next
         /\ batch'[b].pc \notin {"look", "insert"} => batch'[b].pending = {}
         /\ UNCHANGED <<entered, marker, scan>>
         /\ BatchCommit(b) \/ UNCHANGED tables
<1>1. batch \in [Batches -> BatchType] /\ batch[b] \in BatchType
  BY DEF TypeOK, BatchType
<1>2. CASE Upload(b)
  BY <1>1, <1>2 DEF Upload, QuietInv, BatchType, tables
<1>3. CASE BatchConnect(b)
  BY <1>1, <1>3 DEF BatchConnect, QuietInv, BatchType, tables
<1>4. CASE Look(b)
  BY <1>1, <1>4 DEF Look, BatchType, tables
<1>5. CASE Insert(b)
  <2>1. Entry(b) \in Offline
    BY <1>5, EntryIsListed DEF Insert, QuietInv
  <2> QED
    BY <1>1, <1>5, <2>1 DEF Insert, BatchType, tables
<1>6. CASE DeadlockBroken(b) \/ StatementFails(b)
  BY <1>1, <1>6 DEF DeadlockBroken, StatementFails, Aborts, BatchType, tables
<1>7. CASE BatchCommit(b)
  BY <1>1, <1>7 DEF BatchCommit, BatchType
<1>8. CASE BatchFails(b)
  BY <1>1, <1>8 DEF BatchFails, BatchType, tables
<1> QED
  BY <1>2, <1>3, <1>4, <1>5, <1>6, <1>7, <1>8 DEF Reconcile

LEMMA CrashFacts ==
  ASSUME TypeOK, Crash
  PROVE  /\ scan' \in [Scans -> ScanType]
         /\ \A s \in Scans : \/ scan'[s] = scan[s] /\ scan[s].pc \notin ScanSteps
                             \/ scan'[s] = Over(scan[s]) /\ scan[s].pc \in ScanSteps
         /\ \A s \in Scans : scan'[s].passed = scan[s].passed
         /\ batch' \in [Batches -> BatchType]
         /\ \A b \in Batches : \/ batch'[b] = batch[b] /\ ~Running(b)
                               \/ batch'[b].pc = "done" /\ batch'[b].pending = {}
<1>1. /\ \A s \in Scans : scan[s] \in ScanType
      /\ \A b \in Batches : batch[b] \in BatchType
  BY DEF TypeOK, ScanType, BatchType
<1>2. /\ scan' \in [Scans -> ScanType]
      /\ \A s \in Scans : \/ scan'[s] = scan[s] /\ scan[s].pc \notin ScanSteps
                          \/ scan'[s] = Over(scan[s]) /\ scan[s].pc \in ScanSteps
  BY <1>1, OverType DEF Crash
<1>3. \A s \in Scans : scan'[s].passed = scan[s].passed
  BY <1>1, <1>2, OverType
<1>4. /\ batch' \in [Batches -> BatchType]
      /\ \A b \in Batches : \/ batch'[b] = batch[b] /\ ~Running(b)
                            \/ batch'[b].pc = "done" /\ batch'[b].pending = {}
  BY <1>1 DEF Crash, BatchType
<1> QED
  BY <1>2, <1>3, <1>4

LEMMA InitTypeOK == Init => TypeOK /\ QuietInv
<1> SUFFICES ASSUME Init PROVE TypeOK /\ QuietInv
  OBVIOUS
<1>1. scan \in [Scans -> ScanType] /\ batch \in [Batches -> BatchType]
  BY NewTypes DEF Init
<1>2. QuietInv
  BY DEF Init, QuietInv, NewBatch
<1> QED
  BY <1>1, <1>2 DEF Init, TypeOK, ScanType, BatchType

LEMMA NextTypeOK == TypeOK /\ QuietInv /\ [Next]_vars => (TypeOK /\ QuietInv)'
<1> SUFFICES ASSUME TypeOK, QuietInv, [Next]_vars PROVE (TypeOK /\ QuietInv)'
  OBVIOUS
<1>1. ASSUME NEW s \in Scans, Arrive(s) \/ Validate(s) \/ ScanFails(s)
      PROVE  (TypeOK /\ QuietInv)'
  <2>1. /\ scan' \in [Scans -> ScanType] /\ UNCHANGED <<recorded, batch, overlapped>>
        /\ Commit(s) \/ UNCHANGED tables
    BY <1>1, ScanStepFacts
  <2>2. TicketOf[s] \in Tickets
    BY ScanAssumption DEF ScanAssumption
  <2>3. marker' \subseteq Tickets
    <3>1. CASE Commit(s)
      BY <3>1 DEF Commit, TypeOK
    <3>2. CASE ~Commit(s)
      BY <1>1, <2>2, <3>2 DEF Arrive, Validate, ScanFails, Connect, Read, Window, Database,
         Refill, Policy, Admit, Forget, Mark, PoolTimeout, TypeOK
    <3> QED
      BY <3>1, <3>2
  <2>4. entered' \subseteq Scans /\ recent' \subseteq Entries' /\ count' \in [Tickets -> Nat]
    BY <2>1, <2>2 DEF Commit, TypeOK, tables, Entries, Present
  <2>5. QuietInv'
    BY <2>1 DEF QuietInv, Listed
  <2> QED
    BY <2>1, <2>3, <2>4, <2>5 DEF TypeOK, ScanType
<1>2. ASSUME NEW b \in Batches, Upload(b) \/ Reconcile(b) \/ StatementFails(b) \/ BatchFails(b)
      PROVE  (TypeOK /\ QuietInv)'
  <2>1. /\ batch' \in [Batches -> BatchType]
        /\ \A c \in Batches \ {b} : batch'[c] = batch[c]
        /\ batch'[b].pc = "insert" => Listed(b) /\ batch'[b].next = batch[b].next
        /\ batch'[b].pc \notin {"look", "insert"} => batch'[b].pending = {}
        /\ UNCHANGED <<entered, marker, scan>> /\ (BatchCommit(b) \/ UNCHANGED tables)
    BY <1>2, BatchStepFacts
  <2>2. QuietInv'
    BY <2>1 DEF QuietInv, Listed
  <2>3. overlapped' \in BOOLEAN
    BY <1>2 DEF Upload, Reconcile, BatchConnect, Look, Insert, DeadlockBroken, Aborts,
       BatchCommit, StatementFails, BatchFails, TypeOK
  <2>4. recorded' \in [Offline -> Nat] /\ recent' \subseteq Entries' /\ count' \in [Tickets -> Nat]
    <3>1. CASE UNCHANGED tables
      BY <3>1 DEF tables, TypeOK, Entries, Present
    <3>2. CASE BatchCommit(b)
      BY <3>2, <2>1 DEF BatchCommit, TypeOK, Entries, Present
    <3> QED
      BY <2>1, <3>1, <3>2
  <2> QED
    BY <2>1, <2>2, <2>3, <2>4 DEF TypeOK, BatchType
<1>3. ASSUME NEW e \in recent, Ages(e) PROVE (TypeOK /\ QuietInv)'
  BY <1>3 DEF Ages, TypeOK, QuietInv, Entries, Present, Listed
<1>4. CASE RedisForgets
  BY <1>4 DEF RedisForgets, TypeOK, QuietInv, Entries, Present, tables, Listed
<1>5. CASE Crash
  <2>1. QuietInv'
    BY <1>5, CrashFacts DEF QuietInv, Running
  <2> QED
    BY <1>5, <2>1, CrashFacts DEF Crash, TypeOK, ScanType, BatchType, tables, Entries, Present
<1>6. CASE UNCHANGED vars
  BY <1>6 DEF vars, TypeOK, QuietInv, Entries, Present, Listed
<1> QED
  BY <1>1, <1>2, <1>3, <1>4, <1>5, <1>6 DEF Next

\* Every variable of the doors keeps its type, the duplicate window among them: an
\* entry in it is in the tables (QRValidator.ts, offline.ts).
THEOREM TypeCorrect == Spec => []TypeOK
BY InitTypeOK, NextTypeOK, PTL DEF Spec

----------------------------------------------------------------------------
(* Entries.                                                                 *)

\* What a scan has seen is recorded; a recorded scan is over; and one that has
\* passed, not as a re-entry, has seen no entry of its ticket that is still in the
\* window: the window can only lose an entry that is older than the scan.
SeenInv ==
  \A s \in Scans :
    /\ scan[s].before \subseteq Entries
    /\ s \in entered => scan[s].pc = "done"
    /\ (scan[s].pc \in Passing \/ s \in entered) /\ ~scan[s].again =>
         scan[s].before \cap recent \cap On(TicketOf[s]) = {}

LEMMA CommitIsNew ==
  ASSUME TypeOK, SeenInv, NEW s \in Scans, Commit(s)
  PROVE  s \notin Entries /\ Entries' = Entries \cup {s} /\ recent' = recent \cup {s}
BY ScanAssumption DEF ScanAssumption, Commit, At, SeenInv, Entries, Present

\* No entry leaves the tables, and none comes back into the window.
LEMMA TablesGrow ==
  ASSUME TypeOK, SeenInv, [Next]_vars
  PROVE  Entries \subseteq Entries' /\ recent' \cap Entries \subseteq recent
         /\ \A o \in Offline : Present(o) => Present(o)'
<1> USE DEF Entries, Present, TypeOK
<1>1. CASE UNCHANGED tables
  BY <1>1 DEF tables
<1>2. ASSUME NEW s \in Scans, Commit(s)
      PROVE  Entries \subseteq Entries' /\ recent' \cap Entries \subseteq recent
             /\ recorded' = recorded
  BY <1>2, CommitIsNew DEF Commit
<1>3. ASSUME NEW b \in Batches, BatchCommit(b)
      PROVE  Entries \subseteq Entries' /\ recent' \cap Entries \subseteq recent
             /\ \A o \in Offline : Present(o) => Present(o)'
  <2>1. /\ entered' = entered
        /\ \A o \in Offline : recorded'[o] \in {recorded[o], recorded[o] + 1}
    BY <1>3 DEF BatchCommit
  <2>2. PICK new \in SUBSET {o \in Offline : ~Present(o)} : recent' = recent \cup new
    BY <1>3 DEF BatchCommit
  <2>3. new \cap Entries = {}
    BY <2>2, ScanAssumption DEF ScanAssumption
  <2> QED
    BY <2>1, <2>2, <2>3
<1>4. CASE \E e \in recent : Ages(e)
  BY <1>4 DEF Ages
<1>5. CASE UNCHANGED vars \/ RedisForgets \/ Crash
  BY <1>1, <1>5 DEF vars, tables, RedisForgets, Crash
<1>6. ASSUME NEW s \in Scans, Arrive(s) \/ Validate(s) \/ ScanFails(s), ~Commit(s)
      PROVE  UNCHANGED tables
  BY <1>6, ScanStepFacts
<1>7. ASSUME NEW b \in Batches, ~BatchCommit(b),
             Upload(b) \/ Reconcile(b) \/ StatementFails(b) \/ BatchFails(b)
      PROVE  UNCHANGED tables
  BY <1>7 DEF Upload, Reconcile, BatchConnect, Look, Insert, DeadlockBroken, StatementFails,
              Aborts, BatchFails, tables
<1> QED
  BY <1>1, <1>2, <1>3, <1>4, <1>5, <1>6, <1>7 DEF Next

LEMMA NextSeen == TypeOK /\ QuietInv /\ SeenInv /\ [Next]_vars => SeenInv'
<1> SUFFICES ASSUME TypeOK, QuietInv, SeenInv, [Next]_vars PROVE SeenInv'
  OBVIOUS
<1> DEFINE Seen(s) ==
      /\ scan[s].before \subseteq Entries
      /\ s \in entered => scan[s].pc = "done"
      /\ (scan[s].pc \in Passing \/ s \in entered) /\ ~scan[s].again =>
           scan[s].before \cap recent \cap On(TicketOf[s]) = {}
<1>1. Entries \subseteq Entries' /\ recent' \cap Entries \subseteq recent
  BY TablesGrow
<1>2. ASSUME NEW r \in Scans, scan'[r] = scan[r], r \in entered' => r \in entered
      PROVE  Seen(r)'
  BY <1>1, <1>2 DEF SeenInv, On
<1>3. ASSUME NEW s \in Scans, Arrive(s) \/ Validate(s) \/ ScanFails(s)
      PROVE  Seen(s)' /\ \A r \in Scans \ {s} : r \in entered' => r \in entered
  <2>0. scan[s] \in ScanType /\ scan[s].before \subseteq Entries
        /\ (s \in entered => scan[s].pc = "done")
    BY DEF TypeOK, ScanType, SeenInv
  <2>1. CASE Moves(s)
    <3>1. PICK p \in ScanSteps :
            /\ Go(s, p)
            /\ \/ scan[s].pc \in Checking /\ p \in Checking
               \/ scan[s].pc \in Passing /\ p \in Passing
      BY <2>1 DEF Moves
    <3>2. scan'[s].pc = p /\ scan'[s].before = scan[s].before /\ scan'[s].again = scan[s].again
      BY <3>1, GoFacts
    <3>3. entered' = entered /\ s \notin entered
      BY <2>0, <2>1, <3>1 DEF Moves, tables, Checking, Passing
    <3>4. p \in Passing => scan[s].pc \in Passing
      BY <3>1 DEF Checking, Passing
    <3> QED
      BY <1>1, <2>0, <3>2, <3>3, <3>4 DEF SeenInv, On
  <2>2. CASE Reads(s)
    <3>1. scan'[s].pc = "window" /\ scan'[s].before = Entries /\ entered' = entered
          /\ s \notin entered
      BY <2>0, <2>2, ReadsFacts DEF Reads, tables
    <3> QED
      BY <1>1, <3>1 DEF Passing
  <2>3. CASE Passes(s)
    <3>1. /\ scan'[s].pc = "admit" /\ scan'[s].before = scan[s].before
          /\ scan'[s].again \/ recent \cap On(TicketOf[s]) = {}
      BY <2>3, PassesFacts
    <3>2. entered' = entered /\ recent' = recent /\ s \notin entered
      BY <2>0, <2>3 DEF Passes, tables
    <3>3. On(TicketOf[s])' = On(TicketOf[s])
      BY DEF On
    <3> QED
      BY <1>1, <2>0, <3>1, <3>2, <3>3
  <2>4. CASE TurnedAway(s)
    <3>1. scan'[s].pc = "done" /\ scan'[s].before = {}
      BY <2>4, AnswerFacts DEF TurnedAway
    <3>2. entered' = entered
      BY <2>4 DEF TurnedAway, tables
    <3> QED
      BY <3>1, <3>2
  <2>5. CASE Commit(s)
    <3>1. scan'[s].pc = "done" /\ scan'[s].before = scan[s].before
          /\ scan'[s].again = scan[s].again /\ entered' = entered \cup {s}
      BY <2>5, AnswerFacts DEF Commit
    <3>2. scan[s].pc \in Passing
      BY <2>5 DEF Commit, At, Passing
    <3> QED
      BY <1>1, <2>0, <3>1, <3>2 DEF SeenInv, On
  <2> QED
    BY <1>3, <2>1, <2>2, <2>3, <2>4, <2>5, StepsOfScan DEF Moves, Reads, Passes, TurnedAway,
       Commit, tables
<1>4. ASSUME NEW s \in Scans, Arrive(s) \/ Validate(s) \/ ScanFails(s) PROVE SeenInv'
  <2>1. \A r \in Scans \ {s} : scan'[r] = scan[r]
    BY <1>4, ScanStepFacts
  <2>2. \A r \in Scans : Seen(r)'
    BY <1>2, <1>3, <1>4, <2>1
  <2> QED
    BY <2>2 DEF SeenInv
<1>5. CASE Crash
  <2>1. \A s \in Scans : Seen(s)'
    <3> SUFFICES ASSUME NEW s \in Scans PROVE Seen(s)'
      OBVIOUS
    <3>1. CASE scan'[s] = scan[s]
      BY <1>2, <1>5, <3>1 DEF Crash, tables
    <3>2. CASE scan'[s] = Over(scan[s])
      <4>1. scan[s] \in ScanType
        BY DEF TypeOK, ScanType
      <4> QED
        BY <3>2, <4>1, OverType
    <3> QED
      BY <1>5, <3>1, <3>2, CrashFacts
  <2> QED
    BY <2>1 DEF SeenInv
<1>6. CASE scan' = scan /\ entered' = entered
  BY <1>2, <1>6 DEF SeenInv
<1>7. CASE \/ \E b \in Batches : Upload(b) \/ Reconcile(b) \/ StatementFails(b) \/ BatchFails(b)
           \/ \E e \in recent : Ages(e)
           \/ RedisForgets \/ UNCHANGED vars
  BY <1>6, <1>7, BatchStepFacts DEF Ages, RedisForgets, vars, tables
<1> QED
  BY <1>4, <1>5, <1>7 DEF Next

LEMMA InitSeen == Init => SeenInv
BY DEF Init, SeenInv, NewScan, Passing

\* No second entry inside the duplicate window unless the re-entry policy let it in,
\* for any number of gates (QRValidator.ts:562-604): SeenInv says it of the scans
\* that are past the checks, too.
THEOREM EntryIsOnce == Spec => []NoSecondEntry
<1>1. Init => TypeOK /\ QuietInv /\ SeenInv
  BY InitTypeOK, InitSeen
<1>2. TypeOK /\ QuietInv /\ SeenInv /\ [Next]_vars => (TypeOK /\ QuietInv /\ SeenInv)'
  BY NextTypeOK, NextSeen
<1>3. TypeOK /\ SeenInv => NoSecondEntry
  <2> SUFFICES ASSUME TypeOK, SeenInv, NEW s \in entered, NEW e \in scan[s].before,
                      {s, e} \subseteq recent, TicketOf[e] = TicketOf[s], ~scan[s].again
               PROVE  FALSE
    BY DEF NoSecondEntry
  <2>1. s \in Scans /\ e \in recent /\ e \in Scans \cup Offline
    BY DEF TypeOK, Entries
  <2> QED
    BY <2>1 DEF SeenInv, On
<1> QED
  BY <1>1, <1>2, <1>3, PTL DEF Spec

----------------------------------------------------------------------------
(* Causes.                                                                  *)

\* A ticket that a scan may find already scanned.
Cause(t) ==
  \E e \in On(t) : (e \in Scans /\ scan[e].passed) \/ (e \in Offline /\ Present(e))

\* A key in Redis and a row in the window have a cause, and so has whatever found one
\* of them; a scan that is still checking has not passed, so it is not its own cause.
CauseInv ==
  /\ \A t \in marker : Cause(t)
  /\ \A s \in entered : scan[s].passed
  /\ \A s \in Scans :
       /\ scan[s].pc \in Checking => ~scan[s].passed
       /\ scan[s].pc \in Passing => scan[s].passed
       /\ scan[s].pc \in {"refill", "policy"} => Cause(TicketOf[s])
       /\ scan[s].answer = "DUPLICATE" =>
            scan[s].pc = "done" /\ ~scan[s].passed /\ Cause(TicketOf[s])

LEMMA WindowHasCause ==
  ASSUME TypeOK, CauseInv, NEW t, recent \cap On(t) # {}
  PROVE  Cause(t)
BY DEF TypeOK, Entries, CauseInv, Cause

LEMMA CauseGrows ==
  ASSUME \A s \in Scans : scan[s].passed => scan'[s].passed,
         \A o \in Offline : Present(o) => Present(o)',
         NEW t, Cause(t)
  PROVE  Cause(t)'
BY DEF Cause, On

LEMMA InitCause == Init => CauseInv
BY DEF Init, CauseInv, NewScan, Checking, Passing

LEMMA NextCause ==
  TypeOK /\ QuietInv /\ SeenInv /\ CauseInv /\ [Next]_vars => CauseInv'
<1> SUFFICES ASSUME TypeOK, QuietInv, SeenInv, CauseInv, [Next]_vars PROVE CauseInv'
  OBVIOUS
<1> DEFINE Caused(s) ==
      /\ scan[s].pc \in Checking => ~scan[s].passed
      /\ scan[s].pc \in Passing => scan[s].passed
      /\ scan[s].pc \in {"refill", "policy"} => Cause(TicketOf[s])
      /\ scan[s].answer = "DUPLICATE" =>
           scan[s].pc = "done" /\ ~scan[s].passed /\ Cause(TicketOf[s])
<1>1. \A o \in Offline : Present(o) => Present(o)'
  BY TablesGrow
<1>2. ASSUME \A s \in Scans : scan[s].passed => scan'[s].passed,
             NEW r \in Scans, scan'[r] = scan[r]
      PROVE  Caused(r)'
  <2>1. Cause(TicketOf[r]) => Cause(TicketOf[r])'
    BY <1>1, <1>2, CauseGrows
  <2> QED
    BY <1>2, <2>1 DEF CauseInv
<1>3. ASSUME NEW s \in Scans, Arrive(s) \/ Validate(s) \/ ScanFails(s)
      PROVE  Caused(s)' /\ (s \in entered' => scan'[s].passed)
             /\ \A t \in marker' : Cause(t)'
  <2>0. /\ scan[s] \in ScanType /\ Caused(s) /\ (s \in entered => scan[s].passed)
        /\ \A r \in Scans : scan[r].passed => scan'[r].passed
    BY <1>3, ScanStepFacts DEF TypeOK, ScanType, CauseInv
  <2>1. \A t : Cause(t) => Cause(t)'
    BY <1>1, <2>0, CauseGrows
  <2>2. CASE Arrive(s) \/ Connect(s) \/ Window(s)
             \/ (Database(s) /\ recent \cap On(TicketOf[s]) # {})
    <3>1. PICK p \in {"connect", "read", "database", "policy", "refill"} :
            Go(s, p) /\ (p \in {"policy", "refill"} => Cause(TicketOf[s]))
      BY <2>2, WindowHasCause DEF Arrive, Connect, Window, Database, CauseInv
    <3>2. scan'[s].pc = p /\ scan'[s].passed = scan[s].passed /\ scan'[s].answer = scan[s].answer
      BY <3>1, GoFacts DEF ScanSteps
    <3>3. scan[s].pc \in Checking /\ marker' = marker /\ entered' = entered
      BY <2>2 DEF Arrive, Connect, Window, Database, At, Checking, tables
    <3> QED
      BY <2>0, <2>1, <3>1, <3>2, <3>3 DEF CauseInv, Passing, Checking
  <2>3. CASE Refill(s)
    <3>1. scan'[s].pc = "policy" /\ scan'[s].passed = scan[s].passed
          /\ scan'[s].answer = scan[s].answer
      BY <2>3, GoFacts DEF Refill, ScanSteps
    <3>2. scan[s].pc = "refill" /\ marker' = marker \cup {TicketOf[s]} /\ entered' = entered
      BY <2>3 DEF Refill, At, tables
    <3> QED
      BY <2>0, <2>1, <3>1, <3>2 DEF CauseInv, Passing, Checking
  <2>4. CASE Admit(s) \/ Forget(s) \/ Mark(s)
    <3>1. PICK p \in {"forget", "mark", "commit"} : Go(s, p)
      BY <2>4 DEF Admit, Forget, Mark
    <3>2. scan'[s].pc = p /\ scan'[s].passed = scan[s].passed /\ scan'[s].answer = scan[s].answer
      BY <3>1, GoFacts DEF ScanSteps
    <3>3. /\ scan[s].pc \in Passing \ {"commit"} /\ entered' = entered
          /\ marker' \subseteq marker \cup {TicketOf[s]}
      BY <2>4 DEF Admit, Forget, Mark, At, Passing, tables
    <3>4. Cause(TicketOf[s])
      BY <2>0, <3>3 DEF Cause, On
    <3> QED
      BY <2>0, <2>1, <3>1, <3>2, <3>3, <3>4 DEF CauseInv, Passing, Checking
  <2>5. CASE Reads(s)
    <3>1. scan[s].pc = "read" /\ marker' = marker /\ entered' = entered
      BY <2>5 DEF Reads, tables
    <3> QED
      BY <2>0, <2>1, <2>5, <3>1, ReadsFacts DEF CauseInv, Checking, Passing
  <2>6. CASE Passes(s)
    <3>1. scan[s].pc \in {"database", "policy"} /\ marker' = marker /\ entered' = entered
      BY <2>6 DEF Passes, tables
    <3> QED
      BY <2>0, <2>1, <2>6, <3>1, PassesFacts DEF CauseInv, Checking, Passing
  <2>7. CASE TurnedAway(s)
    <3>1. PICK a \in {"DUPLICATE", "NO"} : Answer(s, a) /\ (a = "DUPLICATE" => scan[s].pc = "policy")
      BY <2>7 DEF TurnedAway
    <3>2. scan'[s].pc = "done" /\ scan'[s].answer = a /\ scan'[s].passed = scan[s].passed
      BY <3>1, AnswerFacts
    <3>3. marker' = marker /\ entered' = entered
      BY <2>7 DEF TurnedAway, tables
    <3> QED
      BY <2>0, <2>1, <3>1, <3>2, <3>3 DEF CauseInv, Checking, Passing
  <2>8. CASE Commit(s)
    <3>1. scan'[s].pc = "done" /\ scan'[s].answer = "ALLOW" /\ scan'[s].passed = scan[s].passed
      BY <2>8, AnswerFacts DEF Commit
    <3>2. scan[s].pc \in Passing /\ marker' = marker
      BY <2>8 DEF Commit, At, Passing
    <3> QED
      BY <2>0, <2>1, <3>1, <3>2 DEF CauseInv, Checking, Passing
  <2>9. CASE Read(s) \/ Policy(s) \/ PoolTimeout(s) \/ ScanFails(s)
             \/ (Database(s) /\ recent \cap On(TicketOf[s]) = {})
    <3>1. Read(s) => Reads(s) \/ TurnedAway(s)
      BY DEF Read, Reads, TurnedAway, At, ScanSteps
    <3>2. Policy(s) => Passes(s) \/ TurnedAway(s)
      BY DEF Policy, Passes, TurnedAway, At, ScanSteps
    <3>3. PoolTimeout(s) \/ ScanFails(s) => TurnedAway(s)
      BY DEF PoolTimeout, Waiting, ScanFails, TurnedAway, ScanSteps
    <3>4. (Database(s) /\ recent \cap On(TicketOf[s]) = {}) => Passes(s)
      BY DEF Database, Passes, At
    <3> QED
      BY <2>9, <2>5, <2>6, <2>7, <3>1, <3>2, <3>3, <3>4
  <2> QED
    BY <1>3, <2>2, <2>3, <2>4, <2>8, <2>9 DEF Validate
<1>4. ASSUME NEW s \in Scans, Arrive(s) \/ Validate(s) \/ ScanFails(s) PROVE CauseInv'
  <2>1. /\ \A r \in Scans \ {s} : scan'[r] = scan[r]
        /\ \A r \in Scans : scan[r].passed => scan'[r].passed
        /\ entered' \subseteq entered \cup {s} /\ entered \subseteq Scans
    BY <1>4, ScanStepFacts DEF Commit, tables, TypeOK
  <2>2. \A r \in Scans : Caused(r)'
    BY <1>2, <1>3, <1>4, <2>1
  <2>3. \A r \in entered' : scan'[r].passed
    BY <1>3, <1>4, <2>1 DEF CauseInv
  <2> QED
    BY <1>3, <1>4, <2>2, <2>3 DEF CauseInv
<1>5. CASE Crash
  <2>1. \A s \in Scans : scan[s].passed => scan'[s].passed
    BY <1>5, CrashFacts
  <2>2. ASSUME NEW s \in Scans PROVE Caused(s)'
    <3>1. CASE scan'[s] = scan[s]
      BY <1>2, <2>1, <3>1
    <3>2. CASE scan'[s] = Over(scan[s])
      <4>1. scan[s] \in ScanType
        BY DEF TypeOK, ScanType
      <4> QED
        BY <3>2, <4>1, OverType DEF Checking, Passing
    <3> QED
      BY <1>5, <3>1, <3>2, CrashFacts
  <2>3. entered' = entered /\ marker' = marker
    BY <1>5 DEF Crash, tables
  <2>4. \A t \in marker' : Cause(t)'
    BY <1>1, <2>1, <2>3, CauseGrows DEF CauseInv
  <2> QED
    BY <2>1, <2>2, <2>3, <2>4 DEF CauseInv, TypeOK
<1>6. CASE scan' = scan /\ entered' = entered /\ marker' \subseteq marker
  <2>1. \A s \in Scans : Caused(s)'
    BY <1>2, <1>6
  <2>2. \A t \in marker' : Cause(t)'
    BY <1>1, <1>6, CauseGrows DEF CauseInv
  <2> QED
    BY <1>6, <2>1, <2>2 DEF CauseInv
<1>7. CASE \/ \E b \in Batches : Upload(b) \/ Reconcile(b) \/ StatementFails(b) \/ BatchFails(b)
           \/ \E e \in recent : Ages(e)
           \/ RedisForgets \/ UNCHANGED vars
  BY <1>6, <1>7, BatchStepFacts DEF Ages, RedisForgets, vars, tables
<1> QED
  BY <1>4, <1>5, <1>7 DEF Next

\* Nobody is turned away as already scanned without an entry of the ticket, or a scan
\* that had passed the checks (QRValidator.ts:576-583).
THEOREM DuplicatesAreCaused == Spec => []DuplicateHasCause
<1>1. Init => TypeOK /\ QuietInv /\ SeenInv /\ CauseInv
  BY InitTypeOK, InitSeen, InitCause
<1>2. TypeOK /\ QuietInv /\ SeenInv /\ CauseInv /\ [Next]_vars
        => (TypeOK /\ QuietInv /\ SeenInv /\ CauseInv)'
  BY NextTypeOK, NextSeen, NextCause
<1>3. TypeOK /\ CauseInv => DuplicateHasCause
  BY ScanAssumption DEF ScanAssumption, CauseInv, Cause, DuplicateHasCause, On
<1> QED
  BY <1>1, <1>2, <1>3, PTL DEF Spec

----------------------------------------------------------------------------
(* Offline entries.                                                         *)

\* As long as uploads do not overlap: one is in progress, and what it has written or
\* is about to write has no row yet.
OnceInv ==
  ~overlapped =>
    /\ \A b, c \in Batches : Running(b) /\ Running(c) => b = c
    /\ \A o \in Offline : recorded[o] <= 1
    /\ \A b \in Batches : /\ \A o \in batch[b].pending : recorded[o] = 0
                          /\ batch[b].pc = "insert" => recorded[Entry(b)] = 0

LEMMA InitOnce == Init => OnceInv
BY DEF Init, OnceInv, NewBatch, Running

LEMMA NextOnce == TypeOK /\ QuietInv /\ OnceInv /\ [Next]_vars => OnceInv'
<1> SUFFICES ASSUME TypeOK, QuietInv, OnceInv, [Next]_vars, ~overlapped'
             PROVE  /\ \A b, c \in Batches : Running(b)' /\ Running(c)' => b = c
                    /\ \A o \in Offline : recorded'[o] <= 1
                    /\ \A b \in Batches : /\ \A o \in batch'[b].pending : recorded'[o] = 0
                                          /\ batch'[b].pc = "insert" => recorded'[Entry(b)'] = 0
  BY DEF OnceInv
<1> DEFINE Goal ==
      /\ \A b, c \in Batches : Running(b)' /\ Running(c)' => b = c
      /\ \A o \in Offline : recorded'[o] <= 1
      /\ \A b \in Batches : /\ \A o \in batch'[b].pending : recorded'[o] = 0
                            /\ batch'[b].pc = "insert" => recorded'[Entry(b)'] = 0
<1>1. CASE UNCHANGED <<recorded, batch, overlapped>>
  BY <1>1 DEF OnceInv, Running, Entry
<1>2. ASSUME NEW b \in Batches, Upload(b) \/ Reconcile(b) \/ StatementFails(b) \/ BatchFails(b)
      PROVE  Goal
  <2>0. /\ \A c \in Batches \ {b} : batch'[c] = batch[c]
        /\ batch'[b].pc = "insert" => Listed(b) /\ batch'[b].next = batch[b].next
        /\ batch[b] \in BatchType /\ batch \in [Batches -> BatchType]
        /\ ~overlapped
    BY <1>2, BatchStepFacts DEF TypeOK, BatchType, Upload, Reconcile, BatchConnect, Look, Insert,
       DeadlockBroken, Aborts, BatchCommit, StatementFails, BatchFails
  <2>1. /\ \A c, d \in Batches : Running(c) /\ Running(d) => c = d
        /\ \A o \in Offline : recorded[o] <= 1
        /\ \A c \in Batches : /\ \A o \in batch[c].pending : recorded[o] = 0
                              /\ batch[c].pc = "insert" => recorded[Entry(c)] = 0
    BY <2>0 DEF OnceInv
  <2>2. \A c \in Batches \ {b} : Running(c)' = Running(c) /\ Entry(c)' = Entry(c)
    BY <2>0 DEF Running, Entry
  <2>3. CASE Upload(b)
    <3>1. \A c \in Batches : ~Running(c)
      BY <2>3 DEF Upload
    <3>2. recorded' = recorded /\ batch'[b].pc = "connect" /\ batch'[b].pending = batch[b].pending
      BY <2>0, <2>3 DEF Upload, tables, BatchType
    <3> QED
      BY <2>0, <2>1, <2>2, <3>1, <3>2
  <2>4. ASSUME Running(b), recorded' = recorded,
               \A o \in batch'[b].pending : recorded[o] = 0,
               batch'[b].pc = "insert" => recorded[Entry(b)'] = 0
        PROVE  Goal
    BY <2>0, <2>1, <2>2, <2>4
  <2>5. CASE BatchConnect(b) \/ BatchFails(b) \/ StatementFails(b) \/ DeadlockBroken(b)
    <3>1. recorded' = recorded /\ Running(b) /\ batch'[b].pc # "insert"
          /\ batch'[b].pending \subseteq batch[b].pending
      BY <2>0, <2>5 DEF BatchConnect, BatchFails, StatementFails, DeadlockBroken, Deadlocked,
         Aborts, tables, Running, BatchType
    <3> QED
      BY <2>1, <2>4, <3>1
  <2>6. CASE Look(b)
    <3>1. recorded' = recorded /\ Running(b) /\ batch'[b].pending = batch[b].pending
      BY <2>0, <2>6 DEF Look, tables, Running, BatchType
    <3>2. batch'[b].pc = "insert" => ~Present(Entry(b)) /\ Entry(b)' = Entry(b)
      BY <2>0, <2>6 DEF Look, BatchType, Entry
    <3>3. Entry(b) \in Offline
      BY <2>6, EntryIsListed DEF Look
    <3> QED
      BY <2>1, <2>4, <3>1, <3>2, <3>3 DEF Present, TypeOK
  <2>7. CASE Insert(b)
    <3>1. recorded' = recorded /\ Running(b) /\ batch'[b].pc = "look"
          /\ batch'[b].pending = batch[b].pending \cup {Entry(b)} /\ recorded[Entry(b)] = 0
      BY <2>0, <2>1, <2>7 DEF Insert, tables, Running, BatchType
    <3> QED
      BY <2>1, <2>4, <3>1
  <2>8. CASE BatchCommit(b)
    <3>1. Running(b) /\ batch'[b].pc = "done" /\ batch'[b].pending = {}
      BY <2>0, <2>8 DEF BatchCommit, Running, BatchType
    <3>2. \A c \in Batches \ {b} : batch'[c].pc \notin {"look", "insert"} /\ batch'[c].pending = {}
      BY <2>0, <2>1, <3>1 DEF QuietInv, Running
    <3>3. \A o \in Offline : recorded'[o] <= 1
      BY <2>1, <2>8 DEF BatchCommit, TypeOK
    <3> QED
      BY <2>1, <2>2, <3>1, <3>2, <3>3 DEF Running
  <2> QED
    BY <1>2, <2>3, <2>5, <2>6, <2>7, <2>8 DEF Reconcile
<1>3. CASE Crash
  <2>1. recorded' = recorded /\ overlapped' = overlapped
    BY <1>3 DEF Crash, tables
  <2>2. \A b \in Batches : batch'[b].pc \in {"idle", "done"}
                          /\ (batch'[b].pending = {} \/ batch'[b].pending = batch[b].pending)
    BY <1>3, CrashFacts DEF Running
  <2> QED
    BY <2>1, <2>2 DEF OnceInv, Running
<1>4. ASSUME NEW s \in Scans, Arrive(s) \/ Validate(s) \/ ScanFails(s)
      PROVE  UNCHANGED <<recorded, batch, overlapped>>
  BY <1>4, ScanStepFacts
<1>5. CASE (\E e \in recent : Ages(e)) \/ RedisForgets \/ UNCHANGED vars
  BY <1>1, <1>5 DEF Ages, RedisForgets, tables, vars
<1> QED
  BY <1>1, <1>2, <1>3, <1>4, <1>5 DEF Next

\* An entry made offline is recorded once however often it is sent, while uploads do
\* not overlap (offline.ts:81-96).
THEOREM EntriesRecordedOnce == Spec => []RecordedOnce
<1>1. Init => TypeOK /\ QuietInv /\ OnceInv
  BY InitTypeOK, InitOnce
<1>2. TypeOK /\ QuietInv /\ OnceInv /\ [Next]_vars => (TypeOK /\ QuietInv /\ OnceInv)'
  BY NextTypeOK, NextOnce
<1>3. OnceInv => RecordedOnce
  BY DEF OnceInv, RecordedOnce
<1> QED
  BY <1>1, <1>2, <1>3, PTL DEF Spec

----------------------------------------------------------------------------
(* Counts.                                                                  *)

LEMMA EntriesFinite ==
  ASSUME TypeOK, NEW t
  PROVE  IsFiniteSet(entered \cap On(t)) /\ IsFiniteSet(Entries \cap On(t))
<1>1. IsFiniteSet(Scans \cup Offline)
  BY ScanAssumption, FS_Union DEF ScanAssumption
<1> QED
  BY <1>1, FS_Subset DEF TypeOK, Entries

LEMMA CountUnchanged ==
  ASSUME CountMatchesEntries, UNCHANGED tables
  PROVE  CountMatchesEntries'
BY DEF CountMatchesEntries, tables, Entries, Present, On

LEMMA CommitCounts ==
  ASSUME TypeOK, QuietInv, SeenInv, CountMatchesEntries, NEW s \in Scans, Commit(s)
  PROVE  CountMatchesEntries'
<1> SUFFICES ASSUME NEW t \in Tickets
             PROVE  /\ Cardinality(entered' \cap On(t)) <= count'[t]
                    /\ count'[t] <= Cardinality(Entries' \cap On(t))
  BY DEF CountMatchesEntries, On
<1>1. s \notin Entries /\ s \notin entered /\ Entries' = Entries \cup {s}
      /\ entered' = entered \cup {s}
  BY CommitIsNew DEF Commit, Entries
<1>2. /\ Cardinality(entered \cap On(t)) <= count[t]
      /\ count[t] <= Cardinality(Entries \cap On(t))
      /\ count[t] \in Nat
      /\ Cardinality(entered \cap On(t)) \in Nat /\ Cardinality(Entries \cap On(t)) \in Nat
  BY EntriesFinite, FS_CardinalityType DEF CountMatchesEntries, TypeOK
<1>3. CASE t = TicketOf[s]
  <2>1. s \in On(t) /\ count'[t] = count[t] + 1
    BY <1>3 DEF On, Commit, TypeOK
  <2>2. /\ entered' \cap On(t) = (entered \cap On(t)) \cup {s}
        /\ Entries' \cap On(t) = (Entries \cap On(t)) \cup {s}
    BY <1>1, <2>1
  <2>3. /\ Cardinality(entered' \cap On(t)) = Cardinality(entered \cap On(t)) + 1
        /\ Cardinality(Entries' \cap On(t)) = Cardinality(Entries \cap On(t)) + 1
    BY <1>1, <2>2, EntriesFinite, FS_AddElement
  <2> QED
    BY <1>2, <2>1, <2>3
<1>4. CASE t # TicketOf[s]
  <2>1. s \notin On(t) /\ count'[t] = count[t]
    BY <1>4 DEF On, Commit, TypeOK
  <2>2. entered' \cap On(t) = entered \cap On(t) /\ Entries' \cap On(t) = Entries \cap On(t)
    BY <1>1, <2>1
  <2> QED
    BY <1>2, <2>1, <2>2
<1> QED
  BY <1>3, <1>4

LEMMA BatchCommitCounts ==
  ASSUME TypeOK, TypeOK', CountMatchesEntries, NEW b \in Batches, BatchCommit(b)
  PROVE  CountMatchesEntries'
<1> SUFFICES ASSUME NEW t \in Tickets
             PROVE  /\ Cardinality(entered' \cap On(t)) <= count'[t]
                    /\ count'[t] <= Cardinality(Entries' \cap On(t))
  BY DEF CountMatchesEntries, On
<1> DEFINE rows == IF batch[b].aborted THEN {} ELSE batch[b].pending
<1>1. /\ \A o \in Offline : recorded'[o] = IF o \in rows THEN recorded[o] + 1 ELSE recorded[o]
      /\ count'[t] = IF count[t] = 0 /\ \E o \in rows : TicketOf[o] = t THEN 1 ELSE count[t]
      /\ entered' = entered /\ rows \subseteq Offline
  BY DEF BatchCommit, TypeOK
<1> HIDE DEF rows
<1>2. /\ Cardinality(entered \cap On(t)) <= count[t]
      /\ count[t] <= Cardinality(Entries \cap On(t))
      /\ count[t] \in Nat
      /\ Cardinality(entered \cap On(t)) \in Nat /\ Cardinality(Entries \cap On(t)) \in Nat
  BY EntriesFinite, FS_CardinalityType DEF CountMatchesEntries, TypeOK
<1>3. Entries \cap On(t) \subseteq Entries' \cap On(t) /\ On(t)' = On(t)
  BY <1>1 DEF Entries, Present, TypeOK, On
<1>4. IsFiniteSet(Entries' \cap On(t))
  <2>1. IsFiniteSet(Scans \cup Offline)
    BY ScanAssumption, FS_Union DEF ScanAssumption
  <2>2. Entries' \cap On(t) \subseteq Scans \cup Offline
    BY DEF On
  <2> QED
    BY <2>1, <2>2, FS_Subset
<1>5. /\ Cardinality(Entries \cap On(t)) <= Cardinality(Entries' \cap On(t))
      /\ Cardinality(Entries' \cap On(t)) \in Nat
  BY <1>3, <1>4, FS_Subset, FS_CardinalityType
<1>6. CASE count[t] = 0 /\ \E o \in rows : TicketOf[o] = t
  <2>1. PICK o \in rows : TicketOf[o] = t
    BY <1>6
  <2>2. o \in Entries' \cap On(t)
    BY <1>1, <2>1 DEF Entries, Present, TypeOK, On
  <2>3. Cardinality(Entries' \cap On(t)) # 0
    BY <1>4, <2>2, FS_EmptySet
  <2> QED
    BY <1>1, <1>2, <1>5, <1>6, <2>3
<1>7. CASE ~(count[t] = 0 /\ \E o \in rows : TicketOf[o] = t)
  BY <1>1, <1>2, <1>5, <1>7
<1> QED
  BY <1>6, <1>7

LEMMA NextCount ==
  TypeOK /\ QuietInv /\ SeenInv /\ CountMatchesEntries /\ [Next]_vars => CountMatchesEntries'
<1> SUFFICES ASSUME TypeOK, QuietInv, SeenInv, CountMatchesEntries, [Next]_vars
             PROVE  CountMatchesEntries'
  OBVIOUS
<1>1. ASSUME NEW s \in Scans, Arrive(s) \/ Validate(s) \/ ScanFails(s)
      PROVE  CountMatchesEntries'
  BY <1>1, ScanStepFacts, CountUnchanged, CommitCounts
<1>2. ASSUME NEW b \in Batches, Upload(b) \/ Reconcile(b) \/ StatementFails(b) \/ BatchFails(b)
      PROVE  CountMatchesEntries'
  <2>1. BatchCommit(b) \/ UNCHANGED tables
    BY <1>2, BatchStepFacts
  <2> QED
    BY <2>1, CountUnchanged, BatchCommitCounts, NextTypeOK
<1>3. CASE \E e \in recent : Ages(e)
  BY <1>3 DEF Ages, CountMatchesEntries, Entries, Present, On
<1>4. CASE RedisForgets \/ Crash \/ UNCHANGED vars
  <2>1. UNCHANGED tables
    BY <1>4 DEF RedisForgets, Crash, vars, tables
  <2> QED
    BY <2>1, CountUnchanged
<1> QED
  BY <1>1, <1>2, <1>3, <1>4 DEF Next

\* The count of a ticket is at least its online entries and at most all its entries,
\* for any number of gates and uploads: no increment is lost
\* (QRValidator.ts:607-614, offline.ts:125-135).
THEOREM CountsMatch == Spec => []CountMatchesEntries
<1>1. Init => TypeOK /\ QuietInv /\ SeenInv /\ CountMatchesEntries
  <2>1. Init => CountMatchesEntries
    <3> SUFFICES ASSUME Init, NEW t \in Tickets
                 PROVE  /\ Cardinality(entered \cap On(t)) <= count[t]
                        /\ count[t] <= Cardinality(Entries \cap On(t))
      BY DEF CountMatchesEntries
    <3>1. entered \cap On(t) = {} /\ Entries \cap On(t) = {} /\ count[t] = 0
      BY DEF Init, Entries, Present
    <3> QED
      BY <3>1, FS_EmptySet
  <2> QED
    BY <2>1, InitTypeOK, InitSeen
<1>2. TypeOK /\ QuietInv /\ SeenInv /\ CountMatchesEntries /\ [Next]_vars
        => (TypeOK /\ QuietInv /\ SeenInv /\ CountMatchesEntries)'
  BY NextTypeOK, NextSeen, NextCount
<1> QED
  BY <1>1, <1>2, PTL DEF Spec
=============================================================================
