------------------------ MODULE JobExecutor_proofs ------------------------
(***************************************************************************)
(* Type correctness of the job runner and the exclusion of its cores, for  *)
(* any number of processes, executions and attempts and any times.         *)
(***************************************************************************)
EXTENDS JobExecutor, TLAPS

\* An attempt that has taken the lock and has not finished its release.
Holds(a) == a.phase \in {"core", "hung", "get", "del"}

\* A slot not in use has no age.
IdleInv ==
  \A i \in Instances, a \in Attempts : att[i][a].phase = "off" => att[i][a].age = 0

\* While no attempt has outlasted the breaker's timeout, an attempt that took
\* the lock has it, for at least the rest of its time.
LeaseInv ==
  ~overrun =>
    \A i \in Instances, a \in Attempts :
      Holds(att[i][a]) => lock.owner = i /\ lock.ttl + att[i][a].age >= LockTTL

\* ... no attempt is late ...
YoungInv ==
  ~overrun => \A i \in Instances, a \in Attempts : att[i][a].age < BreakerTimeout

\* ... and it is the only one.
AloneInv ==
  ~overrun =>
    \A i, j \in Instances, a, b \in Attempts :
      Holds(att[i][a]) /\ Holds(att[j][b]) => i = j /\ a = b

IInv == TypeOK /\ IdleInv /\ LeaseInv /\ YoungInv /\ AloneInv

AttType == [phase : Phases, of : Executions \cup {NoExecution}, age : 0 .. BreakerTimeout]
RunType == [pc : {"free", "ready", "trying", "settling"}, tries : 0 .. MaxTries - 1]
BreakerType == [state : {"CLOSED", "OPEN", "HALF_OPEN"}, failures : 0 .. FailureThreshold,
                successes : 0 .. SuccessThreshold, wait : 0 .. ResetTimeout]

----------------------------------------------------------------------------
LEMMA RecordTypes ==
  /\ NoAttempt \in AttType /\ NoRun \in RunType /\ Closed \in BreakerType
  /\ \A p \in Phases, x \in Executions \cup {NoExecution}, n \in 0 .. BreakerTimeout :
       Attempt(p, x, n) \in AttType
  /\ \A pc \in {"free", "ready", "trying", "settling"}, n \in 0 .. MaxTries - 1 :
       Run(pc, n) \in RunType
BY JobAssumption
DEF JobAssumption, NoAttempt, NoRun, Closed, Attempt, Run, AttType, RunType, BreakerType, Phases

LEMMA BreakerTypes ==
  ASSUME NEW k \in BreakerType
  PROVE  OnFailure(k) \in BreakerType /\ OnSuccess(k) \in BreakerType /\ Cooler(k) \in BreakerType
BY JobAssumption
DEF JobAssumption, OnFailure, OnSuccess, Cooler, Breaker, BreakerType

LEMMA OlderType ==
  ASSUME NEW k \in AttType
  PROVE  /\ Older(k) \in AttType
         /\ Older(k).phase = k.phase
         /\ Older(k).age = IF k.phase = "off" \/ k.age >= BreakerTimeout THEN k.age
                                                                        ELSE k.age + 1
BY JobAssumption DEF JobAssumption, Older, Attempt, AttType

LEMMA FailsType ==
  ASSUME TypeOK, NEW i \in Instances, NEW x \in Executions, Fails(i, x)
  PROVE  exec' \in [Instances -> [Executions -> RunType]] /\ running' \in [Instances -> BOOLEAN]
<1>1. exec[i][x] \in RunType
  BY DEF TypeOK, RunType
<1>2. 0 \in 0 .. MaxTries - 1
  BY JobAssumption DEF JobAssumption
<1>3. CASE exec[i][x].tries + 1 < MaxTries
  <2>1. exec[i][x].tries + 1 \in 0 .. MaxTries - 1
    BY <1>1, <1>3, JobAssumption DEF JobAssumption, RunType
  <2> DEFINE r == Run("ready", exec[i][x].tries + 1)
  <2>2. r \in RunType
    BY <2>1, RecordTypes
  <2>3. exec' = [exec EXCEPT ![i][x] = r] /\ running' = running
    BY <1>3 DEF Fails
  <2> HIDE DEF r
  <2> QED
    BY <2>2, <2>3 DEF TypeOK, RunType
<1>4. CASE ~(exec[i][x].tries + 1 < MaxTries)
  <2>1. Run("settling", 0) \in RunType
    BY <1>2, RecordTypes
  <2>2. /\ exec' = [exec EXCEPT ![i][x] = Run("settling", 0)]
        /\ running' = [running EXCEPT ![i] = FALSE]
    BY <1>4 DEF Fails
  <2> QED
    BY <2>1, <2>2 DEF TypeOK, RunType
<1> QED
  BY <1>3, <1>4

LEMMA SucceedsType ==
  ASSUME TypeOK, NEW i \in Instances, NEW x \in Executions, Succeeds(i, x)
  PROVE  exec' \in [Instances -> [Executions -> RunType]] /\ running' \in [Instances -> BOOLEAN]
<1>1. Run("settling", 0) \in RunType
  BY RecordTypes, JobAssumption DEF JobAssumption
<1> QED
  BY <1>1 DEF Succeeds, TypeOK, RunType

LEMMA OverType ==
  ASSUME TypeOK, NEW i \in Instances, NEW a \in Attempts, NEW ok \in BOOLEAN, Over(i, a, ok)
  PROVE  /\ exec' \in [Instances -> [Executions -> RunType]]
         /\ running' \in [Instances -> BOOLEAN]
         /\ att' \in [Instances -> [Attempts -> AttType]]
         /\ breaker' \in [Instances -> BreakerType]
         /\ overrun' \in BOOLEAN
<1>1. att' \in [Instances -> [Attempts -> AttType]] /\ overrun' \in BOOLEAN
  BY RecordTypes DEF Over, TypeOK, AttType, StillOver
<1>2. CASE att[i][a].of = NoExecution
  BY <1>1, <1>2 DEF Over, TypeOK, RunType, BreakerType
<1>3. CASE att[i][a].of # NoExecution
  <2>1. att[i][a].of \in Executions
    BY <1>3 DEF TypeOK
  <2>2. breaker[i] \in BreakerType
    BY DEF TypeOK, BreakerType
  <2>3. breaker' \in [Instances -> BreakerType]
    BY <1>3, <2>2, BreakerTypes, ZenonT(60) DEF Over, TypeOK, BreakerType
  <2>4. exec' \in [Instances -> [Executions -> RunType]] /\ running' \in [Instances -> BOOLEAN]
    BY <1>3, <2>1, FailsType, SucceedsType DEF Over
  <2> QED
    BY <1>1, <2>3, <2>4
<1> QED
  BY <1>2, <1>3

----------------------------------------------------------------------------
LEMMA InitTypeOK == Init => TypeOK
<1> SUFFICES ASSUME Init PROVE TypeOK
  OBVIOUS
<1>1. exec \in [Instances -> [Executions -> RunType]]
  BY RecordTypes DEF Init
<1>2. att \in [Instances -> [Attempts -> AttType]]
  BY RecordTypes DEF Init
<1>3. breaker \in [Instances -> BreakerType]
  BY RecordTypes DEF Init
<1>4. lock \in [owner : Instances \cup {NoOwner, Gone}, ttl : 0 .. LockTTL]
  BY JobAssumption DEF Init, Free, JobAssumption
<1>5. hung \in 0 .. MaxHung /\ exits \in 0 .. MaxExits
  BY JobAssumption DEF Init, JobAssumption
<1>6. /\ up \in [Instances -> {"off", "on", "stopping"}]
      /\ running \in [Instances -> BOOLEAN] /\ extending \in [Instances -> BOOLEAN]
      /\ overrun \in BOOLEAN
  BY DEF Init
<1> QED
  BY <1>1, <1>2, <1>3, <1>4, <1>5, <1>6 DEF TypeOK, RunType, AttType, BreakerType

LEMMA BeginType ==
  ASSUME TypeOK, NEW i \in Instances, NEW x \in Executions, NEW a \in Attempts, Begin(i, x, a)
  PROVE  TypeOK'
<1>1. exec[i][x] \in RunType /\ breaker[i] \in BreakerType
  BY DEF TypeOK, RunType, BreakerType
<1>2. Run("trying", exec[i][x].tries) \in RunType
  BY <1>1, RecordTypes DEF RunType
<1>3. Attempt("acquire", x, 0) \in AttType
  BY RecordTypes, JobAssumption DEF Phases, JobAssumption
<1>4. Breaker("HALF_OPEN", breaker[i].failures, breaker[i].successes, 0) \in BreakerType
  BY <1>1, JobAssumption DEF Breaker, BreakerType, JobAssumption
<1>5. breaker' \in [Instances -> BreakerType]
  BY <1>4 DEF Begin, TypeOK, BreakerType
<1>6. exec' \in [Instances -> [Executions -> RunType]]
  BY <1>2 DEF Begin, TypeOK, RunType
<1>7. att' \in [Instances -> [Attempts -> AttType]]
  BY <1>3 DEF Begin, TypeOK, AttType
<1> QED
  BY <1>5, <1>6, <1>7 DEF Begin, TypeOK, BreakerType, RunType, AttType

\* Every step that sets one attempt's phase keeps the attempts' type.
LEMMA PhaseType ==
  ASSUME TypeOK, NEW i \in Instances, NEW a \in Attempts, NEW p \in Phases,
         NEW x \in {att[i][a].of, NoExecution},
         att' = [att EXCEPT ![i][a] = Attempt(p, x, att[i][a].age)]
  PROVE  att' \in [Instances -> [Attempts -> AttType]]
<1>1. att[i][a] \in AttType
  BY DEF TypeOK, AttType
<1>2. Attempt(p, x, att[i][a].age) \in AttType
  BY <1>1 DEF AttType, Attempt
<1> QED
  BY <1>2 DEF TypeOK, AttType

LEMMA AttemptStepsType ==
  ASSUME TypeOK, NEW i \in Instances, NEW a \in Attempts, AttemptSteps(i, a)
  PROVE  TypeOK'
<1>1. ASSUME Acquire(i, a) PROVE TypeOK'
  <2>1. att' \in [Instances -> [Attempts -> AttType]]
    BY <1>1, PhaseType DEF Acquire, Phases
  <2>2. lock' \in [owner : Instances \cup {NoOwner, Gone}, ttl : 0 .. LockTTL]
    BY <1>1, JobAssumption DEF Acquire, Held, JobAssumption
  <2> QED
    BY <1>1, <2>1, <2>2 DEF Acquire, TypeOK, AttType
<1>2. ASSUME GiveUp(i, a) PROVE TypeOK'
  <2>1. Over(i, a, FALSE)
    BY <1>2 DEF GiveUp
  <2> QED
    BY <1>2, <2>1, OverType DEF GiveUp, TypeOK, RunType, AttType, BreakerType
<1>3. ASSUME ReleaseGet(i, a) PROVE TypeOK'
  <2>1. CASE lock.owner = i
    <3>1. att' \in [Instances -> [Attempts -> AttType]]
      BY <1>3, <2>1, PhaseType DEF ReleaseGet, Phases
    <3> QED
      BY <1>3, <2>1, <3>1 DEF ReleaseGet, TypeOK, AttType
  <2>2. CASE lock.owner # i
    <3>1. PICK ok \in BOOLEAN : Over(i, a, ok)
      BY <1>3, <2>2 DEF ReleaseGet
    <3> QED
      BY <1>3, <3>1, OverType DEF ReleaseGet, TypeOK, RunType, AttType, BreakerType
  <2> QED
    BY <2>1, <2>2
<1>4. ASSUME ReleaseDel(i, a) PROVE TypeOK'
  <2>1. PICK ok \in BOOLEAN : Over(i, a, ok)
    BY <1>4 DEF ReleaseDel
  <2>2. lock' \in [owner : Instances \cup {NoOwner, Gone}, ttl : 0 .. LockTTL]
    BY <1>4, JobAssumption DEF ReleaseDel, Free, JobAssumption
  <2> QED
    BY <1>4, <2>1, <2>2, OverType DEF ReleaseDel, TypeOK, RunType, AttType, BreakerType
<1>5. ASSUME Timeout(i, a) PROVE TypeOK'
  <2>1. att[i][a].phase \in Phases /\ att[i][a].of \in Executions
    BY <1>5 DEF Timeout, TimedOut, TypeOK
  <2>2. att' \in [Instances -> [Attempts -> AttType]]
    BY <1>5, <2>1, PhaseType DEF Timeout
  <2>3. breaker[i] \in BreakerType
    BY DEF TypeOK, BreakerType
  <2>4. breaker' \in [Instances -> BreakerType]
    BY <1>5, <2>3, BreakerTypes DEF Timeout, TypeOK, BreakerType
  <2>5. exec' \in [Instances -> [Executions -> RunType]] /\ running' \in [Instances -> BOOLEAN]
    BY <1>5, <2>1, FailsType DEF Timeout
  <2> QED
    BY <1>5, <2>2, <2>4, <2>5 DEF Timeout, TypeOK, RunType, AttType, BreakerType
<1> QED
  BY <1>1, <1>2, <1>3, <1>4, <1>5 DEF AttemptSteps

LEMMA NextTypeOK == TypeOK /\ [Next]_vars => TypeOK'
<1> SUFFICES ASSUME TypeOK, [Next]_vars PROVE TypeOK'
  OBVIOUS
<1>0. /\ Run("ready", 0) \in RunType /\ NoRun \in RunType
      /\ NoAttempt \in AttType /\ Closed \in BreakerType
  BY RecordTypes, JobAssumption DEF JobAssumption
<1>1. ASSUME NEW i \in Instances, Start(i) PROVE TypeOK'
  BY <1>0, <1>1 DEF Start, TypeOK, RunType
<1>2. ASSUME NEW i \in Instances, Fire(i) PROVE TypeOK'
  BY <1>0, <1>2 DEF Fire, TypeOK, RunType
<1>3. ASSUME NEW i \in Instances, Extend(i) PROVE TypeOK'
  BY <1>3, JobAssumption DEF Extend, Held, TypeOK, JobAssumption
<1>4. ASSUME NEW i \in Instances, Stop(i) PROVE TypeOK'
  BY <1>4, JobAssumption DEF Stop, TypeOK, JobAssumption
<1>5. ASSUME NEW i \in Instances, Exit(i) PROVE TypeOK'
  <2>1. exec' \in [Instances -> [Executions -> RunType]]
    BY <1>0, <1>5 DEF Exit, TypeOK, RunType
  <2>2. att' \in [Instances -> [Attempts -> AttType]]
    BY <1>0, <1>5 DEF Exit, TypeOK, AttType
  <2>3. breaker' \in [Instances -> BreakerType]
    BY <1>0, <1>5 DEF Exit, TypeOK, BreakerType
  <2>4. lock' \in [owner : Instances \cup {NoOwner, Gone}, ttl : 0 .. LockTTL]
    BY <1>5 DEF Exit, TypeOK, Held
  <2>5. exits' \in 0 .. MaxExits /\ hung' \in 0 .. MaxHung
    BY <1>5, JobAssumption DEF Exit, TypeOK, JobAssumption
  <2>6. /\ up' \in [Instances -> {"off", "on", "stopping"}]
        /\ running' \in [Instances -> BOOLEAN] /\ extending' \in [Instances -> BOOLEAN]
        /\ overrun' \in BOOLEAN
    BY <1>5 DEF Exit, TypeOK, StillOver
  <2> QED
    BY <2>1, <2>2, <2>3, <2>4, <2>5, <2>6 DEF TypeOK, RunType, AttType, BreakerType
<1>6. ASSUME NEW i \in Instances, NEW x \in Executions, ExecutionSteps(i, x) PROVE TypeOK'
  <2>1. ASSUME Refused(i, x) PROVE TypeOK'
    <3>1. exec' \in [Instances -> [Executions -> RunType]] /\ running' \in [Instances -> BOOLEAN]
      BY <2>1, FailsType DEF Refused
    <3> QED
      BY <2>1, <3>1 DEF Refused, TypeOK, RunType
  <2>2. ASSUME Settle(i, x) PROVE TypeOK'
    BY <1>0, <2>2 DEF Settle, TypeOK, RunType
  <2> QED
    BY <1>6, <2>1, <2>2, BeginType DEF ExecutionSteps
<1>7. ASSUME NEW i \in Instances, NEW a \in Attempts, CoreEnds(i, a) PROVE TypeOK'
  <2>1. att' \in [Instances -> [Attempts -> AttType]]
    BY <1>7, PhaseType DEF CoreEnds, Phases
  <2> QED
    BY <1>7, <2>1 DEF CoreEnds, TypeOK, AttType
<1>8. ASSUME NEW i \in Instances, NEW a \in Attempts, CoreHangs(i, a) PROVE TypeOK'
  <2>1. att' \in [Instances -> [Attempts -> AttType]]
    BY <1>8, PhaseType DEF CoreHangs, Phases
  <2>2. hung' \in 0 .. MaxHung
    BY <1>8, JobAssumption DEF CoreHangs, TypeOK, JobAssumption
  <2> QED
    BY <1>8, <2>1, <2>2 DEF CoreHangs, TypeOK, AttType
<1>9. ASSUME Tick PROVE TypeOK'
  <2>1. \A i \in Instances, a \in Attempts : att[i][a] \in AttType
    BY DEF TypeOK, AttType
  <2>2. att' \in [Instances -> [Attempts -> AttType]]
    BY <1>9, <2>1, OlderType DEF Tick
  <2>3. \A i \in Instances : breaker[i] \in BreakerType
    BY DEF TypeOK, BreakerType
  <2>4. breaker' \in [Instances -> BreakerType]
    BY <1>9, <2>3, BreakerTypes DEF Tick
  <2>5. lock' \in [owner : Instances \cup {NoOwner, Gone}, ttl : 0 .. LockTTL]
    BY <1>9, JobAssumption DEF Tick, TypeOK, Free, Held, JobAssumption
  <2>6. overrun' \in BOOLEAN
    BY <1>9 DEF Tick, TypeOK
  <2> QED
    BY <1>9, <2>2, <2>4, <2>5, <2>6 DEF Tick, TypeOK, AttType, BreakerType
<1>10. CASE UNCHANGED vars
  BY <1>10 DEF vars, TypeOK
<1> QED
  BY <1>1, <1>2, <1>3, <1>4, <1>5, <1>6, <1>7, <1>8, <1>9, <1>10, AttemptStepsType DEF Next

\* Every variable of the job runner keeps its type: job-executor.ts,
\* distributed-lock.ts, retry.ts and circuit-breaker.ts.
THEOREM TypeCorrect == Spec => []TypeOK
BY InitTypeOK, NextTypeOK, PTL DEF Spec

----------------------------------------------------------------------------
LEMMA InitSafe == Init => IdleInv /\ LeaseInv /\ YoungInv /\ AloneInv
BY JobAssumption DEF Init, NoAttempt, Holds, IdleInv, LeaseInv, YoungInv, AloneInv, JobAssumption

\* What a step leaves of the four invariants when it touches neither the
\* attempts nor the lock.
LEMMA SafeUnchanged ==
  ASSUME IInv, UNCHANGED <<att, lock, overrun>>
  PROVE  (IdleInv /\ LeaseInv /\ YoungInv /\ AloneInv)'
BY DEF IInv, IdleInv, LeaseInv, YoungInv, AloneInv

\* An attempt that is over takes its claim to the lock with it, and overrun is
\* taken back only when nothing is left.
LEMMA OverSafe ==
  ASSUME IInv, NEW i \in Instances, NEW a \in Attempts, NEW ok \in BOOLEAN, Over(i, a, ok),
         \/ lock' = lock
         \/ Holds(att[i][a])
  PROVE  (IdleInv /\ LeaseInv /\ YoungInv /\ AloneInv)'
<1>1. /\ att'[i][a] = NoAttempt
      /\ \A j \in Instances, b \in Attempts : j # i \/ b # a => att'[j][b] = att[j][b]
  BY DEF Over, IInv, TypeOK
<1>2. ~Holds(NoAttempt) /\ NoAttempt.age = 0 /\ NoAttempt.phase = "off" /\ 0 < BreakerTimeout
  BY JobAssumption DEF Holds, NoAttempt, JobAssumption
<1>3. ~overrun' => \/ ~overrun
                   \/ \A j \in Instances, b \in Attempts : att'[j][b].phase = "off"
  BY DEF Over, StillOver
<1>4. IdleInv'
  BY <1>1, <1>2 DEF IInv, IdleInv
<1>5. YoungInv'
  BY <1>1, <1>2, <1>3, <1>4 DEF IInv, YoungInv, IdleInv
<1>6. AloneInv'
  BY <1>1, <1>2, <1>3 DEF IInv, AloneInv, Holds
<1>7. LeaseInv'
  <2> SUFFICES ASSUME ~overrun', NEW j \in Instances, NEW b \in Attempts, Holds(att'[j][b])
               PROVE  lock'.owner = j /\ lock'.ttl + att'[j][b].age >= LockTTL
    BY DEF LeaseInv
  <2>1. ~overrun /\ (j # i \/ b # a) /\ att'[j][b] = att[j][b]
    BY <1>1, <1>2, <1>3 DEF Holds
  <2>2. lock' = lock
    BY <2>1 DEF IInv, AloneInv
  <2> QED
    BY <2>1, <2>2 DEF IInv, LeaseInv
<1> QED
  BY <1>4, <1>5, <1>6, <1>7

\* A step that changes one attempt's phase keeps the invariants if the new
\* phase holds the lock only where the old one did.
LEMMA PhaseSafe ==
  ASSUME IInv, UNCHANGED <<lock, overrun>>, NEW i \in Instances, NEW a \in Attempts,
         NEW p, NEW x, att' = [att EXCEPT ![i][a] = Attempt(p, x, att[i][a].age)],
         p # "off", Holds(Attempt(p, x, att[i][a].age)) => Holds(att[i][a])
  PROVE  (IdleInv /\ LeaseInv /\ YoungInv /\ AloneInv)'
<1>1. /\ att'[i][a] = Attempt(p, x, att[i][a].age)
      /\ \A j \in Instances, b \in Attempts : j # i \/ b # a => att'[j][b] = att[j][b]
  BY DEF IInv, TypeOK
<1>2. att'[i][a].phase = p /\ att'[i][a].age = att[i][a].age
  BY <1>1 DEF Attempt
<1>3. \A j \in Instances, b \in Attempts :
        /\ att'[j][b].age = att[j][b].age
        /\ Holds(att'[j][b]) => Holds(att[j][b])
        /\ att'[j][b].phase = "off" => att[j][b].phase = "off"
  BY <1>1, <1>2
<1> QED
  BY <1>3 DEF IInv, IdleInv, LeaseInv, YoungInv, AloneInv

LEMMA BeginSafe ==
  ASSUME IInv, NEW i \in Instances, NEW x \in Executions, NEW a \in Attempts, Begin(i, x, a)
  PROVE  (IdleInv /\ LeaseInv /\ YoungInv /\ AloneInv)'
<1>1. /\ att'[i][a] = Attempt("acquire", x, 0)
      /\ \A j \in Instances, b \in Attempts : j # i \/ b # a => att'[j][b] = att[j][b]
  BY DEF Begin, IInv, TypeOK
<1>2. ~Holds(att'[i][a]) /\ att'[i][a].age = 0 /\ 0 < BreakerTimeout
  BY <1>1, JobAssumption DEF Holds, Attempt, JobAssumption
<1>3. lock' = lock /\ overrun' = overrun
  BY DEF Begin
<1>4. IdleInv' /\ YoungInv'
  BY <1>1, <1>2, <1>3 DEF IInv, IdleInv, YoungInv
<1>5. \A j \in Instances, b \in Attempts : Holds(att'[j][b]) => att'[j][b] = att[j][b]
  BY <1>1, <1>2
<1>6. LeaseInv' /\ AloneInv'
  BY <1>3, <1>5 DEF IInv, LeaseInv, AloneInv
<1> QED
  BY <1>4, <1>6

\* The lock is absent, so nobody who is on time holds it: whoever sets it is
\* alone, and has it for the whole TTL.
LEMMA AcquireSafe ==
  ASSUME IInv, NEW i \in Instances, NEW a \in Attempts, Acquire(i, a)
  PROVE  (IdleInv /\ LeaseInv /\ YoungInv /\ AloneInv)'
<1>1. /\ att'[i][a] = Attempt("core", att[i][a].of, att[i][a].age)
      /\ \A j \in Instances, b \in Attempts : j # i \/ b # a => att'[j][b] = att[j][b]
  BY DEF Acquire, IInv, TypeOK
<1>2. att'[i][a].phase = "core" /\ att'[i][a].age = att[i][a].age /\ att[i][a].age \in Nat
  BY <1>1 DEF Attempt, IInv, TypeOK
<1>3. overrun' = overrun /\ lock'.owner = i /\ lock'.ttl = LockTTL /\ LockTTL \in Nat
  BY JobAssumption DEF Acquire, Held, JobAssumption
<1>4. ~overrun => \A j \in Instances, b \in Attempts : ~Holds(att[j][b])
  BY JobAssumption DEF Acquire, IInv, LeaseInv, JobAssumption
<1>5. IdleInv' /\ YoungInv'
  BY <1>1, <1>2, <1>3 DEF IInv, IdleInv, YoungInv
<1>6. ~overrun' => \A j \in Instances, b \in Attempts : Holds(att'[j][b]) => j = i /\ b = a
  BY <1>1, <1>3, <1>4
<1>7. AloneInv' /\ LeaseInv'
  BY <1>2, <1>3, <1>6 DEF AloneInv, LeaseInv
<1> QED
  BY <1>5, <1>7

LEMMA AttemptStepsSafe ==
  ASSUME IInv, NEW i \in Instances, NEW a \in Attempts, AttemptSteps(i, a)
  PROVE  (IdleInv /\ LeaseInv /\ YoungInv /\ AloneInv)'
<1>1. ASSUME GiveUp(i, a) PROVE (IdleInv /\ LeaseInv /\ YoungInv /\ AloneInv)'
  <2>1. Over(i, a, FALSE) /\ lock' = lock
    BY <1>1 DEF GiveUp
  <2> QED
    BY <2>1, OverSafe
<1>2. ASSUME ReleaseGet(i, a) PROVE (IdleInv /\ LeaseInv /\ YoungInv /\ AloneInv)'
  <2>1. CASE lock.owner = i
    <3>1. /\ UNCHANGED <<lock, overrun>> /\ Holds(att[i][a])
          /\ att' = [att EXCEPT ![i][a] = Attempt("del", att[i][a].of, att[i][a].age)]
      BY <1>2, <2>1 DEF ReleaseGet, Holds
    <3> QED
      BY <3>1, PhaseSafe
  <2>2. CASE lock.owner # i
    <3>1. PICK ok \in BOOLEAN : Over(i, a, ok)
      BY <1>2, <2>2 DEF ReleaseGet
    <3>2. lock' = lock
      BY <1>2 DEF ReleaseGet
    <3> QED
      BY <3>1, <3>2, OverSafe
  <2> QED
    BY <2>1, <2>2
<1>3. ASSUME ReleaseDel(i, a) PROVE (IdleInv /\ LeaseInv /\ YoungInv /\ AloneInv)'
  <2>1. PICK ok \in BOOLEAN : Over(i, a, ok)
    BY <1>3 DEF ReleaseDel
  <2>2. Holds(att[i][a])
    BY <1>3 DEF ReleaseDel, Holds
  <2> QED
    BY <2>1, <2>2, OverSafe
<1>4. ASSUME Timeout(i, a) PROVE (IdleInv /\ LeaseInv /\ YoungInv /\ AloneInv)'
  <2>1. att[i][a].phase # "off"
    BY <1>4, JobAssumption DEF Timeout, TimedOut, IInv, IdleInv, JobAssumption
  <2>2. /\ UNCHANGED <<lock, overrun>>
        /\ att' = [att EXCEPT ![i][a] = Attempt(att[i][a].phase, NoExecution, att[i][a].age)]
    BY <1>4 DEF Timeout
  <2>3. Holds(Attempt(att[i][a].phase, NoExecution, att[i][a].age)) => Holds(att[i][a])
    BY DEF Holds, Attempt
  <2> QED
    BY <2>1, <2>2, <2>3, PhaseSafe
<1> QED
  BY <1>1, <1>2, <1>3, <1>4, AcquireSafe DEF AttemptSteps

\* Time: the lock loses a tick and every attempt gains one, so that what the
\* lock has left covers what the timeout leaves.
LEMMA TickSafe ==
  ASSUME IInv, Tick
  PROVE  (IdleInv /\ LeaseInv /\ YoungInv /\ AloneInv)'
<1>1. \A i \in Instances, a \in Attempts :
        /\ att[i][a] \in AttType /\ att'[i][a] = Older(att[i][a])
        /\ att'[i][a].phase = att[i][a].phase
        /\ att'[i][a].age = IF att[i][a].phase = "off" \/ att[i][a].age >= BreakerTimeout
                            THEN att[i][a].age ELSE att[i][a].age + 1
  <2>1. \A i \in Instances, a \in Attempts : att[i][a] \in AttType
    BY DEF IInv, TypeOK, AttType
  <2>2. \A i \in Instances, a \in Attempts : att'[i][a] = Older(att[i][a])
    BY DEF Tick
  <2> QED
    BY <2>1, <2>2, OlderType
<1>2. \A i \in Instances, a \in Attempts : Holds(att'[i][a]) => Holds(att[i][a])
  BY <1>1 DEF Holds
<1>3. IdleInv'
  BY <1>1 DEF IInv, IdleInv
<1>4. YoungInv'
  <2> SUFFICES ASSUME ~overrun', NEW i \in Instances, NEW a \in Attempts
               PROVE  att'[i][a].age < BreakerTimeout
    BY DEF YoungInv
  <2>1. ~(att'[i][a].age >= BreakerTimeout) /\ att'[i][a] \in AttType
    BY <1>1, OlderType DEF Tick
  <2> QED
    BY <2>1, JobAssumption DEF AttType, JobAssumption
<1>5. AloneInv'
  BY <1>2 DEF Tick, IInv, AloneInv
<1>6. LeaseInv'
  <2> SUFFICES ASSUME ~overrun', NEW i \in Instances, NEW a \in Attempts, Holds(att'[i][a])
               PROVE  lock'.owner = i /\ lock'.ttl + att'[i][a].age >= LockTTL
    BY DEF LeaseInv
  <2>1. ~overrun /\ Holds(att[i][a]) /\ att[i][a].age \in Nat
    BY <1>2 DEF Tick, IInv, TypeOK
  <2>2. att'[i][a].age < BreakerTimeout /\ att[i][a].age < BreakerTimeout
    BY <1>4, <2>1 DEF YoungInv, IInv
  <2>3. lock.owner = i /\ lock.ttl + att[i][a].age >= LockTTL
    BY <2>1 DEF IInv, LeaseInv
  <2>4. att'[i][a].age = att[i][a].age + 1
    BY <1>1, <2>1, <2>2, JobAssumption DEF Holds, JobAssumption
  <2>5. lock.ttl \in Nat /\ LockTTL \in Nat /\ BreakerTimeout \in Nat
        /\ BreakerTimeout <= LockTTL
    BY JobAssumption DEF IInv, TypeOK, JobAssumption
  <2>6. ~(lock.ttl <= 1)
    BY <2>1, <2>2, <2>3, <2>4, <2>5
  <2>7. lock'.owner = i /\ lock'.ttl = lock.ttl - 1
    BY <2>3, <2>6 DEF Tick, Held
  <2> QED
    BY <2>1, <2>3, <2>4, <2>5, <2>7
<1> QED
  BY <1>3, <1>4, <1>5, <1>6

LEMMA ExitSafe ==
  ASSUME IInv, NEW i \in Instances, Exit(i)
  PROVE  (IdleInv /\ LeaseInv /\ YoungInv /\ AloneInv)'
<1>1. /\ \A a \in Attempts : att'[i][a] = NoAttempt
      /\ \A j \in Instances, b \in Attempts : j # i => att'[j][b] = att[j][b]
  BY DEF Exit, IInv, TypeOK
<1>2. ~Holds(NoAttempt) /\ NoAttempt.age = 0 /\ NoAttempt.phase = "off" /\ 0 < BreakerTimeout
  BY JobAssumption DEF Holds, NoAttempt, JobAssumption
<1>3. ~overrun' => \/ ~overrun
                   \/ \A j \in Instances, b \in Attempts : att'[j][b].phase = "off"
  BY DEF Exit, StillOver
<1>4. IdleInv'
  BY <1>1, <1>2 DEF IInv, IdleInv
<1>5. YoungInv'
  BY <1>1, <1>2, <1>3, <1>4 DEF IInv, YoungInv, IdleInv
<1>6. AloneInv'
  BY <1>1, <1>2, <1>3 DEF IInv, AloneInv, Holds
<1>7. LeaseInv'
  <2> SUFFICES ASSUME ~overrun', NEW j \in Instances, NEW b \in Attempts, Holds(att'[j][b])
               PROVE  lock'.owner = j /\ lock'.ttl + att'[j][b].age >= LockTTL
    BY DEF LeaseInv
  <2>1. ~overrun /\ j # i /\ att'[j][b] = att[j][b]
    BY <1>1, <1>2, <1>3 DEF Holds
  <2>2. lock.owner = j /\ lock.ttl + att[j][b].age >= LockTTL
    BY <2>1 DEF IInv, LeaseInv
  <2>3. lock' = lock
    BY <2>1, <2>2 DEF Exit
  <2> QED
    BY <2>1, <2>2, <2>3
<1> QED
  BY <1>4, <1>5, <1>6, <1>7

LEMMA ExtendSafe ==
  ASSUME IInv, NEW i \in Instances, Extend(i)
  PROVE  (IdleInv /\ LeaseInv /\ YoungInv /\ AloneInv)'
<1>1. lock.owner = i /\ lock'.owner = i /\ lock'.ttl = LockTTL /\ UNCHANGED <<att, overrun>>
  BY DEF Extend, Extends, Held
<1>2. \A j \in Instances, b \in Attempts : att[j][b].age \in Nat
  BY DEF IInv, TypeOK
<1>3. LockTTL \in Nat
  BY JobAssumption DEF JobAssumption
<1> QED
  BY <1>1, <1>2, <1>3 DEF IInv, IdleInv, LeaseInv, YoungInv, AloneInv

LEMMA NextSafe == IInv /\ [Next]_vars => IInv'
<1> SUFFICES ASSUME IInv, [Next]_vars PROVE IInv'
  OBVIOUS
<1>0. TypeOK'
  BY NextTypeOK DEF IInv
<1>1. ASSUME NEW i \in Instances,
             \/ Start(i) \/ Fire(i) \/ Stop(i)
             \/ \E x \in Executions : Refused(i, x) \/ Settle(i, x)
      PROVE  (IdleInv /\ LeaseInv /\ YoungInv /\ AloneInv)'
  <2>1. UNCHANGED <<att, lock, overrun>>
    BY <1>1 DEF Start, Fire, Stop, Refused, Settle
  <2> QED
    BY <2>1, SafeUnchanged
<1>2. ASSUME NEW i \in Instances, NEW a \in Attempts, CoreEnds(i, a) \/ CoreHangs(i, a)
      PROVE  (IdleInv /\ LeaseInv /\ YoungInv /\ AloneInv)'
  <2>1. UNCHANGED <<lock, overrun>> /\ Holds(att[i][a])
    BY <1>2 DEF CoreEnds, CoreHangs, Holds
  <2>2. PICK p \in {"get", "hung"} :
          att' = [att EXCEPT ![i][a] = Attempt(p, att[i][a].of, att[i][a].age)]
    BY <1>2 DEF CoreEnds, CoreHangs
  <2> QED
    BY <2>1, <2>2, PhaseSafe
<1>3. ASSUME NEW i \in Instances,
             \/ Start(i) \/ Fire(i) \/ Extend(i) \/ Stop(i) \/ Exit(i)
             \/ \E x \in Executions : ExecutionSteps(i, x)
             \/ \E a \in Attempts : AttemptSteps(i, a) \/ CoreEnds(i, a) \/ CoreHangs(i, a)
      PROVE  (IdleInv /\ LeaseInv /\ YoungInv /\ AloneInv)'
  <2>1. CASE \E x \in Executions : ExecutionSteps(i, x)
    <3>1. PICK x \in Executions : ExecutionSteps(i, x)
      BY <2>1
    <3>2. CASE Refused(i, x) \/ Settle(i, x)
      BY <3>2, <1>1
    <3>3. CASE \E a \in Attempts : Begin(i, x, a)
      BY <3>3, BeginSafe
    <3> QED
      BY <3>1, <3>2, <3>3 DEF ExecutionSteps
  <2>2. CASE \E a \in Attempts : AttemptSteps(i, a) \/ CoreEnds(i, a) \/ CoreHangs(i, a)
    BY <2>2, <1>2, AttemptStepsSafe
  <2>3. CASE Start(i) \/ Fire(i) \/ Stop(i)
    BY <2>3, <1>1
  <2> QED
    BY <1>3, <2>1, <2>2, <2>3, ExtendSafe, ExitSafe
<1>4. CASE UNCHANGED vars
  <2>1. UNCHANGED <<att, lock, overrun>>
    BY <1>4 DEF vars
  <2> QED
    BY <2>1, <1>0, SafeUnchanged DEF IInv
<1>5. CASE Tick
  BY <1>0, <1>5, TickSafe DEF IInv
<1> QED
  BY <1>0, <1>3, <1>4, <1>5 DEF IInv, Next

LEMMA IInvExcludes == IInv => CoresExclude
<1> SUFFICES ASSUME IInv, NEW p \in Cores, NEW q \in Cores, ~overrun PROVE p = q
  BY DEF CoresExclude, IInv, TypeOK
<1>1. /\ p \in Instances \X Attempts /\ q \in Instances \X Attempts
      /\ Holds(att[p[1]][p[2]]) /\ Holds(att[q[1]][q[2]])
  BY DEF Cores, InCore, Holds
<1>2. p[1] = q[1] /\ p[2] = q[2]
  BY <1>1 DEF IInv, AloneInv
<1> QED
  BY <1>1, <1>2

\* No two cores of the job run at one time while every attempt ends within the
\* breaker's timeout, however many processes there are, as long as the lock's
\* TTL is no shorter than that timeout: distributed-lock.ts's promise as
\* job-executor.ts can keep it.
THEOREM CoresAreExclusive == Spec => []CoresExclude
<1>1. Init => IInv
  BY InitTypeOK, InitSafe DEF IInv
<1> QED
  BY <1>1, NextSafe, IInvExcludes, PTL DEF Spec
=============================================================================
