---------------------------- MODULE JobExecutor ----------------------------
(***************************************************************************)
(* The runner of order-service's background jobs, job-executor.ts, in      *)
(* several processes that share one Redis lock for the job.                *)
(*                                                                         *)
(* A process fires the job on an interval.  An EXECUTION is one run of     *)
(* executeWithMonitoring: it makes up to MaxTries ATTEMPTS (utils/retry.ts)*)
(* and each attempt is withLock(executeCore) (utils/distributed-lock.ts)   *)
(* under the process's circuit breaker (utils/circuit-breaker.ts).  The    *)
(* breaker's timeout rejects the attempt but cannot end the work: the      *)
(* attempt goes on as an ORPHAN, holds or lets go of the lock and ends on  *)
(* its own.  All attempts of a process use one lock value, INSTANCE_ID.    *)
(*                                                                         *)
(* Time is counted in ticks of the interval (60 s for ExpirationJob, as is *)
(* the period of the lock extension).                                      *)
(***************************************************************************)
EXTENDS Integers, FiniteSets

CONSTANTS Instances,        \* the processes that run the job
          Executions,       \* bound: executions of a process at one time
          Attempts,         \* bound: attempts of a process at one time, orphans included
          LockTTL,          \* lockTTLMs, in ticks
          BreakerTimeout,   \* circuitBreakerOptions.timeoutMs, in ticks
          FailureThreshold, \* circuitBreakerOptions.failureThreshold
          SuccessThreshold, \* successThreshold, 2 in every job
          ResetTimeout,     \* circuitBreakerOptions.resetTimeoutMs, in ticks
          MaxTries,         \* retryOptions.maxAttempts
          MaxBusy,          \* bound: attempts at one time, over all processes
          MaxRuns,          \* bound: executions at one time, over all processes
          MaxHung,          \* bound: cores that never end
          MaxExits,         \* bound: crashes and shutdowns, over all processes
          NoExecution,      \* the execution of an orphan
          NoOwner,          \* the lock's value when the key is absent
          Gone              \* the lock's value when its process has exited

ASSUME JobAssumption ==
  /\ IsFiniteSet(Instances) /\ IsFiniteSet(Attempts)
  /\ NoOwner \notin Instances /\ Gone \notin Instances /\ NoOwner # Gone
  /\ NoExecution \notin Executions
  /\ Executions \subseteq Nat /\ Attempts \subseteq Nat
  /\ {LockTTL, BreakerTimeout, FailureThreshold, SuccessThreshold,
      ResetTimeout, MaxTries} \subseteq Nat \ {0}
  /\ {MaxBusy, MaxRuns, MaxHung, MaxExits} \subseteq Nat
  /\ BreakerTimeout <= LockTTL    \* 120 s and 120 s; 300 s and 300 s by default

VARIABLES up,         \* the process: off, on, or stopping after stop()
          running,    \* this.status = RUNNING; the other statuses are only reported
          exec,       \* the executions of each process
          att,        \* the attempts of each process, live ones and orphans
          extending,  \* lockExtensionInterval is set
          breaker,    \* the process's CircuitBreaker
          lock,       \* the Redis key job:NAME
          hung, exits,
          overrun     \* some attempt outlasted BreakerTimeout since all was last quiet

vars == <<up, running, exec, att, extending, breaker, lock, hung, exits, overrun>>

\* ready: before its first attempt (persistState) or in the delay of the retry
NoRun == [pc |-> "free", tries |-> 0]
Run(pc, n) == [pc |-> pc, tries |-> n]

\* The phases of withLock: SET NX, executeCore, and the GET and the DEL of
\* the release.  A hung core is one that never ends.
Phases == {"off", "acquire", "core", "hung", "get", "del"}
NoAttempt == [phase |-> "off", of |-> NoExecution, age |-> 0]
Attempt(phase, x, n) == [phase |-> phase, of |-> x, age |-> n]

Closed == [state |-> "CLOSED", failures |-> 0, successes |-> 0, wait |-> 0]
Breaker(s, f, n, w) == [state |-> s, failures |-> f, successes |-> n, wait |-> w]
Free == [owner |-> NoOwner, ttl |-> 0]
Held(i, n) == [owner |-> i, ttl |-> n]

InCore(a) == a.phase \in {"core", "hung"}
\* Mutant of IsOpen: nextAttempt is not looked at.
IsOpenForEver(b) == b.state = "OPEN"
IsOpen(b) == b.state = "OPEN" /\ b.wait > 0

----------------------------------------------------------------------------
(* The circuit breaker's counters.                                          *)

\* failureCount is capped at the threshold: only its reaching it is tested
OnFailure(b) ==
  LET f == IF b.failures < FailureThreshold THEN b.failures + 1 ELSE b.failures
  IN  IF f >= FailureThreshold THEN Breaker("OPEN", f, 0, ResetTimeout)
                               ELSE Breaker(b.state, f, 0, b.wait)

OnSuccess(b) ==
  IF b.state # "HALF_OPEN" THEN Breaker(b.state, 0, b.successes, b.wait)
  ELSE IF b.successes + 1 >= SuccessThreshold THEN Breaker("CLOSED", 0, 0, b.wait)
       ELSE Breaker("HALF_OPEN", 0, b.successes + 1, b.wait)

----------------------------------------------------------------------------
Init ==
  /\ up = [i \in Instances |-> "off"]
  /\ running = [i \in Instances |-> FALSE]
  /\ exec = [i \in Instances |-> [x \in Executions |-> NoRun]]
  /\ att = [i \in Instances |-> [a \in Attempts |-> NoAttempt]]
  /\ extending = [i \in Instances |-> FALSE]
  /\ breaker = [i \in Instances |-> Closed]
  /\ lock = Free
  /\ hung = 0 /\ exits = 0
  /\ overrun = FALSE

Busy == {p \in Instances \X Attempts : att[p[1]][p[2]].phase # "off"}
Runs == {p \in Instances \X Executions : exec[p[1]][p[2]].pc # "free"}

\* The slot a new execution or attempt takes: the first that is not in use.
FreeRun(i, x) ==
  /\ Cardinality(Runs) < MaxRuns
  /\ exec[i][x].pc = "free"
  /\ \A y \in Executions : y < x => exec[i][y].pc # "free"

FreeAttempt(i, a) ==
  /\ Cardinality(Busy) < MaxBusy
  /\ att[i][a].phase = "off"
  /\ \A b \in Attempts : b < a => att[i][b].phase # "off"

\* start(): the first execution is begun and sets RUNNING before its first
\* await; start() itself then sets IDLE, so that execution runs as IDLE.
Start(i) ==
  /\ up[i] = "off"
  /\ \E x \in Executions :
        /\ FreeRun(i, x)
        /\ exec' = [exec EXCEPT ![i][x] = Run("ready", 0)]
  /\ up' = [up EXCEPT ![i] = "on"]
  /\ running' = [running EXCEPT ![i] = FALSE]
  /\ UNCHANGED <<att, extending, breaker, lock, hung, exits, overrun>>

\* The interval calls executeWithMonitoring, which is skipped when the job
\* is already running or the breaker is open.  The interval is any: a firing
\* may come at any time.
Skips(i) == running[i] \/ IsOpen(breaker[i])

Fire(i) ==
  /\ up[i] = "on" /\ ~Skips(i)
  /\ \E x \in Executions :
        /\ FreeRun(i, x)
        /\ exec' = [exec EXCEPT ![i][x] = Run("ready", 0)]
  /\ running' = [running EXCEPT ![i] = TRUE]
  /\ UNCHANGED <<up, att, extending, breaker, lock, hung, exits, overrun>>

\* Mutant of Fails: one more try than maxAttempts.
FailsOnceMore(i, x) ==
  IF exec[i][x].tries + 1 <= MaxTries
  THEN /\ exec' = [exec EXCEPT ![i][x] = Run("ready", exec[i][x].tries + 1)]
       /\ UNCHANGED running
  ELSE /\ exec' = [exec EXCEPT ![i][x] = Run("settling", 0)]
       /\ running' = [running EXCEPT ![i] = FALSE]

\* What an execution does when its attempt fails: the retry's delay, or the
\* catch of executeWithMonitoring after the last try.
Fails(i, x) ==
  IF exec[i][x].tries + 1 < MaxTries
  THEN /\ exec' = [exec EXCEPT ![i][x] = Run("ready", exec[i][x].tries + 1)]
       /\ UNCHANGED running
  ELSE /\ exec' = [exec EXCEPT ![i][x] = Run("settling", 0)]
       /\ running' = [running EXCEPT ![i] = FALSE]

Succeeds(i, x) ==
  /\ exec' = [exec EXCEPT ![i][x] = Run("settling", 0)]
  /\ running' = [running EXCEPT ![i] = FALSE]

\* circuitBreaker.execute refuses: not a failure of the breaker, but one of
\* the retry.
Refused(i, x) ==
  /\ up[i] # "off" /\ exec[i][x].pc = "ready"
  /\ IsOpen(breaker[i])
  /\ Fails(i, x)
  /\ UNCHANGED <<up, att, extending, breaker, lock, hung, exits, overrun>>

\* circuitBreaker.execute begins an attempt, HALF_OPEN after the wait.
Begin(i, x, a) ==
  /\ up[i] # "off" /\ exec[i][x].pc = "ready" /\ FreeAttempt(i, a)
  /\ ~IsOpen(breaker[i])
  /\ breaker' = IF breaker[i].state = "OPEN"
                THEN [breaker EXCEPT ![i] = Breaker("HALF_OPEN", breaker[i].failures,
                                                    breaker[i].successes, 0)]
                ELSE breaker
  /\ exec' = [exec EXCEPT ![i][x] = Run("trying", exec[i][x].tries)]
  /\ att' = [att EXCEPT ![i][a] = Attempt("acquire", x, 0)]
  /\ UNCHANGED <<up, running, extending, lock, hung, exits, overrun>>

----------------------------------------------------------------------------
(* An attempt: withLock around executeCore.                                 *)

\* Mutant of Acquire: SET PX without NX.
AcquireAnyway(i, a) ==
  /\ att[i][a].phase = "acquire"
  /\ lock' = Held(i, LockTTL)
  /\ att' = [att EXCEPT ![i][a] = Attempt("core", att[i][a].of, att[i][a].age)]
  /\ extending' = [extending EXCEPT ![i] = TRUE]
  /\ UNCHANGED <<up, running, exec, breaker, hung, exits, overrun>>

\* withLock's SET NX PX, when the key is absent at one of its tries; then
\* startLockExtension.
Acquire(i, a) ==
  /\ att[i][a].phase = "acquire"
  /\ lock.owner = NoOwner
  /\ lock' = Held(i, LockTTL)
  /\ att' = [att EXCEPT ![i][a] = Attempt("core", att[i][a].of, att[i][a].age)]
  /\ extending' = [extending EXCEPT ![i] = TRUE]
  /\ UNCHANGED <<up, running, exec, breaker, hung, exits, overrun>>

\* overrun says something of attempts that are not over: it ends with them
StillOver(atts) ==
  overrun /\ \E i \in Instances, a \in Attempts : atts[i][a].phase # "off"

\* An attempt is over.  A live one settles its execution's try and counts
\* for the breaker; an orphan, whose promise nobody awaits, does neither.
Over(i, a, ok) ==
  /\ att' = [att EXCEPT ![i][a] = NoAttempt]
  /\ overrun' = StillOver(att')
  /\ IF att[i][a].of = NoExecution
     THEN UNCHANGED <<exec, running, breaker>>
     ELSE /\ breaker' = [breaker EXCEPT ![i] = IF ok THEN OnSuccess(breaker[i])
                                                     ELSE OnFailure(breaker[i])]
          /\ IF ok THEN Succeeds(i, att[i][a].of) ELSE Fails(i, att[i][a].of)

\* Could not acquire lock: the key, with whatever owner, was there at the
\* last try.
GiveUp(i, a) ==
  /\ att[i][a].phase = "acquire"
  /\ lock.owner # NoOwner
  /\ Over(i, a, FALSE)
  /\ UNCHANGED <<up, extending, lock, hung, exits>>

\* executeCore ends, with success or an error (Over chooses which: nothing
\* tells them apart before); the finally of executeJob
\* stops the extension, whichever attempt started it.
CoreEnds(i, a) ==
  /\ att[i][a].phase = "core"
  /\ att' = [att EXCEPT ![i][a] = Attempt("get", att[i][a].of, att[i][a].age)]
  /\ extending' = [extending EXCEPT ![i] = FALSE]
  /\ UNCHANGED <<up, running, exec, breaker, lock, hung, exits, overrun>>

\* executeCore waits for an answer that never comes.
CoreHangs(i, a) ==
  /\ att[i][a].phase = "core" /\ hung < MaxHung
  /\ att' = [att EXCEPT ![i][a] = Attempt("hung", att[i][a].of, att[i][a].age)]
  /\ hung' = hung + 1
  /\ UNCHANGED <<up, running, exec, extending, breaker, lock, exits, overrun>>

\* The finally of withLock: GET, and DEL when the value is this process's.
ReleaseGet(i, a) ==
  /\ att[i][a].phase = "get"
  /\ IF lock.owner = i
     THEN /\ att' = [att EXCEPT ![i][a] = Attempt("del", att[i][a].of, att[i][a].age)]
          /\ UNCHANGED <<exec, running, breaker, overrun>>
     ELSE \E ok \in BOOLEAN : Over(i, a, ok)
  /\ UNCHANGED <<up, extending, lock, hung, exits>>

\* The DEL names the key only: it deletes whatever is there by now.
ReleaseDel(i, a) ==
  /\ att[i][a].phase = "del"
  /\ lock' = Free
  /\ \E ok \in BOOLEAN : Over(i, a, ok)
  /\ UNCHANGED <<up, extending, hung, exits>>

\* Mutant of TimedOut: an attempt of exactly the timeout's age is let go on.
TimedOutLate(i, a) == att[i][a].of # NoExecution /\ att[i][a].age > BreakerTimeout

\* executeWithTimeout's timer wins the race: the breaker counts a failure,
\* the execution goes on without the attempt, and the attempt goes on too.
TimedOut(i, a) == att[i][a].of # NoExecution /\ att[i][a].age >= BreakerTimeout

Timeout(i, a) ==
  /\ TimedOut(i, a)
  /\ att' = [att EXCEPT ![i][a] = Attempt(att[i][a].phase, NoExecution, att[i][a].age)]
  /\ breaker' = [breaker EXCEPT ![i] = OnFailure(breaker[i])]
  /\ Fails(i, att[i][a].of)
  /\ UNCHANGED <<up, extending, lock, hung, exits, overrun>>

\* The finally of executeWithMonitoring, after its metrics, alerts and
\* persistState: it resets what a newer execution may be using.
Settle(i, x) ==
  /\ exec[i][x].pc = "settling"
  /\ exec' = [exec EXCEPT ![i][x] = NoRun]
  /\ running' = [running EXCEPT ![i] = FALSE]
  /\ extending' = [extending EXCEPT ![i] = FALSE]
  /\ UNCHANGED <<up, att, breaker, lock, hung, exits, overrun>>

----------------------------------------------------------------------------
(* The extension timer, time, and the end of a process.                     *)

\* extendLock: PEXPIRE if the value is still this process's.  The timer does
\* nothing unless the status is RUNNING.
Extends(i) == up[i] # "off" /\ extending[i] /\ running[i] /\ lock.owner = i

Extend(i) ==
  /\ Extends(i) /\ lock.ttl < LockTTL
  /\ lock' = Held(i, LockTTL)
  /\ UNCHANGED <<up, running, exec, att, extending, breaker, hung, exits, overrun>>

\* A tick passes once the timers that were due in the last one have fired and
\* what takes seconds has ended: the tries for the lock, the retry's delay,
\* the awaits of a finally.  A core and a release may take any time.
Brief(i) ==
  \/ \E x \in Executions : exec[i][x].pc \in {"ready", "settling"}
  \/ \E a \in Attempts : att[i][a].phase = "acquire"

TimersFired ==
  \A i \in Instances :
    /\ ~Brief(i)
    /\ \A a \in Attempts : ~TimedOut(i, a)
    /\ Extends(i) => lock.ttl = LockTTL

Older(a) ==
  IF a.phase = "off" \/ a.age >= BreakerTimeout THEN a
  ELSE Attempt(a.phase, a.of, a.age + 1)

Cooler(b) ==
  IF b.wait = 0 THEN b ELSE Breaker(b.state, b.failures, b.successes, b.wait - 1)

Tick ==
  /\ TimersFired
  /\ \E i \in Instances : up[i] # "off"
  /\ lock' = IF lock.ttl <= 1 THEN Free ELSE Held(lock.owner, lock.ttl - 1)
  /\ att' = [i \in Instances |-> [a \in Attempts |-> Older(att[i][a])]]
  /\ breaker' = [i \in Instances |-> Cooler(breaker[i])]
  /\ overrun' = (overrun \/ \E i \in Instances, a \in Attempts :
                               att'[i][a].age >= BreakerTimeout)
  /\ UNCHANGED <<up, running, exec, extending, hung, exits>>

\* stop(): no more firings and no more extensions; the core goes on until
\* the process exits.
Stop(i) ==
  /\ up[i] = "on" /\ exits < MaxExits
  /\ exits' = exits + 1
  /\ up' = [up EXCEPT ![i] = "stopping"]
  /\ running' = [running EXCEPT ![i] = FALSE]
  /\ extending' = [extending EXCEPT ![i] = FALSE]
  /\ UNCHANGED <<exec, att, breaker, lock, hung, overrun>>

\* The process is gone, after stop() or by a crash: its attempts end where
\* they are, its lock stays until its TTL, and a new process has a new
\* INSTANCE_ID.
Exit(i) ==
  /\ \/ up[i] = "stopping" /\ UNCHANGED exits
     \/ up[i] = "on" /\ exits < MaxExits /\ exits' = exits + 1
  /\ up' = [up EXCEPT ![i] = "off"]
  /\ running' = [running EXCEPT ![i] = FALSE]
  /\ exec' = [exec EXCEPT ![i] = [x \in Executions |-> NoRun]]
  /\ att' = [att EXCEPT ![i] = [a \in Attempts |-> NoAttempt]]
  /\ extending' = [extending EXCEPT ![i] = FALSE]
  /\ breaker' = [breaker EXCEPT ![i] = Closed]
  /\ lock' = IF lock.owner = i THEN Held(Gone, lock.ttl) ELSE lock
  /\ overrun' = StillOver(att')
  /\ UNCHANGED hung

AttemptSteps(i, a) ==
  \/ Acquire(i, a) \/ GiveUp(i, a) \/ ReleaseGet(i, a) \/ ReleaseDel(i, a)
  \/ Timeout(i, a)

ExecutionSteps(i, x) ==
  \/ Refused(i, x) \/ Settle(i, x)
  \/ \E a \in Attempts : Begin(i, x, a)

Next ==
  \/ \E i \in Instances :
       \/ Start(i) \/ Fire(i) \/ Extend(i) \/ Stop(i) \/ Exit(i)
       \/ \E x \in Executions : ExecutionSteps(i, x)
       \/ \E a \in Attempts : AttemptSteps(i, a) \/ CoreEnds(i, a) \/ CoreHangs(i, a)
  \/ Tick

\* Timers fire, time passes and promises settle (the event loop); a core that
\* does not hang ends; a process that is gone is started again (the
\* orchestrator), and one that is stopping exits.  Strong fairness where other
\* executions, or the bound on attempts, may disable a step for a while.
Fairness ==
  /\ SF_vars(Tick)
  /\ \A i \in Instances :
       /\ WF_vars(Start(i)) /\ WF_vars(Fire(i)) /\ WF_vars(Extend(i))
       /\ WF_vars(up[i] = "stopping" /\ Exit(i))
       /\ \A x \in Executions : SF_vars(ExecutionSteps(i, x))
       /\ \A a \in Attempts : WF_vars(AttemptSteps(i, a)) /\ WF_vars(CoreEnds(i, a))

Spec == Init /\ [][Next]_vars /\ Fairness

----------------------------------------------------------------------------
\* Every variable has a value the code can give it.
TypeOK ==
  /\ up \in [Instances -> {"off", "on", "stopping"}]
  /\ running \in [Instances -> BOOLEAN]
  /\ exec \in [Instances -> [Executions ->
                 [pc : {"free", "ready", "trying", "settling"}, tries : 0 .. MaxTries - 1]]]
  /\ att \in [Instances -> [Attempts ->
                [phase : Phases, of : Executions \cup {NoExecution}, age : 0 .. BreakerTimeout]]]
  /\ extending \in [Instances -> BOOLEAN]
  /\ breaker \in [Instances ->
                    [state : {"CLOSED", "OPEN", "HALF_OPEN"}, failures : 0 .. FailureThreshold,
                     successes : 0 .. SuccessThreshold, wait : 0 .. ResetTimeout]]
  /\ lock \in [owner : Instances \cup {NoOwner, Gone}, ttl : 0 .. LockTTL]
  /\ hung \in 0 .. MaxHung /\ exits \in 0 .. MaxExits
  /\ overrun \in BOOLEAN

\* The cores that are running, in all processes.
Cores == {p \in Instances \X Attempts : InCore(att[p[1]][p[2]])}

\* No two cores run at one time, in one process or in two, whatever crashes,
\* restarts and firings overlap, as long as no attempt has outlasted the
\* breaker's timeout since the job was last quiet: the lock outlives an
\* attempt that is on time, and nobody else deletes it.
CoresExclude ==
  \A p, q \in Cores : p # q => overrun

\* An execution ends, though its core may hang: the breaker's timeout, the
\* bounded retry and the finally see to it.
ExecutionsEnd ==
  \A i \in Instances, x \in Executions :
    exec[i][x].pc # "free" ~> exec[i][x].pc = "free"

\* The job runs again and again: no crash or shutdown of a lock's holder, no
\* contention, no open breaker and no hung core stops it for good.
JobKeepsRunning ==
  []<>(\E i \in Instances, a \in Attempts : att[i][a].phase = "core")
=============================================================================
