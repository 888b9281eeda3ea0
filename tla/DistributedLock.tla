--------------------------- MODULE DistributedLock ---------------------------
(***************************************************************************)
(* withLock of backend/shared/src/utils/distributed-lock.ts on one Redis   *)
(* key: SET key value PX ttl NX with bounded retries, the protected        *)
(* function, and the compare-and-delete that releases the key.  The time   *)
(* the function takes is not bounded by anything in the code, so the key   *)
(* may expire under it.  A caller is one execution of withLock.            *)
(***************************************************************************)
EXTENDS Integers

CONSTANTS Caller,      \* executions of withLock competing for the key
          LockValue,   \* contents the key can have
          ValueOf,     \* the lockValue of each execution, pid and millisecond:
                       \* two executions may well have the same
          TTL,         \* time units (PX ttl) the key lives without a release
          MaxRetries,  \* SET attempts before LockTimeoutError (50 in the code)
          None         \* no content, no holder

ASSUME LockAssumption == /\ ValueOf \in [Caller -> LockValue]
                         /\ TTL \in Nat \ {0}
                         /\ MaxRetries \in Nat \ {0}
                         /\ None \notin LockValue
                         /\ None \notin Caller

VARIABLES key,      \* content of the Redis key, None when absent
          ttl,      \* remaining lifetime of the key
          pc,       \* where each execution is
          attempts, \* SET attempts made so far
          held,     \* time since the key was granted, capped at TTL
          holder,   \* history: the execution whose SET made the present key
          lapsed    \* history: executions whose key expired under them

vars == <<key, ttl, pc, attempts, held, holder, lapsed>>

Location == {"start", "trying", "inside", "finally", "done", "failed", "crashed"}

(* Executions that were told OK and have not sent the release yet. *)
Inside(c) == pc[c] \in {"inside", "finally"}

Init == /\ key = None
        /\ ttl = 0
        /\ pc = [c \in Caller |-> "start"]
        /\ attempts = [c \in Caller |-> 0]
        /\ held = [c \in Caller |-> 0]
        /\ holder = None
        /\ lapsed = {}

Start(c) == /\ pc[c] = "start"
            /\ pc' = [pc EXCEPT ![c] = "trying"]
            /\ UNCHANGED <<key, ttl, attempts, held, holder, lapsed>>

(* SET key value PX ttl NX took effect. *)
SetKey(c) == /\ key = None
             /\ key' = ValueOf[c]
             /\ ttl' = TTL
             /\ holder' = c

(* The reply to SET was OK: run fn. *)
Acquire(c) == /\ pc[c] = "trying"
              /\ attempts[c] < MaxRetries
              /\ SetKey(c)
              /\ pc' = [pc EXCEPT ![c] = "inside"]
              /\ UNCHANGED <<attempts, held, lapsed>>

(* Mutant of Retry: one attempt too many. *)
RetryBeyondLimit(c) == /\ pc[c] = "trying"
                       /\ attempts[c] <= MaxRetries
                       /\ key # None
                       /\ attempts' = [attempts EXCEPT ![c] = @ + 1]
                       /\ UNCHANGED <<key, ttl, pc, held, holder, lapsed>>

(* The reply was nil: count the attempt and sleep retryDelayMs. *)
Retry(c) == /\ pc[c] = "trying"
            /\ attempts[c] < MaxRetries
            /\ key # None
            /\ attempts' = [attempts EXCEPT ![c] = @ + 1]
            /\ UNCHANGED <<key, ttl, pc, held, holder, lapsed>>

(* All the attempts failed: LockTimeoutError. *)
GiveUp(c) == /\ pc[c] = "trying"
             /\ attempts[c] = MaxRetries
             /\ pc' = [pc EXCEPT ![c] = "failed"]
             /\ UNCHANGED <<key, ttl, attempts, held, holder, lapsed>>

(* SET threw.  The command may have been executed before the connection    *)
(* was lost; acquired is still false, so nothing will release the key.     *)
SystemError(c) == /\ pc[c] = "trying"
                  /\ attempts[c] < MaxRetries
                  /\ \/ SetKey(c)
                     \/ UNCHANGED <<key, ttl, holder>>
                  /\ pc' = [pc EXCEPT ![c] = "failed"]
                  /\ UNCHANGED <<attempts, held, lapsed>>

(* fn returned or threw. *)
Leave(c) == /\ pc[c] = "inside"
            /\ pc' = [pc EXCEPT ![c] = "finally"]
            /\ UNCHANGED <<key, ttl, attempts, held, holder, lapsed>>

(* Mutant of CompareAndDelete: DEL without comparing the value. *)
BlindDelete(c) == key' = None /\ ttl' = 0 /\ holder' = None

(* The Lua script of the finally block: delete the key if it still has the *)
(* value this execution set.                                               *)
CompareAndDelete(c) == IF key = ValueOf[c]
                         THEN key' = None /\ ttl' = 0 /\ holder' = None
                         ELSE UNCHANGED <<key, ttl, holder>>

(* The release; an error of eval is caught and only logged, whether or not *)
(* the script ran.                                                         *)
Release(c) == /\ pc[c] = "finally"
              /\ \/ CompareAndDelete(c)
                 \/ UNCHANGED <<key, ttl, holder>>
              /\ pc' = [pc EXCEPT ![c] = "done"]
              /\ UNCHANGED <<attempts, held, lapsed>>

(* The process of an execution dies; the key stays. *)
Crash(c) == /\ pc[c] \in {"trying", "inside", "finally"}
            /\ pc' = [pc EXCEPT ![c] = "crashed"]
            /\ UNCHANGED <<key, ttl, attempts, held, holder, lapsed>>

(* Mutant of Tick: SET without PX, so the key never expires. *)
TickWithoutExpiry == /\ \E c \in Caller : Inside(c) /\ held[c] < TTL
                     /\ held' = [c \in Caller |-> IF Inside(c) /\ held[c] < TTL
                                                    THEN held[c] + 1 ELSE held[c]]
                     /\ UNCHANGED <<key, ttl, pc, attempts, holder, lapsed>>

(* A unit of time passes; Redis drops the key when its lifetime is over. *)
Tick == /\ key # None \/ \E c \in Caller : Inside(c) /\ held[c] < TTL
        /\ held' = [c \in Caller |-> IF Inside(c) /\ held[c] < TTL
                                       THEN held[c] + 1 ELSE held[c]]
        /\ ttl' = IF key = None THEN 0 ELSE ttl - 1
        /\ IF key # None /\ ttl = 1
             THEN key' = None /\ holder' = None /\ lapsed' = lapsed \cup {holder}
             ELSE UNCHANGED <<key, holder, lapsed>>
        /\ UNCHANGED <<pc, attempts>>

WithLock(c) == \/ Start(c) \/ Acquire(c) \/ Retry(c) \/ GiveUp(c)
               \/ SystemError(c) \/ Leave(c) \/ Release(c) \/ Crash(c)

Next == \/ \E c \in Caller : WithLock(c)
        \/ Tick

Spec == Init /\ [][Next]_vars

(* Time passes, and withLock goes on by itself except inside fn. *)
FairSpec == /\ Spec
            /\ WF_vars(Tick)
            /\ \A c \in Caller : WF_vars(Start(c) \/ Acquire(c) \/ Retry(c)
                                           \/ GiveUp(c) \/ Release(c))

------------------------------------------------------------------------------
TypeOK == /\ key \in LockValue \cup {None}
          /\ ttl \in 0..TTL
          /\ pc \in [Caller -> Location]
          /\ attempts \in [Caller -> 0..MaxRetries]
          /\ held \in [Caller -> 0..TTL]
          /\ holder \in Caller \cup {None}
          /\ lapsed \subseteq Caller

(* An execution with the lock value of c had the key for its whole TTL.    *)
Overstayed(c) == \E e \in Caller : ValueOf[e] = ValueOf[c] /\ held[e] = TTL

(* Two executions run fn of the same key at once only if one of them, or   *)
(* one that drew the same lock value (pid and millisecond, line 105), has  *)
(* been running for the whole TTL: no release, retry, error or crash of    *)
(* anybody else can take the key from an execution before its time.        *)
ExclusionWithinTTL ==
  \A c, d \in Caller : Inside(c) /\ Inside(d) /\ c # d => Overstayed(c) \/ Overstayed(d)

(* The key of a process that died while it held the lock is dropped, so    *)
(* that others can go on (PX on the SET).                                  *)
CrashedHolderFreed == \A c \in Caller : pc[c] = "crashed" ~> holder # c

(* withLock implements the lease: it is given up when its holder is done,  *)
(* or runs out; or it ends by an execution of the same lock value after    *)
(* one of that value ran out.  Nobody else's release, failure or death     *)
(* ends it.                                                                *)
Lease == INSTANCE LockLease WITH Name <- ValueOf,
                                 using <- {c \in Caller : pc[c] = "inside"}
ImplementsLease == Lease!Spec

(* An execution that runs fn without the key lost it to the TTL, its own   *)
(* or that of an execution with the same lock value: not to a release, a   *)
(* retry or a failure of any other (the comparison in the finally block).  *)
LeaseKept == Lease!OnlyHoldersWork
==============================================================================
