------------------------ MODULE DistributedLock_proofs ------------------------
(***************************************************************************)
(* Proofs about DistributedLock for any number of callers, any TTL and any *)
(* number of retries, whichever executions draw the same lock value.       *)
(***************************************************************************)
EXTENDS DistributedLock, TLAPS

(* The key is there exactly while somebody holds it, with his value. *)
KeyOfHolder == /\ key = None <=> holder = None
               /\ holder # None => key = ValueOf[holder] /\ ttl > 0

(* An execution inside fn holds the key, which has the rest of its time to *)
(* live, unless one of its value overstayed the TTL; one that was not      *)
(* granted the key spent no time.                                          *)
HeldInTime == \A c \in Caller :
                /\ Inside(c) /\ ~Overstayed(c) => holder = c /\ ttl = TTL - held[c]
                /\ pc[c] \in {"start", "trying"} => held[c] = 0

(* The key was granted at most once to each execution. *)
GrantedOnce == \A c \in Caller : pc[c] \in {"start", "trying"} => holder # c /\ c \notin lapsed

(* An execution inside fn holds the key or is compromised. *)
HeldOrCompromised == \A c \in Caller : Inside(c) => holder = c \/ Lease!Compromised(c)

LockInv == TypeOK /\ KeyOfHolder /\ HeldInTime /\ HeldOrCompromised /\ GrantedOnce

(* The invariant holds at the start. *)
LEMMA LockInit == ASSUME Init PROVE LockInv
BY LockAssumption DEF LockAssumption, Init, LockInv, TypeOK, KeyOfHolder, HeldInTime,
   HeldOrCompromised, GrantedOnce, Inside, Location

(* Whoever overstayed or was compromised remains so while no time passes.  *)
LEMMA SameStandings ==
  ASSUME UNCHANGED <<held, lapsed>>, NEW c \in Caller
  PROVE  /\ Overstayed(c)' <=> Overstayed(c)
         /\ Lease!Compromised(c)' <=> Lease!Compromised(c)
BY DEF Overstayed, Lease!Compromised

(* The key is granted, to c, only when it is free. *)
LEMMA SetKeyPreserves ==
  ASSUME LockInv, NEW c \in Caller, pc[c] = "trying", SetKey(c),
         NEW next \in {"inside", "failed"}, pc' = [pc EXCEPT ![c] = next],
         UNCHANGED <<attempts, held, lapsed>>
  PROVE  LockInv'
<1> USE LockAssumption DEF LockAssumption, LockInv, SetKey
<1>0. ValueOf[c] \in LockValue /\ ValueOf[c] # None
  OBVIOUS
<1>1. TypeOK'
  BY <1>0 DEF TypeOK, Location
<1>2. KeyOfHolder'
  BY <1>0 DEF KeyOfHolder, TypeOK
<1>3. HeldInTime'
  BY SameStandings DEF KeyOfHolder, HeldInTime, TypeOK, Inside
<1>4. HeldOrCompromised'
  BY SameStandings DEF KeyOfHolder, HeldOrCompromised, TypeOK, Inside
<1>5. GrantedOnce'
  BY DEF GrantedOnce, TypeOK
<1>6. QED
  BY <1>1, <1>2, <1>3, <1>4, <1>5

(* A step that moves c and neither grants nor ends the key. *)
LEMMA MovePreserves ==
  ASSUME LockInv, NEW c \in Caller, NEW next \in Location \ {"start", "inside"},
         pc' = [pc EXCEPT ![c] = next],
         next = "trying" => pc[c] = "start",
         next = "finally" => pc[c] = "inside",
         UNCHANGED <<key, ttl, attempts, held, holder, lapsed>>
  PROVE  LockInv'
<1> USE LockAssumption DEF LockAssumption, LockInv
<1>1. TypeOK' /\ KeyOfHolder'
  BY DEF TypeOK, KeyOfHolder
<1>2. HeldInTime' /\ HeldOrCompromised'
  BY SameStandings DEF TypeOK, HeldInTime, HeldOrCompromised, Inside
<1>3. GrantedOnce'
  BY DEF TypeOK, GrantedOnce
<1>4. QED
  BY <1>1, <1>2, <1>3

(* The release takes the key from c itself, or from an execution of the    *)
(* same value after c was compromised.                                     *)
LEMMA DeletePreserves ==
  ASSUME LockInv, NEW c \in Caller, Release(c), key = ValueOf[c], CompareAndDelete(c)
  PROVE  LockInv'
<1> USE LockAssumption DEF LockAssumption, LockInv, Release
<1>1. key' = None /\ ttl' = 0 /\ holder' = None
  BY DEF CompareAndDelete
<1>2. holder \in Caller /\ ValueOf[holder] = ValueOf[c]
  <2>1. key # None
    OBVIOUS
  <2>2. QED
    BY <2>1 DEF TypeOK, KeyOfHolder
<1>3. holder # c => Overstayed(holder) /\ Lease!Compromised(holder)
  <2> SUFFICES ASSUME holder # c PROVE Overstayed(holder) /\ Lease!Compromised(holder)
    OBVIOUS
  <2>1. Overstayed(c) /\ Lease!Compromised(c)
    BY DEF HeldInTime, HeldOrCompromised, Inside
  <2>2. QED
    BY <1>2, <2>1 DEF Overstayed, Lease!Compromised
<1>4. TypeOK'
  BY <1>1 DEF TypeOK, Location
<1>5. KeyOfHolder' /\ GrantedOnce'
  BY <1>1 DEF TypeOK, KeyOfHolder, GrantedOnce
<1>6. HeldInTime' /\ HeldOrCompromised'
  <2> SUFFICES ASSUME NEW d \in Caller
               PROVE  /\ Inside(d)' => \/ (Overstayed(d) /\ Lease!Compromised(d))
                                       \/ (holder # d /\ Inside(d))
                      /\ pc'[d] \in {"start", "trying"} => held'[d] = 0
    BY SameStandings DEF HeldInTime, HeldOrCompromised, Inside
  <2>1. QED
    BY <1>3 DEF TypeOK, HeldInTime, Inside
<1>7. QED
  BY <1>4, <1>5, <1>6

(* No step of withLock takes the key from an execution of another value.   *)
LEMMA WithLockPreserves == ASSUME LockInv, NEW c \in Caller, WithLock(c) PROVE LockInv'
<1> USE DEF Location
<1>1. CASE Start(c) \/ GiveUp(c) \/ Leave(c) \/ Crash(c)
  <2>1. PICK next \in Location \ {"start", "inside"} :
          /\ pc' = [pc EXCEPT ![c] = next]
          /\ next = "trying" => pc[c] = "start"
          /\ next = "finally" => pc[c] = "inside"
    BY <1>1 DEF Start, GiveUp, Leave, Crash
  <2>2. UNCHANGED <<key, ttl, attempts, held, holder, lapsed>>
    BY <1>1 DEF Start, GiveUp, Leave, Crash
  <2>3. QED
    BY <2>1, <2>2, MovePreserves
<1>2. CASE Acquire(c)
  BY <1>2, SetKeyPreserves DEF Acquire
<1>3. CASE Retry(c)
  BY <1>3, LockAssumption, SameStandings
     DEF LockAssumption, Retry, LockInv, TypeOK, KeyOfHolder, HeldInTime, HeldOrCompromised,
         GrantedOnce, Inside
<1>4. CASE SystemError(c)
  <2>1. CASE SetKey(c)
    BY <1>4, <2>1, SetKeyPreserves DEF SystemError
  <2>2. CASE UNCHANGED <<key, ttl, holder>>
    BY <1>4, <2>2, MovePreserves DEF SystemError
  <2>3. QED
    BY <1>4, <2>1, <2>2 DEF SystemError
<1>5. CASE Release(c)
  <2>1. CASE key = ValueOf[c] /\ CompareAndDelete(c)
    BY <1>5, <2>1, DeletePreserves
  <2>2. CASE UNCHANGED <<key, ttl, holder>>
    BY <1>5, <2>2, MovePreserves DEF Release
  <2>3. QED
    BY <1>5, <2>1, <2>2 DEF Release, CompareAndDelete
<1>6. QED
  BY <1>1, <1>2, <1>3, <1>4, <1>5 DEF WithLock

(* The key runs out only when its holder has had it for the whole TTL. *)
LEMMA TickPreserves == ASSUME LockInv, Tick PROVE LockInv'
<1> USE LockAssumption DEF LockAssumption, LockInv, Tick
<1>1. TypeOK'
  <2>1. ttl' \in 0..TTL
    BY DEF TypeOK, KeyOfHolder
  <2>2. held' \in [Caller -> 0..TTL]
    BY DEF TypeOK
  <2>3. lapsed' \subseteq Caller
    BY DEF TypeOK, KeyOfHolder
  <2>4. QED
    BY <2>1, <2>2, <2>3 DEF TypeOK
<1>2. KeyOfHolder'
  BY DEF TypeOK, KeyOfHolder
<1>3. \A d \in Caller : Overstayed(d) => Overstayed(d)'
  BY DEF TypeOK, Overstayed
<1>4. HeldInTime'
  <2> SUFFICES ASSUME NEW d \in Caller
               PROVE  /\ Inside(d)' /\ ~Overstayed(d)' => holder' = d /\ ttl' = TTL - held'[d]
                      /\ pc'[d] \in {"start", "trying"} => held'[d] = 0
    BY DEF HeldInTime
  <2>1. CASE Inside(d) /\ ~Overstayed(d)'
    <3>1. holder = d /\ ttl = TTL - held[d] /\ key # None
      BY <1>3, <2>1 DEF HeldInTime, KeyOfHolder
    <3>2. held[d] # TTL /\ held'[d] # TTL
      BY <1>3, <2>1 DEF Overstayed
    <3>3. held'[d] = held[d] + 1 /\ ttl' = ttl - 1
      BY <2>1, <3>1, <3>2 DEF TypeOK
    <3>4. QED
      BY <2>1, <3>1, <3>2, <3>3 DEF TypeOK, Inside
  <2>2. CASE ~(Inside(d) /\ ~Overstayed(d)')
    BY <2>2 DEF TypeOK, HeldInTime, Inside
  <2>3. QED
    BY <2>1, <2>2
<1>5. HeldOrCompromised'
  BY DEF HeldOrCompromised, Lease!Compromised, Inside
<1>6. GrantedOnce'
  BY DEF TypeOK, GrantedOnce
<1>7. QED
  BY <1>1, <1>2, <1>4, <1>5, <1>6

LEMMA NextPreserves == ASSUME LockInv, [Next]_vars PROVE LockInv'
<1>1. CASE Next
  BY <1>1, WithLockPreserves, TickPreserves DEF Next
<1>2. CASE UNCHANGED vars
  BY <1>2, SameStandings DEF vars, LockInv, TypeOK, KeyOfHolder, HeldInTime, HeldOrCompromised,
     GrantedOnce, Inside
<1>3. QED
  BY <1>1, <1>2

(* The inductive invariant of withLock holds in every reachable state. *)
THEOREM LockCorrect == Spec => []LockInv
<1>1. Init => LockInv
  BY LockInit
<1>2. LockInv /\ [Next]_vars => LockInv'
  BY NextPreserves
<1>3. QED
  BY <1>1, <1>2, PTL DEF Spec

(* Types need less: that a key that is there has a holder and some time to *)
(* live.                                                                   *)
Types == TypeOK /\ (key # None => ttl > 0 /\ holder # None)

LEMMA TypesPreserved == ASSUME Types, [Next]_vars PROVE Types'
<1> USE LockAssumption DEF LockAssumption, Types, TypeOK
<1>1. ASSUME NEW c \in Caller, WithLock(c) PROVE Types'
  <2>1. CASE Acquire(c) \/ SystemError(c)
    <3>1. pc' \in [Caller -> Location]
      BY <2>1 DEF Acquire, SystemError, Location
    <3>2. ValueOf[c] \in LockValue
      OBVIOUS
    <3> QED BY <2>1, <3>1, <3>2 DEF Acquire, SystemError, SetKey
  <2>2. CASE Retry(c)
    BY <2>2 DEF Retry
  <2>3. CASE Start(c) \/ GiveUp(c) \/ Leave(c) \/ Crash(c)
    BY <2>3 DEF Start, GiveUp, Leave, Crash, Location
  <2>4. CASE Release(c)
    <3>1. pc' \in [Caller -> Location]
      BY <2>4 DEF Release, Location
    <3> QED BY <2>4, <3>1 DEF Release, CompareAndDelete
  <2> QED BY <1>1, <2>1, <2>2, <2>3, <2>4 DEF WithLock
<1>2. CASE Tick
  <2>1. held' \in [Caller -> 0..TTL]
    BY <1>2 DEF Tick
  <2> QED BY <1>2, <2>1 DEF Tick
<1>3. CASE UNCHANGED vars
  BY <1>3 DEF vars
<1> QED BY <1>1, <1>2, <1>3 DEF Next

(* Every variable keeps its type: nobody makes more than MaxRetries        *)
(* attempts, and a key never lives longer than the TTL it was given.       *)
THEOREM LockTypes == Spec => []TypeOK
<1>1. Init => Types
  BY LockAssumption DEF LockAssumption, Init, Types, TypeOK, Location
<1>2. Types /\ [Next]_vars => Types'
  BY TypesPreserved
<1>3. Types => TypeOK
  BY DEF Types
<1>4. QED
  BY <1>1, <1>2, <1>3, PTL DEF Spec

(* Two executions are inside the protected function at once only if one of *)
(* them, or one that drew the same lock value, overstayed the TTL, for any *)
(* number of callers and retries.                                          *)
THEOREM Exclusion == Spec => []ExclusionWithinTTL
<1>1. LockInv => ExclusionWithinTTL
  BY DEF LockInv, HeldInTime, ExclusionWithinTTL
<1>2. QED
  BY <1>1, LockCorrect, PTL

(* Every step of withLock is a step of the lease or leaves it alone: the   *)
(* lease ends by its holder's hand, by running out, or by one of the same  *)
(* value after a lease of that value ran out.                              *)
THEOREM Refinement == Spec => ImplementsLease
<1> USE LockAssumption DEF LockAssumption
<1> DEFINE inside == {c \in Caller : pc[c] = "inside"}
<1>1. Init => Lease!Init
  BY DEF Init, Lease!Init
<1>2. LockInv /\ [Next]_vars => [Lease!Next]_<<holder, lapsed, inside>>
  <2> SUFFICES ASSUME LockInv, [Next]_vars
               PROVE  Lease!Next \/ UNCHANGED <<holder, lapsed, inside>>
    OBVIOUS
  <2>1. ASSUME NEW c \in Caller, WithLock(c)
        PROVE  \/ Lease!Grant(c) \/ Lease!Leave(c) \/ Lease!GiveUp(c)
               \/ Lease!GiveUpForNamesake(c)
               \/ UNCHANGED <<holder, lapsed, inside>>
    <3>1. CASE Acquire(c) \/ (SystemError(c) /\ SetKey(c))
      <4>1. holder = None /\ c \notin lapsed /\ holder' = c /\ lapsed' = lapsed
        BY <3>1 DEF Acquire, SystemError, SetKey, LockInv, KeyOfHolder, GrantedOnce
      <4>2. inside' \in {inside, inside \cup {c}} /\ c \notin inside
        BY <3>1 DEF Acquire, SystemError, LockInv, TypeOK
      <4>3. QED
        BY <4>1, <4>2 DEF Lease!Grant
    <3>2. CASE Release(c)
      <4>1. inside' = inside /\ c \notin inside /\ lapsed' = lapsed
        BY <3>2 DEF Release, LockInv, TypeOK
      <4>2. CASE CompareAndDelete(c) /\ key = ValueOf[c]
        <5>1. holder \in Caller /\ ValueOf[holder] = ValueOf[c] /\ holder' = None
          BY <4>2 DEF LockInv, TypeOK, KeyOfHolder, CompareAndDelete
        <5>2. CASE holder = c
          BY <4>1, <5>1, <5>2 DEF Lease!GiveUp
        <5>3. CASE holder # c
          <6>1. Lease!Compromised(c)
            BY <3>2, <5>3 DEF Release, LockInv, HeldOrCompromised, Inside
          <6>2. QED
            BY <4>1, <5>1, <5>3, <6>1 DEF Lease!GiveUpForNamesake
        <5>4. QED
          BY <5>2, <5>3
      <4>3. QED
        BY <3>2, <4>1, <4>2 DEF Release, CompareAndDelete
    <3>3. CASE Leave(c) \/ (Crash(c) /\ pc[c] = "inside")
      <4>1. inside' = inside \ {c} /\ c \in inside
        BY <3>3 DEF Leave, Crash, LockInv, TypeOK
      <4>2. QED
        BY <3>3, <4>1 DEF Leave, Crash, Lease!Leave
    <3>4. CASE Start(c) \/ Retry(c) \/ GiveUp(c) \/ (Crash(c) /\ pc[c] # "inside")
               \/ (SystemError(c) /\ UNCHANGED <<key, ttl, holder>>)
      <4>1. inside' = inside
        BY <3>4 DEF Start, Retry, GiveUp, Crash, SystemError, LockInv, TypeOK
      <4>2. QED
        BY <3>4, <4>1 DEF Start, Retry, GiveUp, Crash, SystemError
    <3>5. QED
      BY <2>1, <3>1, <3>2, <3>3, <3>4 DEF WithLock, SystemError
  <2>2. CASE Tick
    <3>1. inside' = inside
      BY <2>2 DEF Tick
    <3>2. QED
      BY <2>2, <3>1 DEF Tick, LockInv, KeyOfHolder, Lease!RunOut, Lease!Next
  <2>3. CASE UNCHANGED vars
    BY <2>3 DEF vars
  <2>4. QED
    BY <2>1, <2>2, <2>3 DEF Next, Lease!Next
<1>3. QED
  BY <1>1, <1>2, LockCorrect, PTL DEF Spec, ImplementsLease, Lease!Spec, Lease!vars

(* What holds of every lease holds of withLock: an execution that is inside *)
(* without the key lost it because a lease of its own value ran out.  It   *)
(* follows from the refinement and the steps of the lease, not from those  *)
(* of withLock.                                                            *)
THEOREM WorkUnderLease == Spec => []LeaseKept
<1> DEFINE inside == {c \in Caller : pc[c] = "inside"}
<1>1. Lease!Init => LeaseKept
  BY DEF Lease!Init, LeaseKept, Lease!OnlyHoldersWork
<1>2. LeaseKept /\ [Lease!Next]_<<holder, lapsed, inside>> => LeaseKept'
  <2> SUFFICES ASSUME LeaseKept, [Lease!Next]_<<holder, lapsed, inside>>,
                      NEW c \in inside'
               PROVE  c = holder' \/ Lease!Compromised(c)'
    BY DEF LeaseKept, Lease!OnlyHoldersWork
  <2>1. \A d \in inside : d = holder \/ Lease!Compromised(d)
    BY DEF LeaseKept, Lease!OnlyHoldersWork
  <2>2. c \in Caller /\ c # None /\ inside \subseteq Caller
    BY LockAssumption DEF LockAssumption
  <2> HIDE DEF inside
  <2>3. CASE \E d \in Caller : Lease!Grant(d)
    <3>1. PICK d \in Caller : Lease!Grant(d)
      BY <2>3
    <3>2. holder = None /\ holder' = d /\ lapsed' = lapsed /\ c \in inside \cup {d}
      BY <3>1 DEF Lease!Grant, inside
    <3>3. QED
      BY <2>1, <2>2, <3>2 DEF Lease!Compromised
  <2>4. CASE \E d \in Caller : Lease!Leave(d)
    BY <2>1, <2>4 DEF Lease!Leave, Lease!Compromised, inside
  <2>5. CASE \E d \in Caller : Lease!GiveUp(d)
    BY <2>1, <2>5 DEF Lease!GiveUp, Lease!Compromised, inside
  <2>6. CASE \E d \in Caller : Lease!GiveUpForNamesake(d)
    <3>1. PICK d \in Caller : Lease!GiveUpForNamesake(d)
      BY <2>6
    <3>2. CASE c = holder
      BY <3>1, <3>2 DEF Lease!GiveUpForNamesake, Lease!Compromised
    <3>3. CASE c # holder
      BY <2>1, <3>1, <3>3 DEF Lease!GiveUpForNamesake, Lease!Compromised, inside
    <3>4. QED
      BY <3>2, <3>3
  <2>7. CASE Lease!RunOut
    BY <2>1, <2>7 DEF Lease!RunOut, Lease!Compromised, inside
  <2>8. CASE UNCHANGED <<holder, lapsed, inside>>
    BY <2>1, <2>8 DEF Lease!Compromised
  <2>9. QED
    BY <2>3, <2>4, <2>5, <2>6, <2>7, <2>8 DEF inside, Lease!Next
<1>3. QED
  BY <1>1, <1>2, Refinement, PTL DEF ImplementsLease, Lease!Spec, Lease!vars
==============================================================================
