------------------------------ MODULE LockLease ------------------------------
(***************************************************************************)
(* What a caller of withLock relies on: a lease with at most one holder.   *)
(* The lease is granted only when it is free, and it ends because its      *)
(* holder gave it up or because it ran out.  Callers are known by a name,  *)
(* and a name need not be unique: once the lease of a caller has run out,  *)
(* callers of that name may take it from each other.                       *)
(***************************************************************************)
CONSTANTS Caller, \* executions of withLock on one key
          Name,   \* the name each caller goes by
          None    \* no holder

VARIABLES holder, \* the caller the lease belongs to, or None
          lapsed, \* callers whose lease ran out under them
          using   \* callers at work on what the lease protects

vars == <<holder, lapsed, using>>

(* The lease of a caller that goes by the name of c ran out. *)
Compromised(c) == \E e \in lapsed : Name[e] = Name[c]

Init == /\ holder = None
        /\ lapsed = {}
        /\ using = {}

(* Whoever is granted the lease works under it, unless it never hears of it. *)
Grant(c) == /\ holder = None
            /\ c \notin lapsed \cup using
            /\ holder' = c
            /\ using' \in {using, using \cup {c}}
            /\ UNCHANGED lapsed

Leave(c) == /\ c \in using
            /\ using' = using \ {c}
            /\ UNCHANGED <<holder, lapsed>>

GiveUp(c) == /\ holder = c
             /\ c \notin using
             /\ holder' = None
             /\ UNCHANGED <<lapsed, using>>

(* A caller that is done ends the lease of another of its name. *)
GiveUpForNamesake(c) == /\ holder \in Caller \ {c}
                        /\ Name[holder] = Name[c]
                        /\ c \notin using
                        /\ Compromised(c)
                        /\ holder' = None
                        /\ UNCHANGED <<lapsed, using>>

RunOut == /\ holder # None
          /\ lapsed' = lapsed \cup {holder}
          /\ holder' = None
          /\ UNCHANGED using

Next == \/ \E c \in Caller : Grant(c) \/ Leave(c) \/ GiveUp(c) \/ GiveUpForNamesake(c)
        \/ RunOut

Spec == Init /\ [][Next]_vars

(* Whoever works holds the lease, or one of his name saw it run out: the   *)
(* work goes on under nobody else's act.                                   *)
OnlyHoldersWork == \A c \in using : c = holder \/ Compromised(c)
==============================================================================
