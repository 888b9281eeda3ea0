-------------------------- MODULE MCDistributedLock --------------------------
(* Executions of withLock on one key.  Two of them began in the same       *)
(* millisecond in processes of the same pid, the others did not.           *)
EXTENDS DistributedLock, TLC

CONSTANTS a, b, c

MCValues == a :> 1 @@ b :> 1 @@ c :> 2
==============================================================================
