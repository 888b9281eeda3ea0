-------------------------- MODULE MCJobExecutor --------------------------
(***************************************************************************)
(* One or two processes that run the expiration job, its times in ticks   *)
(* of its interval: a lock of two, a breaker timeout of two.               *)
(***************************************************************************)
EXTENDS JobExecutor, TLC

CONSTANTS a, b

OneInstance == {a}
TwoInstances == {a, b}
Symmetry == Permutations(TwoInstances)
TwoExecutions == {1, 2}
TwoAttempts == {1, 2}
===========================================================================
