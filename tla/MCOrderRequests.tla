-------------------------- MODULE MCOrderRequests --------------------------
(* Three requests at one time under one key, and any of two faults.        *)
EXTENDS OrderRequests, TLC

CONSTANTS r1, r2, r3

ThreeRequests == {r1, r2, r3}
ThreeOrders == 1 .. 3
=============================================================================
