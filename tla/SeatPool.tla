------------------------------ MODULE SeatPool -------------------------------
(***************************************************************************)
(* What the ticket service promises of the seats of an event: a claim      *)
(* takes the seats of a whole basket or none of them, only seats that are  *)
(* free, and ends once, sold or given back.                                *)
(***************************************************************************)
EXTENDS Integers

CONSTANTS Type,  \* ticket types
          Claim, \* claims on seats
          Seats, \* seats of each type that are for sale
          Basket \* what a claim may ask of each type

VARIABLES free,  \* seats of each type nobody claims
          state, \* "none", "held", "sold" or "returned"
          need,  \* what a claim asks of each type
          sold   \* seats of each type that were sold

vars == <<free, state, need, sold>>

NoSeats == [t \in Type |-> 0]

Init == /\ free = Seats
        /\ state = [c \in Claim |-> "none"]
        /\ need = [c \in Claim |-> NoSeats]
        /\ sold = NoSeats

Hold(c, b) == /\ state[c] = "none"
              /\ \A t \in Type : b[t] <= free[t]
              /\ free' = [t \in Type |-> free[t] - b[t]]
              /\ state' = [state EXCEPT ![c] = "held"]
              /\ need' = [need EXCEPT ![c] = b]
              /\ UNCHANGED sold

Sell(c) == /\ state[c] = "held"
           /\ state' = [state EXCEPT ![c] = "sold"]
           /\ sold' = [t \in Type |-> sold[t] + need[c][t]]
           /\ UNCHANGED <<free, need>>

Return(c) == /\ state[c] = "held"
             /\ state' = [state EXCEPT ![c] = "returned"]
             /\ free' = [t \in Type |-> free[t] + need[c][t]]
             /\ UNCHANGED <<need, sold>>

Next == \E c \in Claim : \/ \E b \in Basket : Hold(c, b)
                         \/ Sell(c)
                         \/ Return(c)

Spec == Init /\ [][Next]_vars
==============================================================================
