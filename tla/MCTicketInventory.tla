-------------------------- MODULE MCTicketInventory --------------------------
(* An event with two ticket types.  Two carts name both types, in opposite *)
(* orders, so that their transactions can wait for each other.             *)
EXTENDS TicketInventory, TLC

CONSTANTS floor, stand, r1, r2, h1, h2

MCSeats == floor :> 2 @@ stand :> 1

One(t, n) == [type |-> t, quantity |-> n]
MCCart == {<<One(floor, 1), One(stand, 1)>>,
           <<One(stand, 1), One(floor, 2)>>}
==============================================================================
