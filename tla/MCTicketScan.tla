---------------------------- MODULE MCTicketScan ----------------------------
(* One ticket at two doors, and one of its entries made offline and sent    *)
(* twice; the second ticket is only in the uploads.                         *)
EXTENDS TicketScan, TLC

CONSTANTS s1, s2, o1, o2, b1, b2, t1, t2

TwoScans == {s1, s2}
TwoOffline == {o1, o2}
TwoBatches == {b1, b2}
TwoTickets == {t1, t2}

DoorTickets == s1 :> t1 @@ s2 :> t1 @@ o1 :> t1 @@ o2 :> t2
Crossed == b1 :> <<o1, o2>> @@ b2 :> <<o2, o1>>
=============================================================================
