------------------------------ MODULE MCChannels -----------------------------
(* Two Partners, each allowed and disallowed at any moment, one seat and one *)
(* Allocation whose channel the operator may change.                         *)
EXTENDS ReservationProperties, TLC

CONSTANTS p1, p2, r1, r2, a1, u1

NoCapacity == [p \in Pools |-> 0]
OwnPartner == [r \in Reservations |-> IF r = r1 THEN p1 ELSE p2]

Wish(s) == [seats |-> {[unit |-> u1, src |-> s]}, places |-> NoPlaces]
SeatOrders == {Wish(Shared), Wish(a1)}
SeatTargets == {[units |-> {u1}, places |-> NoCapacity]}
=============================================================================
