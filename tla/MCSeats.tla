------------------------------ MODULE MCSeats -------------------------------
(* Two reservations of one Partner compete for two seats while the operator *)
(* sets them apart in a chain of two Allocations and a Block.               *)
EXTENDS ReservationProperties, TLC

CONSTANTS u1, u2, p1, r1, r2, a1, a2, b1

NoCapacity == [p \in Pools |-> 0]
OnePartner == [r \in Reservations |-> p1]

Wish(S) == [seats |-> S, places |-> NoPlaces]
At(u, s) == [unit |-> u, src |-> s]

SeatOrders ==
    {Wish({At(u1, Shared)}), Wish({At(u1, a1)}),
     Wish({At(u2, a2)}),
     Wish({At(u1, a1), At(u2, Shared)})}

SeatTargets == {[units |-> U, places |-> NoCapacity] : U \in {{u1}, {u2}}}

\* The life of the Event and of the Partner is the matter of other runs.
SalesQuiet ==
    /\ event \in {"DRAFT", "ON_SALE", "CANCELLED"}
    /\ \A p \in Partners : partner[p] = "ACTIVE" /\ access[p] # "DISABLED"

Twins == Permutations({r1, r2})
=============================================================================
