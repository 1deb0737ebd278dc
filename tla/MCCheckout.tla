------------------------------ MODULE MCCheckout -----------------------------
(* Two reservations of one Partner, with a limit of one, go through their   *)
(* checkouts while time passes and the Event lives its whole life.          *)
EXTENDS ReservationProperties, TLC

CONSTANTS p1, r1, r2, u1, u2

NoCapacity == [p \in Pools |-> 0]
OnePartner == [r \in Reservations |-> p1]

Wish(S) == [seats |-> {[unit |-> u, src |-> Shared] : u \in S}, places |-> NoPlaces]
SeatOrders == {Wish({u1}), Wish({u1, u2}), Wish({u2})}

\* The life of the Partner is the matter of another run.
PartnersQuiet ==
    \A p \in Partners : partner[p] = "ACTIVE" /\ access[p] # "DISABLED"

Twins == Permutations({r1, r2})
=============================================================================
