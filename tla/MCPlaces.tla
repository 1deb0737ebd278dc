------------------------------ MODULE MCPlaces ------------------------------
(* Two reservations and the operator compete for the places of one pool.    *)
EXTENDS ReservationProperties, TLC

CONSTANTS p1, r1, r2, a1, a2, b1, g

TwoPlaces == [p \in Pools |-> 2]
OnePartner == [r \in Reservations |-> p1]

\* A composition that takes n[s] places from each source.
Wish(shared, first, second) ==
    [seats |-> {},
     places |-> [s \in Sources |-> [p \in Pools |->
        CASE s = Shared -> shared [] s = a1 -> first [] OTHER -> second]]]

PlaceOrders == {Wish(1, 0, 0), Wish(0, 1, 0), Wish(0, 2, 0), Wish(1, 0, 1)}

\* Compositions that differ only in quantity.
SharedOrders == {Wish(1, 0, 0), Wish(2, 0, 0)}

PlaceTargets == {[units |-> {}, places |-> [p \in Pools |-> n]] : n \in 1..2}

\* The life of the Event and of the Partner is the matter of other runs.
SalesQuiet ==
    /\ event \in {"DRAFT", "ON_SALE", "CANCELLED"}
    /\ \A p \in Partners : partner[p] = "ACTIVE" /\ access[p] # "DISABLED"

Twins == Permutations({r1, r2})
=============================================================================
