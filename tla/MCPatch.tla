------------------------------ MODULE MCPatch -------------------------------
(* Two PATCH requests at a time on one reservation of three shared seats.   *)
EXTENDS PatchRequests, TLC

CONSTANTS p1, r1, u1, u2, u3, c1, c2

NoCapacity == [p \in Pools |-> 0]
OnePartner == [r \in Reservations |-> p1]

\* Every composition of shared seats.
AllOrders ==
    {[seats |-> {[unit |-> u, src |-> Shared] : u \in S}, places |-> NoPlaces] :
        S \in SUBSET Units \ {{}}}

\* The life of the Partner is the matter of another run.
PartnersQuiet ==
    \A p \in Partners : partner[p] = "ACTIVE" /\ access[p] # "DISABLED"

TwinCalls == Permutations({c1, c2})
=============================================================================
