----------------------------- MODULE Inventory ------------------------------
(***************************************************************************)
(* The inventory authority of one Event: which claim owns each reserved    *)
(* unit, how the places of each general-admission (GA) pool are split, and *)
(* the Blocks and Allocations that set inventory apart                     *)
(* (backend/internal/allocation, and the inventory_*.go files of           *)
(* backend/internal/reservation).                                          *)
(*                                                                         *)
(* A command locks the Event row, then Allocations, units, pools, claims   *)
(* and buckets in one order and holds them to the end of its transaction,  *)
(* so a command is one action.  The unique indexes and triggers of the     *)
(* schema are not guards here: the invariants show the code never needs    *)
(* them to refuse a write.                                                 *)
(***************************************************************************)
EXTENDS Integers, FiniteSets, FiniteSetsExt, EventSales

CONSTANTS
    Units,          \* reserved inventory units (seats)
    Pools,          \* GA pools
    Capacity,       \* places in each pool when its layout is imported
    Capacities,     \* capacities the operator may give a pool later
    Allocations,    \* Allocation ids, each created at most once
    Blocks,         \* Block ids, each created at most once
    Reservations,   \* Reservation ids, the owners of RESERVATION and SALE claims
    Shared,         \* the source that is no Allocation
    NonPublic,      \* the channel of a NON_PUBLIC Allocation
    Targets         \* requested restrictions: [units, places]

VARIABLES
    claims,         \* reserved_inventory_claims with ended_at IS NULL
    allocation,     \* state, channel and release destination per Allocation
    membership,     \* allocation_reserved_units per Allocation and unit
    ga,             \* ga_shared_inventory and ga_allocation_buckets
    block,          \* state and ga_block_buckets per Block
    issuedFrom      \* Allocations with a row in non_public_issuances

inventoryVars == <<claims, allocation, membership, ga, block, issuedFrom>>

Sources == Allocations \cup {Shared}
Channels == Partners \cup {NonPublic}

ASSUME CapacityAssumption == Capacity \in [Pools -> Nat] /\ Capacities \subseteq Nat

ASSUME NamesAssumption ==
    /\ Shared \notin Allocations
    /\ NonPublic \notin Partners
    /\ IsFiniteSet(Allocations) /\ IsFiniteSet(Blocks) /\ IsFiniteSet(Reservations)

\* validateTargets: at least one unit or a positive number of places.
ASSUME TargetsAssumption ==
    \A t \in Targets :
        /\ t.units \subseteq Units
        /\ t.places \in [Pools -> Nat]
        /\ t.units # {} \/ \E p \in Pools : t.places[p] > 0

-----------------------------------------------------------------------------
(* Claims, rows and seats.                                                 *)

Claim(u, type, owner) == [unit |-> u, type |-> type, owner |-> owner]

Free(u) == \A c \in claims : c.unit # u

\* One ga row: the columns of a ga_allocation_buckets row.  A row with
\* assigned = 0 stands for a bucket never inserted.  The shared row of a pool
\* does not use issued and released; its assigned is the pool's capacity.
Row(assigned, available) ==
    [assigned |-> assigned, available |-> available, reserved |-> 0,
     sold |-> 0, issued |-> 0, released |-> 0]

\* The reserved part of an item set: a unit and the source it is taken from.
Seat == [unit : Units, src : Sources]

NoPlaces == [s \in Sources |-> [p \in Pools |-> 0]]

NoAllocation == [state |-> "NONE", channel |-> NonPublic, dest |-> Shared]
NoBlock == [state |-> "NONE", blocked |-> [p \in Pools |-> 0]]

ClaimSet ==
    [unit : Units, type : {"RESERVATION", "SALE"}, owner : Reservations]
        \cup [unit : Units, type : {"ALLOCATION", "ISSUANCE"}, owner : Allocations]
        \cup [unit : Units, type : {"BLOCK"}, owner : Blocks]

AllocationRow ==
    [state : {"NONE", "ACTIVE", "RELEASED"}, channel : Channels, dest : Sources]

BlockRow == [state : {"NONE", "ACTIVE", "RELEASED"}, blocked : [Pools -> Nat]]

\* Everything but the GA rows, whose counters are the matter of
\* PlacesAreBalanced.
SeatTypeOK ==
    /\ claims \subseteq ClaimSet
    /\ allocation \in [Allocations -> AllocationRow]
    /\ membership \in [Allocations -> [Units -> {"NONE", "ACTIVE", "RELEASED"}]]
    /\ block \in [Blocks -> BlockRow]
    /\ issuedFrom \subseteq Allocations

InventoryInit ==
    /\ claims = {}
    /\ allocation = [a \in Allocations |-> NoAllocation]
    /\ membership = [a \in Allocations |-> [u \in Units |-> "NONE"]]
    /\ ga = [s \in Sources |-> [p \in Pools |->
                IF s = Shared THEN Row(Capacity[p], Capacity[p]) ELSE Row(0, 0)]]
    /\ block = [b \in Blocks |-> NoBlock]
    /\ issuedFrom = {}

-----------------------------------------------------------------------------
(* Where released inventory goes.                                          *)

Active(a) == allocation[a].state = "ACTIVE"

\* Shared, or an Allocation that exists and is ACTIVE.
Live(s) == s # Shared => s \in Allocations /\ Active(s)

Hop(s) == IF Live(s) THEN s ELSE allocation[s].dest

\* finalAllocationDestination: the first ACTIVE Allocation on the release
\* chain of s, or Shared.  The result is not Live only when the chain cycles,
\* which the code reports as an internal error.
FinalDestination(s) ==
    LET n == Cardinality(Allocations)
        walk[i \in 0..n] == IF i = 0 THEN s ELSE Hop(walk[i - 1])
    IN  walk[n]

-----------------------------------------------------------------------------
(* releaseActiveItems: the items of r leave their reservation.  S is the   *)
(* set of its seats that leave, P the places that leave each source.       *)

Moved(k) == FinalDestination(k.src) \notin {k.src, Shared}

\* Every statement of releaseActiveItems finds the row it needs.
CanReturn(r, S, P) ==
    /\ \A k \in S :
         /\ Claim(k.unit, "RESERVATION", r) \in claims
         /\ Live(FinalDestination(k.src))
         /\ Moved(k) => membership[FinalDestination(k.src)][k.unit] # "RELEASED"
    /\ \A s \in Sources, p \in Pools :
         /\ P[s][p] <= ga[s][p].reserved
         /\ P[s][p] > 0 => Live(FinalDestination(s))

\* Mutant: a unit goes back to where it came from, even if that was RELEASED.
ClaimsAfterReturnToSource(r, S) ==
    (claims \ {Claim(k.unit, "RESERVATION", r) : k \in S})
        \cup {Claim(k.unit, "ALLOCATION", k.src) : k \in {k \in S : k.src # Shared}}

\* restoreReservedDestination: the unit is free again, or back in the hands
\* of the Allocation it now belongs to.
ClaimsAfterReturn(r, S) ==
    (claims \ {Claim(k.unit, "RESERVATION", r) : k \in S})
        \cup {Claim(k.unit, "ALLOCATION", FinalDestination(k.src)) :
                k \in {k \in S : FinalDestination(k.src) # Shared}}

\* ensureAllocationReservedMembership.
MembershipAfterReturn(S) ==
    [a \in Allocations |-> [u \in Units |->
        IF \E k \in S : k.unit = u /\ Moved(k) /\ FinalDestination(k.src) = a
        THEN "ACTIVE" ELSE membership[a][u]]]

\* Places that leave a released source for s.
Forwarded(P, s, p) ==
    SumFunctionOnSet([a \in Sources |-> P[a][p]],
                     {a \in Allocations : ~Active(a) /\ FinalDestination(a) = s})

\* Mutant: places return to the bucket they came from, RELEASED or not.
GAAfterReturnKept(P) ==
    [s \in Sources |-> [p \in Pools |->
        [ga[s][p] EXCEPT !.reserved = @ - P[s][p], !.available = @ + P[s][p]]]]

\* restoreGADestination, and the SHARED case of releaseActiveItems.
GAAfterReturn(P) ==
    [s \in Sources |-> [p \in Pools |->
        LET extra == Forwarded(P, s, p)
            back  == IF Live(s) THEN P[s][p] ELSE 0
        IN  [ga[s][p] EXCEPT
                !.reserved  = @ - P[s][p],
                !.available = @ + back + extra,
                !.released  = @ + (P[s][p] - back),
                !.assigned  = @ + IF s = Shared THEN 0 ELSE extra]]]

-----------------------------------------------------------------------------
(* resolveItems and acquireResolvedItems: a reservation of partner p takes *)
(* the seats S and the places P.                                           *)

DrawsOn(p, a) == Active(a) /\ allocation[a].channel = p

\* resolveItems: p may draw on an Allocation only through its own ACTIVE
\* channel, and only what the Allocation was given.
Eligible(p, S, P) ==
    /\ \A k \in S : k.src # Shared =>
         DrawsOn(p, k.src) /\ membership[k.src][k.unit] = "ACTIVE"
    /\ \A a \in Allocations, pool \in Pools :
         P[a][pool] > 0 => DrawsOn(p, a) /\ ga[a][pool].assigned > 0

\* Mutant: a shared unit is available unless it is sold.
SeatAvailableUnsold(C, k) ==
    IF k.src = Shared THEN \A c \in C : c.unit = k.unit => c.type # "SALE"
                      ELSE Claim(k.unit, "ALLOCATION", k.src) \in C

\* A shared unit has no claim; an allocated one is claimed by its source.
SeatAvailable(C, k) ==
    IF k.src = Shared THEN \A c \in C : c.unit # k.unit
                      ELSE Claim(k.unit, "ALLOCATION", k.src) \in C

CanAcquire(C, G, S, P) ==
    /\ \A k \in S : SeatAvailable(C, k)
    /\ \A s \in Sources, p \in Pools : P[s][p] <= G[s][p].available

ClaimsAfterAcquire(C, r, S) ==
    (C \ {Claim(k.unit, "ALLOCATION", k.src) : k \in S})
        \cup {Claim(k.unit, "RESERVATION", r) : k \in S}

GAAfterAcquire(G, P) ==
    [s \in Sources |-> [p \in Pools |->
        [G[s][p] EXCEPT !.available = @ - P[s][p], !.reserved = @ + P[s][p]]]]

-----------------------------------------------------------------------------
(* consumeConfirmedInventory: the items of r are sold where they stand,    *)
(* from a RELEASED source bucket too.                                      *)

CanConsume(r, S, P) ==
    /\ \A k \in S : Claim(k.unit, "RESERVATION", r) \in claims
    /\ \A s \in Sources, p \in Pools : P[s][p] <= ga[s][p].reserved

ClaimsAfterSale(r, S) ==
    (claims \ {Claim(k.unit, "RESERVATION", r) : k \in S})
        \cup {Claim(k.unit, "SALE", r) : k \in S}

GAAfterSale(P) ==
    [s \in Sources |-> [p \in Pools |->
        [ga[s][p] EXCEPT !.reserved = @ - P[s][p], !.sold = @ + P[s][p]]]]

=============================================================================
