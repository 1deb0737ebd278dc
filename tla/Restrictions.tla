---------------------------- MODULE Restrictions ----------------------------
(***************************************************************************)
(* The operator's commands on inventory: set it apart in Blocks and        *)
(* Allocations, give it back, issue non-public tickets                     *)
(* (backend/internal/allocation), and resize a pool                        *)
(* (backend/internal/inventory/capacity.go).  Releasing an Allocation      *)
(* moves what it still has; what a Reservation holds from it stays where   *)
(* it is and follows the release chain when the Reservation ends.          *)
(***************************************************************************)
EXTENDS Inventory

\* lockAvailableReserved and lockSharedGA: a target is set apart only from
\* what nobody claims.
Unclaimed(t) ==
    /\ \A u \in t.units : Free(u)
    /\ \A p \in Pools : t.places[p] <= ga[Shared][p].available

\* The shared rows after the places t leave them.
SharedLess(t) ==
    [p \in Pools |-> [ga[Shared][p] EXCEPT !.available = @ - t.places[p]]]

-----------------------------------------------------------------------------
ChannelAllowed(channel) == channel \in Partners => MayAcquire(channel)

CreateAllocation(a, channel, dest, t) ==
    /\ Restrictable
    /\ allocation[a].state = "NONE"
    /\ ChannelAllowed(channel)
    /\ Live(dest)
    /\ Unclaimed(t)
    /\ allocation' = [allocation EXCEPT
            ![a] = [state |-> "ACTIVE", channel |-> channel, dest |-> dest]]
    /\ membership' = [membership EXCEPT
            ![a] = [u \in Units |-> IF u \in t.units THEN "ACTIVE" ELSE @[u]]]
    /\ claims' = claims \cup {Claim(u, "ALLOCATION", a) : u \in t.units}
    /\ ga' = [ga EXCEPT
            ![Shared] = SharedLess(t),
            ![a] = [p \in Pools |-> Row(t.places[p], t.places[p])]]
    /\ UNCHANGED <<block, issuedFrom, salesVars>>

-----------------------------------------------------------------------------
\* The units whose current claim is the Allocation's own.
OwnUnits(a) == {u \in Units : Claim(u, "ALLOCATION", a) \in claims}

\* Mutant: every claim on a listed unit is ended.
ClaimsAfterReleaseAll(a, dest) ==
    {c \in claims : membership[a][c.unit] = "NONE"}
        \cup (IF dest = Shared THEN {}
              ELSE {Claim(u, "ALLOCATION", dest) : u \in OwnUnits(a)})

\* Current units are claimed by the destination; the rest of the membership
\* is only closed.
ClaimsAfterRelease(a, dest) ==
    (claims \ {Claim(u, "ALLOCATION", a) : u \in OwnUnits(a)})
        \cup (IF dest = Shared THEN {}
              ELSE {Claim(u, "ALLOCATION", dest) : u \in OwnUnits(a)})

\* upsertAllocationMembership on the destination, released_at on the source.
MembershipAfterRelease(a, dest) ==
    [b \in Allocations |-> [u \in Units |->
        CASE b = a /\ membership[a][u] # "NONE" -> "RELEASED"
          [] b = dest /\ b # a /\ u \in OwnUnits(a) -> "ACTIVE"
          [] OTHER -> membership[b][u]]]

\* Mutant: what is reserved moves too.
GAAfterReleaseAll(a, dest) ==
    [ga EXCEPT
        ![dest] = [p \in Pools |->
            [ga[dest][p] EXCEPT !.available = @ + ga[a][p].available + ga[a][p].reserved]],
        ![a] = [p \in Pools |-> [ga[a][p] EXCEPT !.available = 0, !.reserved = 0]]]

\* moveGAAvailableToAllocation, or back to the shared row.
GAAfterRelease(a, dest) ==
    [ga EXCEPT
        ![dest] = [p \in Pools |->
            [ga[dest][p] EXCEPT !.available = @ + ga[a][p].available,
                         !.assigned = @ + IF dest = Shared THEN 0
                                          ELSE ga[a][p].available]],
        ![a] = [p \in Pools |->
            [ga[a][p] EXCEPT !.available = 0, !.released = @ + ga[a][p].available]]]

ReleaseAllocation(a) ==
    LET dest == allocation[a].dest IN
    /\ Restrictable
    /\ Active(a)
    /\ Live(dest)
    /\ claims' = ClaimsAfterRelease(a, dest)
    /\ membership' = MembershipAfterRelease(a, dest)
    /\ ga' = GAAfterRelease(a, dest)
    /\ allocation' = [allocation EXCEPT ![a].state = "RELEASED"]
    /\ UNCHANGED <<block, issuedFrom, salesVars>>

-----------------------------------------------------------------------------
CreateBlock(b, t) ==
    /\ Restrictable
    /\ block[b].state = "NONE"
    /\ Unclaimed(t)
    /\ block' = [block EXCEPT ![b] = [state |-> "ACTIVE", blocked |-> t.places]]
    /\ claims' = claims \cup {Claim(u, "BLOCK", b) : u \in t.units}
    /\ ga' = [ga EXCEPT ![Shared] = SharedLess(t)]
    /\ UNCHANGED <<allocation, membership, issuedFrom, salesVars>>

ReleaseBlock(b) ==
    /\ Restrictable
    /\ block[b].state = "ACTIVE"
    /\ claims' = claims \ {Claim(u, "BLOCK", b) : u \in Units}
    /\ ga' = [ga EXCEPT ![Shared] = [p \in Pools |->
            [ga[Shared][p] EXCEPT !.available = @ + block[b].blocked[p]]]]
    /\ block' = [block EXCEPT ![b] = [state |-> "RELEASED",
                                      blocked |-> NoBlock.blocked]]
    /\ UNCHANGED <<allocation, membership, issuedFrom, salesVars>>

-----------------------------------------------------------------------------
\* lockReservedIssuanceTargets and lockGAIssuanceTargets.
IssuableFrom(a, t) ==
    /\ \A u \in t.units :
         /\ membership[a][u] = "ACTIVE"
         /\ Claim(u, "ALLOCATION", a) \in claims
    /\ \A p \in Pools : t.places[p] <= ga[a][p].available

IssueNonPublic(a, t) ==
    /\ Issuable
    /\ Active(a) /\ allocation[a].channel = NonPublic
    /\ IssuableFrom(a, t)
    /\ claims' = (claims \ {Claim(u, "ALLOCATION", a) : u \in t.units})
                    \cup {Claim(u, "ISSUANCE", a) : u \in t.units}
    /\ ga' = [ga EXCEPT ![a] = [p \in Pools |->
            [ga[a][p] EXCEPT !.available = @ - t.places[p],
                         !.issued = @ + t.places[p]]]]
    /\ issuedFrom' = issuedFrom \cup {a}
    /\ UNCHANGED <<allocation, membership, block, salesVars>>

-----------------------------------------------------------------------------
\* What the pool loses must still be available in its shared row.
SetGACapacity(p, capacity) ==
    LET shared == ga[Shared][p] IN
    /\ Restrictable
    /\ shared.assigned - capacity <= shared.available
    /\ ga' = [ga EXCEPT ![Shared][p] =
            [shared EXCEPT !.available = @ + capacity - shared.assigned,
                           !.assigned = capacity]]
    /\ UNCHANGED <<claims, allocation, membership, block, issuedFrom, salesVars>>

-----------------------------------------------------------------------------
RestrictionsNext ==
    \/ \E a \in Allocations, t \in Targets :
         \/ \E channel \in Channels, dest \in Sources \ {a} :
              CreateAllocation(a, channel, dest, t)
         \/ IssueNonPublic(a, t)
    \/ \E a \in Allocations : ReleaseAllocation(a)
    \/ \E b \in Blocks, t \in Targets : CreateBlock(b, t)
    \/ \E b \in Blocks : ReleaseBlock(b)
    \/ \E p \in Pools, capacity \in Capacities : SetGACapacity(p, capacity)
=============================================================================
