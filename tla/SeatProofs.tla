----------------------------- MODULE SeatProofs ------------------------------
(***************************************************************************)
(* Safety of reserved units: no unit is claimed twice, every claim is      *)
(* backed, every reservation owns its seats, they can come back, and they  *)
(* are taken through the channel of their Allocation.  At the end, that    *)
(* the reservation authority implements SeatLedger.                        *)
(***************************************************************************)
EXTENDS ReservationProofs

-----------------------------------------------------------------------------
(* The inductive invariant.  The four properties need each other, and two  *)
(* facts no handler relies on explicitly.                                  *)

\* A reservation lists a unit once.
ItemsAreDistinct ==
    \A r \in Reservations : \A k, l \in items[r].seats : k.unit = l.unit => k = l

\* An Allocation that does not exist has no members, and nothing was taken
\* from it; one that exists never releases to itself.
UnbornAllocations ==
    /\ \A a \in Allocations :
         IF allocation[a].state = "NONE"
         THEN \A u \in Units : membership[a][u] = "NONE"
         ELSE allocation[a].dest # a
    /\ \A r \in Reservations : IsActive(r) \/ State(r) = "CONFIRMED" =>
         \A k \in items[r].seats :
            k.src # Shared => allocation[k.src].state # "NONE"
    /\ \A a \in issuedFrom : allocation[a].state # "NONE"

SeatInv ==
    /\ OneActiveClaimPerUnit
    /\ ClaimsAreBacked
    /\ SeatsAreOwned
    /\ MembershipsAreOpen
    /\ ItemsAreDistinct
    /\ UnbornAllocations

-----------------------------------------------------------------------------
(* What the shared inventory steps do to the claims.                       *)

\* The fields of a claim, and when two of them are equal.
LEMMA ClaimFields ==
    /\ \A u, type, owner :
         /\ Claim(u, type, owner).unit = u
         /\ Claim(u, type, owner).type = type
         /\ Claim(u, type, owner).owner = owner
    /\ \A c \in ClaimSet : c = Claim(c.unit, c.type, c.owner)
  BY DEF Claim, ClaimSet

Disjoint(C) == \A c, d \in C : c.unit = d.unit => c = d

\* The seats S leave r: what was claimed by others stays claimed, and a unit
\* is claimed anew only by an ACTIVE Allocation that lists it.
LEMMA ReturnClaims ==
    ASSUME CoreTypeOK, SeatInv, NEW r \in Reservations, IsActive(r),
           NEW S \in SUBSET items[r].seats, NEW P, CanReturn(r, S, P),
           NEW C, C = ClaimsAfterReturn(r, S), NEW M, M = MembershipAfterReturn(S)
    PROVE  /\ Disjoint(C)
           /\ \A c \in claims : c \in C \/ \E k \in S : c = Claim(k.unit, "RESERVATION", r)
           /\ \A c \in C : \/ /\ c \in claims
                              /\ \A k \in S : c # Claim(k.unit, "RESERVATION", r)
                           \/ /\ c.type = "ALLOCATION" /\ c.owner \in Allocations
                              /\ Active(c.owner) /\ M[c.owner][c.unit] = "ACTIVE"
           /\ \A a \in Allocations, u \in Units :
                \/ M[a][u] = membership[a][u]
                \/ M[a][u] = "ACTIVE" /\ Active(a)
  <1> USE ClaimFields
  <1>1. S \subseteq Seat
    BY DEF CoreTypeOK, ReservationTypeOK
  <1>2. ASSUME NEW k \in S, FinalDestination(k.src) # Shared
        PROVE  /\ FinalDestination(k.src) \in Allocations
               /\ Active(FinalDestination(k.src))
               /\ M[FinalDestination(k.src)][k.unit] = "ACTIVE"
    <2>1. FinalDestination(k.src) \in Allocations /\ Active(FinalDestination(k.src))
      BY <1>2 DEF CanReturn, Live
    <2>2. CASE Moved(k)
      BY <1>1, <2>1, <2>2 DEF MembershipAfterReturn, Seat
    <2>3. CASE ~Moved(k)
      <3>1. FinalDestination(k.src) = k.src
        BY <1>2, <2>3 DEF Moved
      <3>2. membership[k.src][k.unit] = "ACTIVE"
        BY <2>1, <3>1 DEF SeatInv, MembershipsAreOpen
      <3> QED BY <1>1, <2>1, <3>1, <3>2 DEF MembershipAfterReturn, Seat
    <2> QED BY <2>1, <2>2, <2>3
  <1>3. \A k \in S : Claim(k.unit, "RESERVATION", r) \in claims
    BY DEF CanReturn
  <1>4. \A c \in C : \/ /\ c \in claims
                        /\ \A k \in S : c # Claim(k.unit, "RESERVATION", r)
                     \/ \E k \in S : /\ c = Claim(k.unit, "ALLOCATION", FinalDestination(k.src))
                                     /\ FinalDestination(k.src) # Shared
    BY DEF ClaimsAfterReturn
  <1>5. Disjoint(C)
    <2> SUFFICES ASSUME NEW c \in C, NEW d \in C, c.unit = d.unit
                 PROVE  c = d
      BY DEF Disjoint
    <2>1. CASE c \in claims /\ d \in claims
      BY <2>1 DEF SeatInv, OneActiveClaimPerUnit
    <2>2. ASSUME NEW x \in C, NEW y \in C, x.unit = y.unit,
                 x \in claims, \A k \in S : x # Claim(k.unit, "RESERVATION", r),
                 NEW k \in S, y = Claim(k.unit, "ALLOCATION", FinalDestination(k.src))
          PROVE  FALSE
      BY <1>3, <2>2 DEF SeatInv, OneActiveClaimPerUnit
    <2>3. ASSUME NEW k \in S, c = Claim(k.unit, "ALLOCATION", FinalDestination(k.src)),
                 NEW l \in S, d = Claim(l.unit, "ALLOCATION", FinalDestination(l.src))
          PROVE  c = d
      BY <2>3 DEF SeatInv, ItemsAreDistinct
    <2> QED BY <1>4, <2>1, <2>2, <2>3
  <1>6. \A c \in claims : c \in C \/ \E k \in S : c = Claim(k.unit, "RESERVATION", r)
    BY DEF ClaimsAfterReturn
  <1>7. \A a \in Allocations, u \in Units :
            M[a][u] = membership[a][u] \/ (M[a][u] = "ACTIVE" /\ Active(a))
    BY <1>2 DEF MembershipAfterReturn, Moved
  <1>8. \A c \in C : \/ /\ c \in claims
                        /\ \A k \in S : c # Claim(k.unit, "RESERVATION", r)
                     \/ /\ c.type = "ALLOCATION" /\ c.owner \in Allocations
                        /\ Active(c.owner) /\ M[c.owner][c.unit] = "ACTIVE"
    BY <1>2, <1>4
  <1> QED BY <1>5, <1>6, <1>7, <1>8

\* r takes the seats S out of the claims C.
LEMMA AcquireClaims ==
    ASSUME NEW C, Disjoint(C), NEW r \in Reservations, NEW S \in SUBSET Seat,
           \A k \in S : SeatAvailable(C, k), NEW D, D = ClaimsAfterAcquire(C, r, S)
    PROVE  /\ Disjoint(D)
           /\ \A c \in C : c \in D \/ c.type = "ALLOCATION"
           /\ \A c \in D : c \in C \/ \E k \in S : c = Claim(k.unit, "RESERVATION", r)
           /\ \A k \in S : Claim(k.unit, "RESERVATION", r) \in D
  <1> USE ClaimFields
  <1>1. \A c \in D : \/ c \in C /\ \A k \in S : c # Claim(k.unit, "ALLOCATION", k.src)
                     \/ \E k \in S : c = Claim(k.unit, "RESERVATION", r)
    BY DEF ClaimsAfterAcquire
  <1>2. ASSUME NEW c \in C, NEW k \in S, c.unit = k.unit
        PROVE  c = Claim(k.unit, "ALLOCATION", k.src)
    BY <1>2 DEF SeatAvailable, Disjoint
  <1>3. Disjoint(D)
    BY <1>1, <1>2 DEF Disjoint
  <1> QED BY <1>3 DEF ClaimsAfterAcquire

-----------------------------------------------------------------------------
(* The steps, by what they do to seats.                                    *)

Settled(r) == State(r) = "CONFIRMED"

\* Nothing about seats, and no reservation begins or ends.
LEMMA QuietStep ==
    ASSUME SeatInv,
           UNCHANGED <<claims, membership, block, issuedFrom, items>>,
           \A a \in Allocations : /\ allocation'[a].state = allocation[a].state
                                  /\ allocation'[a].dest = allocation[a].dest,
           \A r \in Reservations : (IsActive(r)' <=> IsActive(r)) /\ (Settled(r)' <=> Settled(r)),
           CoreTypeOK, CoreTypeOK'
    PROVE  SeatInv'
  <1>1. \A a \in Allocations : Active(a)' <=> Active(a)
    BY DEF Active
  <1>2. OneActiveClaimPerUnit'
    BY DEF SeatInv, OneActiveClaimPerUnit
  <1>3. ClaimsAreBacked'
    <2> SUFFICES ASSUME NEW c \in claims PROVE ClaimIsBacked(c)'
      BY DEF ClaimsAreBacked
    <2>1. ClaimIsBacked(c) /\ c \in ClaimSet
      BY DEF SeatInv, ClaimsAreBacked, CoreTypeOK, SeatTypeOK
    <2> QED BY <1>1, <2>1 DEF ClaimIsBacked, Settled, ClaimSet
  <1>4. SeatsAreOwned'
    BY DEF SeatInv, SeatsAreOwned, Settled
  <1>5. MembershipsAreOpen'
    BY <1>1 DEF SeatInv, MembershipsAreOpen
  <1>6. ItemsAreDistinct'
    BY DEF SeatInv, ItemsAreDistinct
  <1>7. UnbornAllocations'
    <2>1. \A k \in Seat : k.src # Shared => k.src \in Allocations
      BY DEF Seat, Sources
    <2>2. issuedFrom \subseteq Allocations
      BY DEF CoreTypeOK, SeatTypeOK
    <2>3. \A r \in Reservations : items[r].seats \subseteq Seat
      BY DEF CoreTypeOK, ReservationTypeOK
    <2> QED BY <2>1, <2>2, <2>3 DEF SeatInv, UnbornAllocations, Settled
  <1> QED BY <1>2, <1>3, <1>4, <1>5, <1>6, <1>7 DEF SeatInv

\* A reservation ends without a sale and gives its seats back.
LEMMA EndStep ==
    ASSUME SeatInv, CoreTypeOK, NEW r \in Reservations, IsActive(r), ReturnAllItems(r),
           UNCHANGED items, ~IsActive(r)', ~Settled(r)',
           \A q \in Reservations \ {r} : State(q)' = State(q)
    PROVE  SeatInv'
  <1> DEFINE S == items[r].seats
  <1>0. /\ CanReturn(r, S, items[r].places)
        /\ claims' = ClaimsAfterReturn(r, S)
        /\ membership' = MembershipAfterReturn(S)
        /\ UNCHANGED <<allocation, block, issuedFrom>>
    BY DEF ReturnAllItems
  <1>1. /\ Disjoint(claims')
        /\ \A c \in claims : c \in claims' \/ \E k \in S : c = Claim(k.unit, "RESERVATION", r)
        /\ \A c \in claims' : \/ /\ c \in claims
                                 /\ \A k \in S : c # Claim(k.unit, "RESERVATION", r)
                              \/ /\ c.type = "ALLOCATION" /\ c.owner \in Allocations
                                 /\ Active(c.owner) /\ membership'[c.owner][c.unit] = "ACTIVE"
        /\ \A a \in Allocations, u \in Units :
             membership'[a][u] = membership[a][u] \/ (membership'[a][u] = "ACTIVE" /\ Active(a))
    BY <1>0, ReturnClaims
  <1>2. OneActiveClaimPerUnit'
    BY <1>1 DEF Disjoint, OneActiveClaimPerUnit
  <1>3. ClaimsAreBacked'
    <2> SUFFICES ASSUME NEW c \in claims' PROVE ClaimIsBacked(c)'
      BY DEF ClaimsAreBacked
    <2>1. CASE c \in claims /\ \A k \in S : c # Claim(k.unit, "RESERVATION", r)
      <3>1. ClaimIsBacked(c) /\ c \in ClaimSet
        BY <2>1 DEF SeatInv, ClaimsAreBacked, CoreTypeOK, SeatTypeOK
      <3>2. c.type \in {"RESERVATION", "SALE"} => c.owner \in Reservations \ {r}
        <4>1. CASE c.type = "SALE"
          BY <3>1, <4>1 DEF ClaimIsBacked, ClaimSet, IsActive, ActiveStates
        <4>2. CASE c.type = "RESERVATION" /\ c.owner = r
          <5>1. PICK k \in S : k.unit = c.unit
            BY <3>1, <4>2 DEF ClaimIsBacked
          <5>2. c = Claim(k.unit, "RESERVATION", r)
            BY <3>1, <4>2, <5>1, ClaimFields
          <5> QED BY <2>1, <5>2
        <4>3. CASE c.type = "RESERVATION" /\ c.owner # r
          BY <3>1, <4>3 DEF ClaimSet
        <4> QED BY <4>1, <4>2, <4>3
      <3>3. c.type = "ALLOCATION" => membership'[c.owner][c.unit] = "ACTIVE"
        BY <1>1, <3>1 DEF ClaimIsBacked, ClaimSet
      <3> QED BY <1>0, <3>1, <3>2, <3>3 DEF ClaimIsBacked, IsActive, Active, ClaimSet
    <2>2. CASE /\ c.type = "ALLOCATION" /\ c.owner \in Allocations
               /\ Active(c.owner) /\ membership'[c.owner][c.unit] = "ACTIVE"
      BY <1>0, <2>2 DEF ClaimIsBacked, Active
    <2> QED BY <1>1, <2>1, <2>2
  <1>4. SeatsAreOwned'
    BY <1>1, ClaimFields DEF SeatInv, SeatsAreOwned, IsActive, Settled
  <1>5. MembershipsAreOpen'
    <2>1. \A q \in Reservations : items[q].seats \subseteq Seat
      BY DEF CoreTypeOK, ReservationTypeOK
    <2>2. \A k \in Seat : k.unit \in Units
      BY DEF Seat
    <2>3. \A a \in Allocations, u \in Units :
            /\ Active(a) => membership'[a][u] # "RELEASED"
            /\ membership[a][u] = "ACTIVE" => membership'[a][u] = "ACTIVE"
      BY <1>1 DEF SeatInv, MembershipsAreOpen
    <2> QED BY <1>0, <2>1, <2>2, <2>3 DEF SeatInv, MembershipsAreOpen, Active, IsActive
  <1>6. ItemsAreDistinct'
    BY DEF SeatInv, ItemsAreDistinct
  <1>7. UnbornAllocations'
    <2>1. \A a \in Allocations : allocation[a].state = "NONE" =>
            \A u \in Units : membership'[a][u] = "NONE"
      BY <1>1 DEF SeatInv, UnbornAllocations, Active
    <2> QED BY <1>0, <2>1 DEF SeatInv, UnbornAllocations, IsActive, Settled
  <1> QED BY <1>2, <1>3, <1>4, <1>5, <1>6, <1>7 DEF SeatInv

\* A reservation sells its seats.
LEMMA SellStep ==
    ASSUME SeatInv, CoreTypeOK, NEW r \in Reservations, IsActive(r), NEW n \in Numbers,
           Sell(r, n)
    PROVE  SeatInv'
  <1> USE ClaimFields
  <1> DEFINE S == items[r].seats
  <1>0. /\ \A k \in S : Claim(k.unit, "RESERVATION", r) \in claims
        /\ claims' = (claims \ {Claim(k.unit, "RESERVATION", r) : k \in S})
                        \cup {Claim(k.unit, "SALE", r) : k \in S}
        /\ UNCHANGED <<allocation, membership, block, issuedFrom, items>>
        /\ State(r)' = "CONFIRMED"
        /\ \A q \in Reservations \ {r} : State(q)' = State(q)
    BY DEF Sell, CanConsume, ClaimsAfterSale, State, WithoutDeadlines, CoreTypeOK,
           ReservationTypeOK, ReservationRow
  <1>1. \A c \in claims' : \/ c \in claims /\ \A k \in S : c # Claim(k.unit, "RESERVATION", r)
                           \/ \E k \in S : c = Claim(k.unit, "SALE", r)
    BY <1>0
  <1>2. OneActiveClaimPerUnit'
    <2>1. ASSUME NEW c \in claims, NEW k \in S, c.unit = k.unit
          PROVE  c = Claim(k.unit, "RESERVATION", r)
      BY <1>0, <2>1 DEF SeatInv, OneActiveClaimPerUnit
    <2> QED BY <1>1, <2>1 DEF SeatInv, OneActiveClaimPerUnit
  <1>3. ClaimsAreBacked'
    <2> SUFFICES ASSUME NEW c \in claims' PROVE ClaimIsBacked(c)'
      BY DEF ClaimsAreBacked
    <2>1. CASE c \in claims /\ \A k \in S : c # Claim(k.unit, "RESERVATION", r)
      <3>1. ClaimIsBacked(c) /\ c \in ClaimSet
        BY <2>1 DEF SeatInv, ClaimsAreBacked, CoreTypeOK, SeatTypeOK
      <3>2. c.type = "RESERVATION" => c.owner \in Reservations \ {r}
        <4>1. CASE c.type = "RESERVATION" /\ c.owner = r
          <5>1. PICK k \in S : k.unit = c.unit
            BY <3>1, <4>1 DEF ClaimIsBacked
          <5>2. c = Claim(k.unit, "RESERVATION", r)
            BY <3>1, <4>1, <5>1
          <5> QED BY <2>1, <5>2
        <4>2. CASE c.type = "RESERVATION" /\ c.owner # r
          BY <3>1, <4>2 DEF ClaimSet
        <4> QED BY <4>1, <4>2
      <3>3. c.type = "SALE" => c.owner \in Reservations \ {r}
        BY <3>1 DEF ClaimIsBacked, ClaimSet, IsActive, ActiveStates
      <3> QED BY <1>0, <3>1, <3>2, <3>3 DEF ClaimIsBacked, IsActive, Active, ClaimSet
    <2>2. ASSUME NEW k \in S, c = Claim(k.unit, "SALE", r)
          PROVE  ClaimIsBacked(c)'
      <3>1. c.type = "SALE" /\ c.owner = r /\ c.unit = k.unit
        BY <2>2
      <3>2. State(c.owner)' = "CONFIRMED" /\ k \in items'[c.owner].seats
        BY <1>0, <3>1
      <3> QED BY <3>1, <3>2 DEF ClaimIsBacked
    <2> QED BY <1>1, <2>1, <2>2
  <1>4. SeatsAreOwned'
    <2> SUFFICES ASSUME NEW q \in Reservations, NEW k \in items[q].seats
                 PROVE  /\ IsActive(q)' => Claim(k.unit, "RESERVATION", q) \in claims'
                        /\ State(q)' = "CONFIRMED" => Claim(k.unit, "SALE", q) \in claims'
      BY <1>0 DEF SeatsAreOwned
    <2>1. CASE q = r
      BY <1>0, <2>1 DEF IsActive, ActiveStates
    <2>2. CASE q # r
      <3>1. State(q)' = State(q)
        BY <1>0, <2>2
      <3>2. /\ State(q) \in ActiveStates => Claim(k.unit, "RESERVATION", q) \in claims
            /\ State(q) = "CONFIRMED" => Claim(k.unit, "SALE", q) \in claims
        BY DEF SeatInv, SeatsAreOwned, IsActive
      <3>3. \A l \in S : /\ Claim(k.unit, "RESERVATION", q) # Claim(l.unit, "RESERVATION", r)
                         /\ Claim(k.unit, "SALE", q) # Claim(l.unit, "RESERVATION", r)
        BY <2>2
      <3> QED BY <1>0, <3>1, <3>2, <3>3 DEF IsActive
    <2> QED BY <2>1, <2>2
  <1>5. MembershipsAreOpen'
    BY <1>0 DEF SeatInv, MembershipsAreOpen, Active, IsActive, ActiveStates
  <1>6. ItemsAreDistinct'
    BY <1>0 DEF SeatInv, ItemsAreDistinct
  <1>7. UnbornAllocations'
    BY <1>0 DEF SeatInv, UnbornAllocations, IsActive, Settled
  <1> QED BY <1>2, <1>3, <1>4, <1>5, <1>6, <1>7 DEF SeatInv

\* Create keeps the invariant: what it takes was free or its source's own.
LEMMA CreateStep ==
    ASSUME SeatInv, CoreTypeOK, NEW r \in Reservations, NEW q \in Orders, Create(r, q)
    PROVE  SeatInv'
  <1> USE ClaimFields
  <1>0. /\ ~IsActive(r) /\ ~Settled(r)
        /\ IsActive(r)' /\ State(r)' = "HELD"
        /\ \A x \in Reservations \ {r} : State(x)' = State(x) /\ items'[x] = items[x]
        /\ items'[r] = q
        /\ UNCHANGED <<allocation, membership, block, issuedFrom>>
    BY DEF Create, State, HeldRow, IsActive, Settled, ActiveStates, CoreTypeOK, ReservationTypeOK
  <1>1. q.seats \subseteq Seat /\ \A k, l \in q.seats : k.unit = l.unit => k = l
    BY OrdersAssumption
  <1>2. /\ Disjoint(claims')
        /\ \A c \in claims : c \in claims' \/ c.type = "ALLOCATION"
        /\ \A c \in claims' : c \in claims \/ \E k \in q.seats : c = Claim(k.unit, "RESERVATION", r)
        /\ \A k \in q.seats : Claim(k.unit, "RESERVATION", r) \in claims'
    <2>1. Disjoint(claims) /\ claims' = ClaimsAfterAcquire(claims, r, q.seats)
      BY DEF Create, Disjoint, SeatInv, OneActiveClaimPerUnit
    <2>2. \A k \in q.seats : SeatAvailable(claims, k)
      BY DEF Create, CanAcquire
    <2> QED BY <1>1, <2>1, <2>2, AcquireClaims
  <1>3. \A k \in q.seats : k.src # Shared =>
            Active(k.src) /\ membership[k.src][k.unit] = "ACTIVE"
    BY DEF Create, Eligible, DrawsOn
  <1>4. OneActiveClaimPerUnit'
    BY <1>2 DEF Disjoint, OneActiveClaimPerUnit
  <1>5. ClaimsAreBacked'
    <2> SUFFICES ASSUME NEW c \in claims' PROVE ClaimIsBacked(c)'
      BY DEF ClaimsAreBacked
    <2>1. CASE c \in claims
      <3>1. ClaimIsBacked(c) /\ c \in ClaimSet
        BY <2>1 DEF SeatInv, ClaimsAreBacked, CoreTypeOK, SeatTypeOK
      <3>2. c.type \in {"RESERVATION", "SALE"} => c.owner \in Reservations \ {r}
        BY <1>0, <3>1 DEF ClaimIsBacked, ClaimSet, Settled
      <3> QED BY <1>0, <3>1, <3>2 DEF ClaimIsBacked, IsActive, Active, ClaimSet
    <2>2. ASSUME NEW k \in q.seats, c = Claim(k.unit, "RESERVATION", r)
          PROVE  ClaimIsBacked(c)'
      <3>1. c.type = "RESERVATION" /\ c.owner = r /\ c.unit = k.unit
        BY <2>2
      <3>2. IsActive(c.owner)' /\ k \in items'[c.owner].seats
        BY <1>0, <3>1
      <3> QED BY <3>1, <3>2 DEF ClaimIsBacked
    <2> QED BY <1>2, <2>1, <2>2
  <1>6. SeatsAreOwned'
    <2> SUFFICES ASSUME NEW x \in Reservations, NEW k \in items'[x].seats
                 PROVE  /\ IsActive(x)' => Claim(k.unit, "RESERVATION", x) \in claims'
                        /\ State(x)' = "CONFIRMED" => Claim(k.unit, "SALE", x) \in claims'
      BY DEF SeatsAreOwned
    <2>1. CASE x = r
      BY <1>0, <1>2, <2>1
    <2>2. CASE x # r
      <3>1. State(x)' = State(x) /\ k \in items[x].seats
        BY <1>0, <2>2
      <3>2. /\ State(x) \in ActiveStates => Claim(k.unit, "RESERVATION", x) \in claims
            /\ State(x) = "CONFIRMED" => Claim(k.unit, "SALE", x) \in claims
        BY <3>1 DEF SeatInv, SeatsAreOwned, IsActive
      <3> QED BY <1>2, <3>1, <3>2 DEF IsActive
    <2> QED BY <2>1, <2>2
  <1>7. MembershipsAreOpen'
    <2> SUFFICES ASSUME NEW a \in Allocations, Active(a)'
                 PROVE  /\ \A u \in Units : membership'[a][u] # "RELEASED"
                        /\ \A x \in Reservations : IsActive(x)' =>
                             \A k \in items'[x].seats : k.src = a => membership'[a][k.unit] = "ACTIVE"
      BY DEF MembershipsAreOpen
    <2>1. Active(a) /\ a # Shared
      BY <1>0, NamesAssumption DEF Active
    <2> QED BY <1>0, <1>3, <2>1 DEF SeatInv, MembershipsAreOpen, IsActive
  <1>8. ItemsAreDistinct'
    BY <1>0, <1>1 DEF SeatInv, ItemsAreDistinct
  <1>9. UnbornAllocations'
    BY <1>0, <1>3 DEF SeatInv, UnbornAllocations, IsActive, Settled, Active
  <1> QED BY <1>4, <1>5, <1>6, <1>7, <1>8, <1>9 DEF SeatInv

\* A hold is modified: some seats return, then others are acquired.
LEMMA ChangeStep ==
    ASSUME SeatInv, CoreTypeOK, NEW r \in Reservations, IsActive(r), NEW q \in Orders,
           ChangeItems(r, q), UNCHANGED <<reservation, allocation, block, issuedFrom>>
    PROVE  SeatInv'
  <1> USE ClaimFields
  <1>a. PICK gone, new : /\ gone = items[r].seats \ q.seats
                         /\ new = q.seats \ items[r].seats
    OBVIOUS
  <1>0. /\ \A x \in Reservations : State(x)' = State(x)
        /\ \A x \in Reservations \ {r} : items'[x] = items[x]
        /\ items'[r] = q
    BY DEF ChangeItems, State, CoreTypeOK, ReservationTypeOK
  <1>1. /\ q.seats \subseteq Seat /\ new \in SUBSET Seat
        /\ \A k, l \in q.seats : k.unit = l.unit => k = l
    BY <1>a, OrdersAssumption
  <1>2. /\ gone \in SUBSET items[r].seats
        /\ CanReturn(r, gone, Excess(items[r].places, q.places))
    BY <1>a DEF ChangeItems
  <1>3. PICK C : /\ C = ClaimsAfterReturn(r, gone)
                 /\ claims' = ClaimsAfterAcquire(C, r, new)
                 /\ membership' = MembershipAfterReturn(gone)
                 /\ \A k \in new : SeatAvailable(C, k)
    BY <1>a DEF ChangeItems, CanAcquire
  <1>4. /\ Disjoint(C)
        /\ \A c \in claims : c \in C \/ \E k \in gone : c = Claim(k.unit, "RESERVATION", r)
        /\ \A c \in C : \/ /\ c \in claims
                           /\ \A k \in gone : c # Claim(k.unit, "RESERVATION", r)
                        \/ /\ c.type = "ALLOCATION" /\ c.owner \in Allocations
                           /\ Active(c.owner) /\ membership'[c.owner][c.unit] = "ACTIVE"
        /\ \A a \in Allocations, u \in Units :
             membership'[a][u] = membership[a][u] \/ (membership'[a][u] = "ACTIVE" /\ Active(a))
    BY <1>2, <1>3, ReturnClaims
  <1>6. /\ Disjoint(claims')
        /\ \A c \in C : c \in claims' \/ c.type = "ALLOCATION"
        /\ \A c \in claims' : c \in C \/ \E k \in new : c = Claim(k.unit, "RESERVATION", r)
        /\ \A k \in new : Claim(k.unit, "RESERVATION", r) \in claims'
    BY <1>1, <1>3, <1>4, AcquireClaims
  <1>7. \A k \in new : k.src # Shared => Active(k.src) /\ membership[k.src][k.unit] = "ACTIVE"
    BY <1>a DEF ChangeItems, Eligible, DrawsOn
  <1>8. \A a \in Allocations, u \in Units :
            /\ Active(a) => membership'[a][u] # "RELEASED"
            /\ membership[a][u] = "ACTIVE" => membership'[a][u] = "ACTIVE"
            /\ allocation[a].state = "NONE" => membership'[a][u] = membership[a][u]
    BY <1>4 DEF SeatInv, MembershipsAreOpen, Active
  <1>9. \A x \in Reservations : items[x].seats \subseteq Seat
    BY DEF CoreTypeOK, ReservationTypeOK
  <1>10. OneActiveClaimPerUnit'
    BY <1>6 DEF Disjoint, OneActiveClaimPerUnit
  <1>11. ClaimsAreBacked'
    <2> SUFFICES ASSUME NEW c \in claims' PROVE ClaimIsBacked(c)'
      BY DEF ClaimsAreBacked
    <2>1. CASE c \in claims /\ \A k \in gone : c # Claim(k.unit, "RESERVATION", r)
      <3>1. ClaimIsBacked(c) /\ c \in ClaimSet
        BY <2>1 DEF SeatInv, ClaimsAreBacked, CoreTypeOK, SeatTypeOK
      <3>2. CASE c.type = "RESERVATION" /\ c.owner = r
        <4>1. PICK k \in items[r].seats : k.unit = c.unit
          BY <3>1, <3>2 DEF ClaimIsBacked
        <4>2. c = Claim(k.unit, "RESERVATION", r)
          BY <3>1, <3>2, <4>1
        <4>3. k \in q.seats
          BY <1>a, <2>1, <4>2
        <4> QED BY <1>0, <3>2, <4>1, <4>3 DEF ClaimIsBacked, IsActive
      <3>3. CASE c.type = "SALE"
        <4>1. c.owner \in Reservations \ {r} /\ State(c.owner) = "CONFIRMED"
          BY <3>1, <3>3 DEF ClaimIsBacked, ClaimSet, IsActive, ActiveStates
        <4> QED BY <1>0, <3>1, <3>3, <4>1 DEF ClaimIsBacked
      <3>4. CASE c.type = "RESERVATION" /\ c.owner # r
        <4>1. c.owner \in Reservations \ {r}
          BY <3>1, <3>4 DEF ClaimSet
        <4> QED BY <1>0, <3>1, <3>4, <4>1 DEF ClaimIsBacked, IsActive
      <3>5. CASE c.type = "ALLOCATION"
        BY <1>8, <3>1, <3>5 DEF ClaimIsBacked, ClaimSet, Active
      <3>6. CASE c.type \in {"BLOCK", "ISSUANCE"}
        BY <3>1, <3>6 DEF ClaimIsBacked
      <3> QED BY <3>1, <3>2, <3>3, <3>4, <3>5, <3>6 DEF ClaimSet
    <2>2. CASE /\ c.type = "ALLOCATION" /\ c.owner \in Allocations
               /\ Active(c.owner) /\ membership'[c.owner][c.unit] = "ACTIVE"
      BY <2>2 DEF ClaimIsBacked, Active
    <2>3. ASSUME NEW k \in new, c = Claim(k.unit, "RESERVATION", r)
          PROVE  ClaimIsBacked(c)'
      <3>1. c.type = "RESERVATION" /\ c.owner = r /\ c.unit = k.unit
        BY <2>3
      <3>2. IsActive(c.owner)' /\ k \in items'[c.owner].seats
        BY <1>0, <1>a, <3>1 DEF IsActive
      <3> QED BY <3>1, <3>2 DEF ClaimIsBacked
    <2> QED BY <1>4, <1>6, <2>1, <2>2, <2>3
  <1>12. SeatsAreOwned'
    <2> SUFFICES ASSUME NEW x \in Reservations, NEW k \in items'[x].seats
                 PROVE  /\ IsActive(x)' => Claim(k.unit, "RESERVATION", x) \in claims'
                        /\ State(x)' = "CONFIRMED" => Claim(k.unit, "SALE", x) \in claims'
      BY DEF SeatsAreOwned
    <2>1. CASE x = r
      <3>1. State(r)' # "CONFIRMED"
        BY <1>0 DEF IsActive, ActiveStates
      <3>2. CASE k \in new
        BY <1>6, <2>1, <3>1, <3>2
      <3>3. CASE k \in items[r].seats
        <4>1. Claim(k.unit, "RESERVATION", r) \in claims
          BY <3>3 DEF SeatInv, SeatsAreOwned
        <4>2. \A l \in gone : l.unit # k.unit
          BY <1>0, <1>2, <1>a, <2>1, <3>3 DEF SeatInv, ItemsAreDistinct
        <4>3. Claim(k.unit, "RESERVATION", r) \in C
          BY <1>4, <4>1, <4>2
        <4> QED BY <1>6, <2>1, <3>1, <4>3
      <3> QED BY <1>0, <1>a, <2>1, <3>2, <3>3
    <2>2. CASE x # r
      <3>1. State(x)' = State(x) /\ k \in items[x].seats
        BY <1>0, <2>2
      <3>2. /\ State(x) \in ActiveStates => Claim(k.unit, "RESERVATION", x) \in claims
            /\ State(x) = "CONFIRMED" => Claim(k.unit, "SALE", x) \in claims
        BY <3>1 DEF SeatInv, SeatsAreOwned, IsActive
      <3>3. \A l \in gone : /\ Claim(k.unit, "RESERVATION", x) # Claim(l.unit, "RESERVATION", r)
                            /\ Claim(k.unit, "SALE", x) # Claim(l.unit, "RESERVATION", r)
        BY <2>2
      <3> QED BY <1>4, <1>6, <3>1, <3>2, <3>3 DEF IsActive
    <2> QED BY <2>1, <2>2
  <1>13. MembershipsAreOpen'
    <2> SUFFICES ASSUME NEW a \in Allocations, Active(a)'
                 PROVE  /\ \A u \in Units : membership'[a][u] # "RELEASED"
                        /\ \A x \in Reservations : IsActive(x)' =>
                             \A k \in items'[x].seats : k.src = a => membership'[a][k.unit] = "ACTIVE"
      BY DEF MembershipsAreOpen
    <2>1. Active(a) /\ a # Shared
      BY NamesAssumption DEF Active
    <2>2. \A u \in Units : membership'[a][u] # "RELEASED"
      BY <1>8, <2>1
    <2>3. ASSUME NEW x \in Reservations, IsActive(x)', NEW k \in items'[x].seats, k.src = a
          PROVE  membership'[a][k.unit] = "ACTIVE"
      <3>1. k.unit \in Units /\ IsActive(x)
        BY <1>0, <1>1, <1>9, <2>3 DEF Seat, IsActive
      <3>2. CASE k \in items[x].seats
        BY <1>8, <2>1, <2>3, <3>1, <3>2 DEF SeatInv, MembershipsAreOpen
      <3>3. CASE k \in new
        BY <1>7, <1>8, <2>1, <2>3, <3>1, <3>3
      <3> QED BY <1>0, <1>a, <3>2, <3>3
    <2> QED BY <2>2, <2>3
  <1>14. ItemsAreDistinct'
    BY <1>0, <1>1 DEF SeatInv, ItemsAreDistinct
  <1>15. UnbornAllocations'
    <2>1. ASSUME NEW x \in Reservations, IsActive(x) \/ State(x) = "CONFIRMED",
                 NEW k \in items'[x].seats, k.src # Shared
          PROVE  allocation[k.src].state # "NONE"
      <3>1. CASE k \in items[x].seats
        BY <2>1, <3>1 DEF SeatInv, UnbornAllocations
      <3>2. CASE x = r /\ k \in new
        BY <1>7, <2>1, <3>2 DEF Active
      <3> QED BY <1>0, <1>a, <2>1, <3>1, <3>2
    <2>2. \A a \in Allocations : allocation[a].state = "NONE" =>
            \A u \in Units : membership'[a][u] = "NONE"
      BY <1>8 DEF SeatInv, UnbornAllocations
    <2> QED BY <1>0, <2>1, <2>2 DEF SeatInv, UnbornAllocations, IsActive
  <1> QED BY <1>10, <1>11, <1>12, <1>13, <1>14, <1>15 DEF SeatInv

-----------------------------------------------------------------------------
(* The operator's commands.                                                *)

\* A claim stays backed while what its holder is entitled by does not change.
LEMMA ClaimStaysBacked ==
    ASSUME NEW c \in ClaimSet, ClaimIsBacked(c),
           c.type \in {"RESERVATION", "SALE"} =>
             State(c.owner)' = State(c.owner) /\ items'[c.owner] = items[c.owner],
           c.type = "ALLOCATION" =>
             Active(c.owner)' /\ membership'[c.owner][c.unit] = "ACTIVE",
           c.type = "BLOCK" => block'[c.owner].state = "ACTIVE",
           c.type = "ISSUANCE" => c.owner \in issuedFrom'
    PROVE  ClaimIsBacked(c)'
  <1>1. CASE c.type = "RESERVATION"
    BY <1>1 DEF ClaimIsBacked, IsActive
  <1>2. CASE c.type = "SALE"
    BY <1>2 DEF ClaimIsBacked
  <1>3. CASE c.type = "ALLOCATION"
    BY <1>3 DEF ClaimIsBacked
  <1>4. CASE c.type \in {"BLOCK", "ISSUANCE"}
    BY <1>4 DEF ClaimIsBacked
  <1> QED BY <1>1, <1>2, <1>3, <1>4 DEF ClaimSet

\* A new Allocation claims only free units, with an open membership for each.
LEMMA CreateAllocationStep ==
    ASSUME SeatInv, CoreTypeOK, NEW a \in Allocations, NEW t \in Targets,
           NEW channel \in Channels, NEW dest \in Sources \ {a},
           CreateAllocation(a, channel, dest, t),
           UNCHANGED <<reservation, items>>
    PROVE  SeatInv'
  <1> USE ClaimFields
  <1>0. /\ allocation[a].state = "NONE"
        /\ \A u \in t.units : \A c \in claims : c.unit # u
        /\ claims' = claims \cup {Claim(u, "ALLOCATION", a) : u \in t.units}
        /\ allocation'[a].state = "ACTIVE" /\ allocation'[a].dest = dest
        /\ \A b \in Allocations \ {a} : allocation'[b] = allocation[b]
        /\ \A u \in Units : membership'[a][u] = IF u \in t.units THEN "ACTIVE"
                                                ELSE membership[a][u]
        /\ \A b \in Allocations \ {a} : membership'[b] = membership[b]
        /\ UNCHANGED <<block, issuedFrom>>
    BY DEF CreateAllocation, Unclaimed, Free, CoreTypeOK, SeatTypeOK
  <1>1. t.units \subseteq Units
    BY TargetsAssumption
  <1>2. \A r \in Reservations : State(r)' = State(r)
    BY DEF State
  <1>3. \A u \in Units : membership[a][u] = "NONE"
    BY <1>0 DEF SeatInv, UnbornAllocations
  <1>4. OneActiveClaimPerUnit'
    BY <1>0 DEF SeatInv, OneActiveClaimPerUnit
  <1>5. ClaimsAreBacked'
    <2> SUFFICES ASSUME NEW c \in claims' PROVE ClaimIsBacked(c)'
      BY DEF ClaimsAreBacked
    <2>1. CASE c \in claims
      <3>1. ClaimIsBacked(c) /\ c \in ClaimSet
        BY <2>1 DEF SeatInv, ClaimsAreBacked, CoreTypeOK, SeatTypeOK
      <3>2. c.type = "ALLOCATION" => c.owner \in Allocations \ {a}
        BY <1>0, <3>1 DEF ClaimIsBacked, ClaimSet, Active
      <3>3. c.type \in {"RESERVATION", "SALE"} => c.owner \in Reservations
        BY <3>1 DEF ClaimSet
      <3>4. c.type = "ALLOCATION" =>
              Active(c.owner)' /\ membership'[c.owner][c.unit] = "ACTIVE"
        BY <1>0, <3>1, <3>2 DEF ClaimIsBacked, Active
      <3> QED BY <1>0, <1>2, <3>1, <3>3, <3>4, ClaimStaysBacked DEF ClaimIsBacked
    <2>2. ASSUME NEW u \in t.units, c = Claim(u, "ALLOCATION", a)
          PROVE  ClaimIsBacked(c)'
      <3>1. c.type = "ALLOCATION" /\ c.owner = a /\ c.unit = u
        BY <2>2
      <3>2. allocation'[c.owner].state = "ACTIVE" /\ membership'[c.owner][c.unit] = "ACTIVE"
        BY <1>0, <1>1, <3>1
      <3> QED BY <3>1, <3>2 DEF ClaimIsBacked, Active
    <2> QED BY <1>0, <2>1, <2>2
  <1>6. SeatsAreOwned'
    BY <1>0, <1>2 DEF SeatInv, SeatsAreOwned, IsActive
  <1>7. MembershipsAreOpen'
    <2> SUFFICES ASSUME NEW b \in Allocations, Active(b)'
                 PROVE  /\ \A u \in Units : membership'[b][u] # "RELEASED"
                        /\ \A x \in Reservations : IsActive(x)' =>
                             \A k \in items[x].seats : k.src = b => membership'[b][k.unit] = "ACTIVE"
      BY DEF MembershipsAreOpen
    <2>1. CASE b = a
      <3>1. \A x \in Reservations : IsActive(x)' => \A k \in items[x].seats : k.src # a
        BY <1>0, <1>2, NamesAssumption DEF SeatInv, UnbornAllocations, IsActive
      <3> QED BY <1>0, <1>3, <2>1, <3>1
    <2>2. CASE b # a
      BY <1>0, <1>2, <2>2 DEF SeatInv, MembershipsAreOpen, IsActive, Active
    <2> QED BY <2>1, <2>2
  <1>8. ItemsAreDistinct'
    BY DEF SeatInv, ItemsAreDistinct
  <1>9. UnbornAllocations'
    <2>1. \A b \in Allocations : allocation'[b].state = "NONE" => b # a
      BY <1>0
    <2>2. \A x \in Reservations : \A k \in items[x].seats : k.src # Shared => k.src \in Allocations
      BY DEF CoreTypeOK, ReservationTypeOK, Seat, Sources
    <2>3. issuedFrom \subseteq Allocations
      BY DEF CoreTypeOK, SeatTypeOK
    <2> QED BY <1>0, <1>2, <2>1, <2>2, <2>3 DEF SeatInv, UnbornAllocations, IsActive
  <1> QED BY <1>4, <1>5, <1>6, <1>7, <1>8, <1>9 DEF SeatInv

\* A released Allocation hands its own units to its destination, and nothing
\* that a reservation holds from it.
LEMMA ReleaseAllocationStep ==
    ASSUME SeatInv, CoreTypeOK, NEW a \in Allocations, ReleaseAllocation(a),
           UNCHANGED <<reservation, items>>
    PROVE  SeatInv'
  <1> USE ClaimFields
  <1>a. PICK dest : dest = allocation[a].dest
    OBVIOUS
  <1>0. /\ Active(a)
        /\ dest # Shared => dest \in Allocations /\ Active(dest)
        /\ dest # a
        /\ claims' = ClaimsAfterRelease(a, dest)
        /\ membership' = MembershipAfterRelease(a, dest)
        /\ allocation'[a].state = "RELEASED" /\ allocation'[a].dest = dest
        /\ \A b \in Allocations \ {a} : allocation'[b] = allocation[b]
        /\ UNCHANGED <<block, issuedFrom>>
    BY <1>a DEF ReleaseAllocation, Live, SeatInv, UnbornAllocations, Active, CoreTypeOK,
                SeatTypeOK, AllocationRow
  <1>1. \A c \in claims' :
            \/ c \in claims /\ ~(c.type = "ALLOCATION" /\ c.owner = a)
            \/ \E u \in OwnUnits(a) : c = Claim(u, "ALLOCATION", dest) /\ dest # Shared
    <2>1. \A c \in claims : c.type = "ALLOCATION" /\ c.owner = a =>
            c.unit \in OwnUnits(a) /\ c = Claim(c.unit, "ALLOCATION", a)
      BY DEF OwnUnits, CoreTypeOK, SeatTypeOK, ClaimSet
    <2> QED BY <1>0, <2>1 DEF ClaimsAfterRelease
  <1>2. /\ \A u \in OwnUnits(a) : u \in Units /\ Claim(u, "ALLOCATION", a) \in claims
        /\ \A c \in claims : c \in claims' \/ c.type = "ALLOCATION"
    BY <1>0 DEF OwnUnits, ClaimsAfterRelease
  <1>3. \A b \in Allocations \ {a}, u \in Units :
            /\ membership'[b][u] = membership[b][u] \/ (membership'[b][u] = "ACTIVE" /\ Active(b))
            /\ b = dest /\ u \in OwnUnits(a) => membership'[b][u] = "ACTIVE"
    BY <1>0, NamesAssumption DEF MembershipAfterRelease
  <1>4. \A r \in Reservations : State(r)' = State(r)
    BY DEF State
  <1>5. OneActiveClaimPerUnit'
    <2>1. ASSUME NEW c \in claims, NEW u \in OwnUnits(a), c.unit = u
          PROVE  c.type = "ALLOCATION" /\ c.owner = a
      BY <1>2, <2>1 DEF SeatInv, OneActiveClaimPerUnit
    <2> QED BY <1>1, <2>1 DEF SeatInv, OneActiveClaimPerUnit
  <1>6. ClaimsAreBacked'
    <2> SUFFICES ASSUME NEW c \in claims' PROVE ClaimIsBacked(c)'
      BY DEF ClaimsAreBacked
    <2>1. CASE c \in claims /\ ~(c.type = "ALLOCATION" /\ c.owner = a)
      <3>1. ClaimIsBacked(c) /\ c \in ClaimSet
        BY <2>1 DEF SeatInv, ClaimsAreBacked, CoreTypeOK, SeatTypeOK
      <3>2. c.type = "ALLOCATION" => c.owner \in Allocations \ {a} /\ c.unit \in Units
        BY <2>1, <3>1 DEF ClaimSet
      <3>3. c.type \in {"RESERVATION", "SALE"} => c.owner \in Reservations
        BY <3>1 DEF ClaimSet
      <3>4. c.type = "ALLOCATION" =>
              Active(c.owner)' /\ membership'[c.owner][c.unit] = "ACTIVE"
        BY <1>0, <1>3, <3>1, <3>2 DEF ClaimIsBacked, Active
      <3> QED BY <1>0, <1>4, <3>1, <3>3, <3>4, ClaimStaysBacked DEF ClaimIsBacked
    <2>2. ASSUME NEW u \in OwnUnits(a), c = Claim(u, "ALLOCATION", dest), dest # Shared
          PROVE  ClaimIsBacked(c)'
      <3>1. c.type = "ALLOCATION" /\ c.owner = dest /\ c.unit = u
        BY <2>2
      <3>2. allocation'[dest].state = "ACTIVE" /\ membership'[dest][u] = "ACTIVE"
        BY <1>0, <1>2, <1>3, <2>2 DEF Active
      <3> QED BY <3>1, <3>2 DEF ClaimIsBacked, Active
    <2> QED BY <1>1, <2>1, <2>2
  <1>7. SeatsAreOwned'
    BY <1>2, <1>4 DEF SeatInv, SeatsAreOwned, IsActive
  <1>8. MembershipsAreOpen'
    <2> SUFFICES ASSUME NEW b \in Allocations, Active(b)'
                 PROVE  /\ \A u \in Units : membership'[b][u] # "RELEASED"
                        /\ \A x \in Reservations : IsActive(x)' =>
                             \A k \in items[x].seats : k.src = b => membership'[b][k.unit] = "ACTIVE"
      BY DEF MembershipsAreOpen
    <2>1. b # a /\ Active(b)
      BY <1>0 DEF Active
    <2>2. \A x \in Reservations : \A k \in items[x].seats : k.unit \in Units
      BY DEF CoreTypeOK, ReservationTypeOK, Seat
    <2> QED BY <1>3, <1>4, <2>1, <2>2 DEF SeatInv, MembershipsAreOpen, IsActive
  <1>9. ItemsAreDistinct'
    BY DEF SeatInv, ItemsAreDistinct
  <1>10. UnbornAllocations'
    <2>1. \A b \in Allocations : allocation'[b].state = "NONE" =>
            /\ allocation[b].state = "NONE"
            /\ \A u \in Units : membership'[b][u] = "NONE"
      BY <1>0, <1>3 DEF SeatInv, UnbornAllocations, Active
    <2>2. \A b \in Allocations : allocation'[b].dest = allocation[b].dest
      BY <1>0, <1>a
    <2>3. \A x \in Reservations : \A k \in items[x].seats : k.src # Shared => k.src \in Allocations
      BY DEF CoreTypeOK, ReservationTypeOK, Seat, Sources
    <2>4. issuedFrom \subseteq Allocations
      BY DEF CoreTypeOK, SeatTypeOK
    <2>5. \A b \in Allocations : allocation'[b].state # "NONE" => allocation'[b].dest # b
      BY <1>0, <2>2 DEF SeatInv, UnbornAllocations
    <2>6. /\ \A x \in Reservations : IsActive(x)' \/ State(x)' = "CONFIRMED" =>
               \A k \in items[x].seats :
                  k.src # Shared => allocation'[k.src].state # "NONE"
          /\ \A b \in issuedFrom : allocation'[b].state # "NONE"
      BY <1>0, <1>4, <2>1, <2>3, <2>4 DEF SeatInv, UnbornAllocations, IsActive
    <2> QED BY <1>0, <2>1, <2>5, <2>6 DEF UnbornAllocations
  <1> QED BY <1>5, <1>6, <1>7, <1>8, <1>9, <1>10 DEF SeatInv

\* Issuance turns claims of an Allocation into claims of its tickets.
LEMMA IssueStep ==
    ASSUME SeatInv, CoreTypeOK, NEW a \in Allocations, NEW t \in Targets,
           IssueNonPublic(a, t), UNCHANGED <<reservation, items>>
    PROVE  SeatInv'
  <1> USE ClaimFields
  <1>0. /\ Active(a)
        /\ \A u \in t.units : Claim(u, "ALLOCATION", a) \in claims
        /\ claims' = (claims \ {Claim(u, "ALLOCATION", a) : u \in t.units})
                        \cup {Claim(u, "ISSUANCE", a) : u \in t.units}
        /\ issuedFrom' = issuedFrom \cup {a}
        /\ UNCHANGED <<allocation, membership, block>>
    BY DEF IssueNonPublic, IssuableFrom
  <1>1. \A c \in claims' : \/ c \in claims /\ \A u \in t.units : c # Claim(u, "ALLOCATION", a)
                           \/ \E u \in t.units : c = Claim(u, "ISSUANCE", a)
    BY <1>0
  <1>2. \A c \in claims : c \in claims' \/ c.type = "ALLOCATION"
    BY <1>0
  <1>3. \A r \in Reservations : State(r)' = State(r)
    BY DEF State
  <1>4. OneActiveClaimPerUnit'
    <2>1. ASSUME NEW c \in claims, NEW u \in t.units, c.unit = u
          PROVE  c = Claim(u, "ALLOCATION", a)
      BY <1>0, <2>1 DEF SeatInv, OneActiveClaimPerUnit
    <2> QED BY <1>1, <2>1 DEF SeatInv, OneActiveClaimPerUnit
  <1>5. ClaimsAreBacked'
    <2> SUFFICES ASSUME NEW c \in claims' PROVE ClaimIsBacked(c)'
      BY DEF ClaimsAreBacked
    <2>1. CASE c \in claims
      <3>1. ClaimIsBacked(c) /\ c \in ClaimSet
        BY <2>1 DEF SeatInv, ClaimsAreBacked, CoreTypeOK, SeatTypeOK
      <3>2. c.type \in {"RESERVATION", "SALE"} => c.owner \in Reservations
        BY <3>1 DEF ClaimSet
      <3>3. c.type = "ALLOCATION" =>
              Active(c.owner)' /\ membership'[c.owner][c.unit] = "ACTIVE"
        BY <1>0, <3>1 DEF ClaimIsBacked, Active
      <3> QED BY <1>0, <1>3, <3>1, <3>2, <3>3, ClaimStaysBacked DEF ClaimIsBacked
    <2>2. ASSUME NEW u \in t.units, c = Claim(u, "ISSUANCE", a)
          PROVE  ClaimIsBacked(c)'
      <3>1. c.type = "ISSUANCE" /\ c.owner = a
        BY <2>2
      <3> QED BY <1>0, <3>1 DEF ClaimIsBacked
    <2> QED BY <1>1, <2>1, <2>2
  <1>6. SeatsAreOwned'
    BY <1>2, <1>3 DEF SeatInv, SeatsAreOwned, IsActive
  <1>7. MembershipsAreOpen'
    BY <1>0, <1>3 DEF SeatInv, MembershipsAreOpen, Active, IsActive
  <1>8. ItemsAreDistinct'
    BY DEF SeatInv, ItemsAreDistinct
  <1>9. UnbornAllocations'
    BY <1>0, <1>3 DEF SeatInv, UnbornAllocations, IsActive, Active
  <1> QED BY <1>4, <1>5, <1>6, <1>7, <1>8, <1>9 DEF SeatInv

\* Claims of other kinds stay what they are.
LEMMA OtherClaimsStay ==
    ASSUME SeatInv, CoreTypeOK, NEW b \in Blocks,
           UNCHANGED <<reservation, items, allocation, membership, issuedFrom>>,
           \A x \in Blocks \ {b} : block'[x] = block[x],
           NEW c \in claims, c.type = "BLOCK" => c.owner # b \/ block'[b].state = "ACTIVE"
    PROVE  ClaimIsBacked(c)'
  <1>1. ClaimIsBacked(c) /\ c \in ClaimSet
    BY DEF SeatInv, ClaimsAreBacked, CoreTypeOK, SeatTypeOK
  <1>2. c.type \in {"RESERVATION", "SALE"} =>
          State(c.owner)' = State(c.owner) /\ items'[c.owner] = items[c.owner]
    BY DEF State
  <1>3. c.type = "ALLOCATION" =>
          Active(c.owner)' /\ membership'[c.owner][c.unit] = "ACTIVE"
    BY <1>1 DEF ClaimIsBacked, Active
  <1>4. c.type = "BLOCK" => block'[c.owner].state = "ACTIVE"
    BY <1>1 DEF ClaimIsBacked, ClaimSet
  <1>5. c.type = "ISSUANCE" => c.owner \in issuedFrom'
    BY <1>1 DEF ClaimIsBacked
  <1> QED BY <1>1, <1>2, <1>3, <1>4, <1>5, ClaimStaysBacked

\* A Block claims free units, and gives up only its own claims.
LEMMA BlockStep ==
    ASSUME SeatInv, CoreTypeOK, NEW b \in Blocks,
           ReleaseBlock(b) \/ \E t \in Targets : CreateBlock(b, t),
           UNCHANGED <<reservation, items>>
    PROVE  SeatInv'
  <1> USE ClaimFields
  <1>1. \/ /\ claims' = claims \ {Claim(u, "BLOCK", b) : u \in Units}
        \/ /\ block'[b].state = "ACTIVE"
           /\ \E t \in Targets :
                /\ \A u \in t.units : \A c \in claims : c.unit # u
                /\ claims' = claims \cup {Claim(u, "BLOCK", b) : u \in t.units}
    <2>1. CASE ReleaseBlock(b)
      BY <2>1 DEF ReleaseBlock, Unclaimed
    <2>2. CASE \E t \in Targets : CreateBlock(b, t)
      <3>1. PICK t \in Targets : CreateBlock(b, t)
        BY <2>2
      <3>2. block'[b].state = "ACTIVE"
        BY <3>1 DEF CreateBlock, CoreTypeOK, SeatTypeOK
      <3>3. /\ \A u \in t.units : \A c \in claims : c.unit # u
            /\ claims' = claims \cup {Claim(u, "BLOCK", b) : u \in t.units}
        BY <3>1 DEF CreateBlock, Unclaimed, Free
      <3> QED BY <3>2, <3>3
    <2> QED BY <2>1, <2>2
  <1>2. /\ \A x \in Blocks \ {b} : block'[x] = block[x]
        /\ UNCHANGED <<allocation, membership, issuedFrom>>
    BY DEF ReleaseBlock, CreateBlock, CoreTypeOK, SeatTypeOK
  <1>3. \A c \in claims : c \in claims' \/ c.type = "BLOCK"
    BY <1>1
  <1>4. \A r \in Reservations : State(r)' = State(r)
    BY DEF State
  <1>5. OneActiveClaimPerUnit'
    BY <1>1 DEF SeatInv, OneActiveClaimPerUnit
  <1>6. ClaimsAreBacked'
    <2> SUFFICES ASSUME NEW c \in claims' PROVE ClaimIsBacked(c)'
      BY DEF ClaimsAreBacked
    <2>1. CASE c \in claims
      <3>1. c.type = "BLOCK" => c = Claim(c.unit, "BLOCK", c.owner) /\ c.unit \in Units
        BY <2>1 DEF CoreTypeOK, SeatTypeOK, ClaimSet
      <3>2. c.type = "BLOCK" => c.owner # b \/ block'[b].state = "ACTIVE"
        BY <1>1, <2>1, <3>1
      <3> QED BY <1>2, <2>1, <3>2, OtherClaimsStay
    <2>2. ASSUME block'[b].state = "ACTIVE", NEW u, c = Claim(u, "BLOCK", b)
          PROVE  ClaimIsBacked(c)'
      <3>1. c.type = "BLOCK" /\ c.owner = b
        BY <2>2
      <3> QED BY <2>2, <3>1 DEF ClaimIsBacked
    <2> QED BY <1>1, <2>1, <2>2
  <1>7. SeatsAreOwned'
    BY <1>3, <1>4 DEF SeatInv, SeatsAreOwned, IsActive
  <1>8. MembershipsAreOpen'
    BY <1>2, <1>4 DEF SeatInv, MembershipsAreOpen, Active, IsActive
  <1>9. ItemsAreDistinct'
    BY DEF SeatInv, ItemsAreDistinct
  <1>10. UnbornAllocations'
    BY <1>2, <1>4 DEF SeatInv, UnbornAllocations, IsActive
  <1> QED BY <1>5, <1>6, <1>7, <1>8, <1>9, <1>10 DEF SeatInv

-----------------------------------------------------------------------------
(* All steps together.                                                     *)

\* Every shared step of the handlers keeps the invariant.
LEMMA SharedStepSeats ==
    ASSUME SeatInv, CoreTypeOK, CoreTypeOK', NEW r \in Reservations, SharedStep(r)
    PROVE  SeatInv'
  <1>1. IsActive(r)
    BY DEF SharedStep, InCheckout, InDoubt, ReconciliationOver, IsActive, ActiveStates
  <1>2. ASSUME NEW row, reservation' = [reservation EXCEPT ![r] = row]
        PROVE  State(r)' = row.state /\ \A q \in Reservations \ {r} : State(q)' = State(q)
    BY <1>2 DEF State, CoreTypeOK, ReservationTypeOK
  <1>3. ASSUME NEW state \in {"EXPIRED", "RELEASED"}, SetState(r, state)
        PROVE  State(r)' = state /\ \A q \in Reservations \ {r} : State(q)' = State(q)
    BY <1>3 DEF SetState, State, CoreTypeOK, ReservationTypeOK, ReservationRow
  <1>4. CASE Expire(r) \/ ReleaseItems(r)
    <2>1. /\ ReturnAllItems(r) /\ UNCHANGED items
          /\ \E state \in {"EXPIRED", "RELEASED"} : SetState(r, state)
      BY <1>4 DEF Expire, ReleaseItems
    <2>2. ~IsActive(r)' /\ ~Settled(r)'
      BY <1>3, <2>1 DEF IsActive, Settled, ActiveStates
    <2> QED BY <1>1, <1>3, <2>1, <2>2, EndStep
  <1>5. ASSUME NEW n \in Numbers, ExpireUnreconciled(r, n) \/ FailAndRelease(r, n)
        PROVE  SeatInv'
    <2>1. ReturnAllItems(r) /\ UNCHANGED items
      BY <1>5 DEF ExpireUnreconciled, FailAndRelease
    <2>2. /\ State(r)' \in {"EXPIRED", "RELEASED"}
          /\ \A q \in Reservations \ {r} : State(q)' = State(q)
      <3>1. \A row \in ReservationRow : \A state : [row EXCEPT !.state = state].state = state
        BY DEF ReservationRow
      <3>2. ReconcilingRow(r) \in ReservationRow /\ RetryRow(r) \in ReservationRow
        BY RowTypes DEF CoreTypeOK
      <3>3. CASE ExpireUnreconciled(r, n)
        BY <1>2, <3>1, <3>2, <3>3 DEF ExpireUnreconciled
      <3>4. CASE FailAndRelease(r, n)
        <4>1. PICK state \in {"EXPIRED", "RELEASED"} :
                reservation' = [reservation EXCEPT ![r] = [RetryRow(r) EXCEPT !.state = state]]
          BY <3>4 DEF FailAndRelease
        <4> QED BY <1>2, <3>1, <3>2, <4>1
      <3> QED BY <1>5, <3>3, <3>4
    <2>3. ~IsActive(r)' /\ ~Settled(r)'
      BY <2>2 DEF IsActive, Settled, ActiveStates
    <2> QED BY <1>1, <2>1, <2>2, <2>3, EndStep
  <1>6. ASSUME NEW n \in Numbers, Sell(r, n)
        PROVE  SeatInv'
    BY <1>1, <1>6, SellStep
  <1>7. ASSUME NEW n \in Numbers, StartAttempt(r, n) \/ Reconcile(r, n) \/ FailToRetry(r, n)
        PROVE  SeatInv'
    <2>1. UNCHANGED <<claims, allocation, membership, block, issuedFrom, items>>
      BY <1>7 DEF StartAttempt, Reconcile, FailToRetry, inventoryVars
    <2>2. /\ State(r)' \in ActiveStates
          /\ \A q \in Reservations \ {r} : State(q)' = State(q)
      <3>1. /\ WithoutDeadlines(r, "COMMITTING").state = "COMMITTING"
            /\ ReconcilingRow(r).state = "RECONCILING"
            /\ RetryRow(r).state = "PAYMENT_RETRY"
        BY DEF WithoutDeadlines, ReconcilingRow, RetryRow, CoreTypeOK, ReservationTypeOK,
               ReservationRow
      <3>2. CASE StartAttempt(r, n)
        BY <1>2, <3>1, <3>2 DEF StartAttempt, ActiveStates
      <3>3. CASE Reconcile(r, n)
        BY <1>2, <3>1, <3>3 DEF Reconcile, ActiveStates
      <3>4. CASE FailToRetry(r, n)
        BY <1>2, <3>1, <3>4 DEF FailToRetry, ActiveStates
      <3> QED BY <1>7, <3>2, <3>3, <3>4
    <2>3. \A q \in Reservations : (IsActive(q)' <=> IsActive(q)) /\ (Settled(q)' <=> Settled(q))
      BY <1>1, <2>2 DEF IsActive, Settled, ActiveStates
    <2> QED BY <2>1, <2>3, QuietStep
  <1> QED BY <1>4, <1>5, <1>6, <1>7 DEF SharedStep

\* Every command of the operator keeps the invariant.
LEMMA OperatorSeats ==
    ASSUME SeatInv, CoreTypeOK, CoreTypeOK', Operator
    PROVE  SeatInv'
  <1>0. UNCHANGED <<reservation, items>>
    BY DEF Operator
  <1>1. \A r \in Reservations : (IsActive(r)' <=> IsActive(r)) /\ (Settled(r)' <=> Settled(r))
    BY <1>0 DEF IsActive, Settled, State
  <1>2. CASE SalesNext /\ UNCHANGED inventoryVars
    BY <1>0, <1>1, <1>2, QuietStep DEF inventoryVars
  <1>3. CASE RestrictionsNext
    <2>1. ASSUME NEW p \in Pools, NEW capacity \in Capacities, SetGACapacity(p, capacity)
          PROVE  SeatInv'
      BY <1>0, <1>1, <2>1, QuietStep DEF SetGACapacity
    <2> QED BY <1>0, <1>3, <2>1, CreateAllocationStep, ReleaseAllocationStep, IssueStep,
               BlockStep DEF RestrictionsNext
  <1>4. ASSUME NEW a \in Allocations, NEW channel \in Channels,
               ReclassifyAllocation(a, channel)
        PROVE  SeatInv'
    <2>1. \A b \in Allocations : /\ allocation'[b].state = allocation[b].state
                                 /\ allocation'[b].dest = allocation[b].dest
      BY <1>4 DEF ReclassifyAllocation, CoreTypeOK, SeatTypeOK, AllocationRow
    <2> QED BY <1>0, <1>1, <1>4, <2>1, QuietStep DEF ReclassifyAllocation
  <1> QED BY <1>2, <1>3, <1>4 DEF Operator

\* Nothing is claimed initially.
LEMMA InitSeats == Init => SeatInv
  BY DEF Init, InventoryInit, SeatInv, OneActiveClaimPerUnit, ClaimsAreBacked, SeatsAreOwned,
         MembershipsAreOpen, ItemsAreDistinct, UnbornAllocations, NoItems, NoAllocation

\* Every step keeps the invariant, given types before and after.
LEMMA StepSeats == SeatInv /\ CoreTypeOK /\ CoreTypeOK' /\ [Next]_vars => SeatInv'
  <1> SUFFICES ASSUME SeatInv, CoreTypeOK, CoreTypeOK', [Next]_vars PROVE SeatInv'
    OBVIOUS
  <1>1. CASE Tick \/ UNCHANGED vars
    <2>1. UNCHANGED <<claims, allocation, membership, block, issuedFrom, items, reservation>>
      BY <1>1 DEF Tick, vars, inventoryVars
    <2>2. \A r \in Reservations : (IsActive(r)' <=> IsActive(r)) /\ (Settled(r)' <=> Settled(r))
      BY <2>1 DEF IsActive, Settled, State
    <2> QED BY <2>1, <2>2, QuietStep
  <1>2. CASE Operator
    BY <1>2, OperatorSeats
  <1>3. ASSUME NEW r \in Reservations, SharedStep(r)
        PROVE  SeatInv'
    BY <1>3, SharedStepSeats
  <1>4. ASSUME NEW r \in Reservations, NEW q \in Orders, Create(r, q)
        PROVE  SeatInv'
    BY <1>4, CreateStep
  <1>5. ASSUME NEW r \in Reservations, NEW q \in Orders, Modify(r, q)
        PROVE  SeatInv'
    <2>1. CASE Expire(r)
      BY <1>5, <2>1, <1>3 DEF Modify, Modifiable, SharedStep
    <2>2. CASE ~Expire(r)
      <3>1. /\ ChangeItems(r, q) /\ IsActive(r)
            /\ UNCHANGED <<reservation, allocation, block, issuedFrom>>
        BY <1>5, <2>2 DEF Modify, Modifiable, IsActive, ActiveStates
      <3> QED BY <3>1, ChangeStep
    <2> QED BY <2>1, <2>2
  <1> QED BY <1>1, <1>2, <1>3, <1>4, <1>5, HandlerSteps DEF Next, Materialize

\* The invariant holds of every reachable state: it needs the types, which
\* TypeCorrect gives before and after each step.
THEOREM SeatsInvariant == Spec => []SeatInv
  BY TypeCorrect, InitSeats, StepSeats, PTL DEF Spec

\* No order of commands, deadlines and releases leaves a unit with two active
\* claims: the schema's unique index is never what prevents a double sale.
THEOREM NoDoubleClaim == Spec => []OneActiveClaimPerUnit
  BY SeatsInvariant, PTL DEF SeatInv

\* Every active claim is one its holder is entitled to, for as long as it is
\* active, and not only when the trigger looked at it.
THEOREM EveryClaimIsBacked == Spec => []ClaimsAreBacked
  BY SeatsInvariant, PTL DEF SeatInv

\* A reservation never loses part of what it lists before it ends, and a sale
\* is a sale of all of it.
THEOREM EverySeatIsOwned == Spec => []SeatsAreOwned
  BY SeatsInvariant, PTL DEF SeatInv

\* A seat reserved through an ACTIVE Allocation can always come back to it.
THEOREM EveryMembershipIsOpen == Spec => []MembershipsAreOpen
  BY SeatsInvariant, PTL DEF SeatInv

-----------------------------------------------------------------------------
(* Channels, and the abstract ledger.                                      *)

\* A reservation that is not over: active, or sold.
Standing(r) == IsActive(r) \/ Settled(r)

\* A hold that is modified, and does not expire instead.
Changed(r, q) ==
    /\ State(r) = "HELD" /\ ChangeItems(r, q)
    /\ UNCHANGED <<reservation, allocation, block, issuedFrom>>

\* The shared steps write neither items nor Allocations.
LEMMA SharedStepKeeps ==
    ASSUME NEW r \in Reservations, SharedStep(r)
    PROVE  UNCHANGED <<items, allocation, issuedFrom>>
  <1> DEFINE Kept == UNCHANGED <<items, allocation, issuedFrom>>
  <1>1. Expire(r) \/ ReleaseItems(r) => Kept
    BY DEF Expire, ReleaseItems, ReturnAllItems
  <1>2. ASSUME NEW n \in Numbers
        PROVE  /\ StartAttempt(r, n) => Kept
               /\ Reconcile(r, n) => Kept
               /\ ExpireUnreconciled(r, n) => Kept
               /\ FailAndRelease(r, n) => Kept
               /\ FailToRetry(r, n) => Kept
               /\ Sell(r, n) => Kept
    BY DEF StartAttempt, Reconcile, ExpireUnreconciled, FailAndRelease, FailToRetry, Sell,
           ReturnAllItems, inventoryVars
  <1> HIDE DEF Kept
  <1>3. Kept
    BY <1>1, <1>2 DEF SharedStep
  <1> QED BY <1>3 DEF Kept

\* Every step, by what it does to items and Allocations.
LEMMA ItemSteps ==
    ASSUME [Next]_vars
    PROVE  \/ \E r \in Reservations : SharedStep(r)
           \/ \E r \in Reservations, q \in Orders : Create(r, q)
           \/ \E r \in Reservations, q \in Orders : Changed(r, q)
           \/ Operator
           \/ UNCHANGED <<reservation, items, allocation, issuedFrom>>
  <1>1. ASSUME NEW r \in Reservations, NEW q \in Orders, Modify(r, q)
        PROVE  SharedStep(r) \/ Changed(r, q)
    BY <1>1 DEF Modify, Modifiable, SharedStep, Changed
  <1>2. CASE Tick \/ UNCHANGED vars
    BY <1>2 DEF Tick, vars, inventoryVars
  <1> QED BY <1>1, <1>2, HandlerSteps DEF Next, Materialize

\* What a shared step does to the reservation it is about.
LEMMA SharedStepStands ==
    ASSUME CoreTypeOK, CheckoutInv, NEW r \in Reservations, SharedStep(r)
    PROVE  /\ IsActive(r) /\ CheckoutMove(r)
           /\ \A o \in Reservations \ {r} : State(o)' = State(o)
  <1>1. CheckoutMove(r) /\ OthersKeep(r)
    BY SharedStepMoves DEF CoreTypeOK
  <1> QED BY <1>1 DEF CheckoutMove, OthersKeep, State, IsActive, ActiveStates, InCheckout, InDoubt

\* Operator commands change no reservation, and the channel of an Allocation
\* only while it does not exist or is Untouched.
LEMMA OperatorChannels ==
    ASSUME CoreTypeOK, Operator
    PROVE  /\ UNCHANGED <<reservation, items>>
           /\ \A a \in Allocations :
                \/ allocation'[a].channel = allocation[a].channel
                \/ allocation[a].state = "NONE"
                \/ Untouched(a)
           /\ \A a \in issuedFrom' :
                a \in issuedFrom \/ (allocation[a].channel = NonPublic /\ allocation' = allocation)
           /\ issuedFrom' = issuedFrom \/ allocation' = allocation
  <1>1. UNCHANGED <<reservation, items>>
    BY DEF Operator
  <1>2. allocation \in [Allocations -> AllocationRow]
    BY DEF CoreTypeOK, SeatTypeOK
  <1>3. CASE SalesNext /\ UNCHANGED inventoryVars
    BY <1>1, <1>3 DEF inventoryVars
  <1>4. ASSUME NEW a \in Allocations, NEW t \in Targets, NEW channel \in Channels,
               NEW dest \in Sources \ {a}, CreateAllocation(a, channel, dest, t)
        PROVE  /\ allocation[a].state = "NONE" /\ issuedFrom' = issuedFrom
               /\ \A b \in Allocations \ {a} : allocation'[b] = allocation[b]
    BY <1>2, <1>4 DEF CreateAllocation
  <1>5. ASSUME NEW a \in Allocations, NEW t \in Targets, IssueNonPublic(a, t)
        PROVE  /\ allocation' = allocation /\ issuedFrom' = issuedFrom \cup {a}
               /\ allocation[a].channel = NonPublic
    BY <1>5 DEF IssueNonPublic
  <1>6. ASSUME NEW a \in Allocations, ReleaseAllocation(a)
        PROVE  /\ issuedFrom' = issuedFrom
               /\ \A b \in Allocations : allocation'[b].channel = allocation[b].channel
    BY <1>2, <1>6 DEF ReleaseAllocation, AllocationRow
  <1>7. ASSUME NEW b \in Blocks, ReleaseBlock(b) \/ \E t \in Targets : CreateBlock(b, t)
        PROVE  allocation' = allocation /\ issuedFrom' = issuedFrom
    BY <1>7 DEF CreateBlock, ReleaseBlock
  <1>8. ASSUME NEW p \in Pools, NEW capacity \in Capacities, SetGACapacity(p, capacity)
        PROVE  allocation' = allocation /\ issuedFrom' = issuedFrom
    BY <1>8 DEF SetGACapacity
  <1>9. ASSUME NEW a \in Allocations, NEW channel \in Channels, ReclassifyAllocation(a, channel)
        PROVE  /\ Untouched(a) /\ issuedFrom' = issuedFrom
               /\ \A b \in Allocations \ {a} : allocation'[b] = allocation[b]
    BY <1>2, <1>9 DEF ReclassifyAllocation
  <1>10. ASSUME RestrictionsNext
         PROVE  \/ \E a \in Allocations, t \in Targets :
                     \/ \E channel \in Channels, dest \in Sources \ {a} :
                          CreateAllocation(a, channel, dest, t)
                     \/ IssueNonPublic(a, t)
                \/ \E a \in Allocations : ReleaseAllocation(a)
                \/ \E b \in Blocks : ReleaseBlock(b) \/ \E t \in Targets : CreateBlock(b, t)
                \/ \E p \in Pools, capacity \in Capacities : SetGACapacity(p, capacity)
    BY <1>10 DEF RestrictionsNext
  <1> QED BY <1>1, <1>3, <1>4, <1>5, <1>6, <1>7, <1>8, <1>9, <1>10 DEF Operator

\* Everything is taken through the channel its Allocation has now.
LEMMA StepChannels ==
    CoreTypeOK /\ CheckoutInv /\ SeatInv /\ TakenThroughChannel /\ [Next]_vars
        => TakenThroughChannel'
  <1> SUFFICES ASSUME CoreTypeOK, CheckoutInv, SeatInv, TakenThroughChannel, [Next]_vars
               PROVE  TakenThroughChannel'
    OBVIOUS
  <1> DEFINE Through(k, r) == k.src # Shared => allocation[k.src].channel = PartnerOf[r]
  <1>1. \A r \in Reservations : Standing(r) => \A k \in items[r].seats : Through(k, r)
    BY DEF TakenThroughChannel, Standing, Settled
  <1>2. \A a \in issuedFrom : allocation[a].channel = NonPublic
    BY DEF TakenThroughChannel
  <1>3. SUFFICES /\ \A r \in Reservations : Standing(r)' =>
                      \A k \in items'[r].seats : Through(k, r)'
                 /\ \A a \in issuedFrom' : allocation'[a].channel = NonPublic
    BY DEF TakenThroughChannel, Standing, Settled
  <1>4. ASSUME UNCHANGED <<items, allocation, issuedFrom>>,
               \A r \in Reservations : Standing(r)' => Standing(r)
        PROVE  /\ \A r \in Reservations : Standing(r)' =>
                    \A k \in items'[r].seats : Through(k, r)'
               /\ \A a \in issuedFrom' : allocation'[a].channel = NonPublic
    BY <1>1, <1>2, <1>4
  <1>5. ASSUME NEW r \in Reservations, SharedStep(r)
        PROVE  \A o \in Reservations : Standing(o)' => Standing(o)
    BY <1>5, SharedStepStands DEF Standing, Settled, IsActive
  <1>6. CASE UNCHANGED <<reservation, items, allocation, issuedFrom>>
    BY <1>4, <1>6 DEF Standing, Settled, IsActive, State
  <1>7. ASSUME NEW r \in Reservations, NEW q \in Orders, Create(r, q)
        PROVE  /\ \A o \in Reservations : Standing(o)' =>
                    \A k \in items'[o].seats : Through(k, o)'
               /\ \A a \in issuedFrom' : allocation'[a].channel = NonPublic
    <2>1. /\ allocation' = allocation /\ issuedFrom' = issuedFrom
          /\ Eligible(PartnerOf[r], q.seats, q.places)
          /\ items'[r] = q
          /\ \A o \in Reservations \ {r} : items'[o] = items[o]
      BY <1>7 DEF Create, CoreTypeOK, ReservationTypeOK
    <2>2. \A o \in Reservations \ {r} : State(o)' = State(o)
      BY <1>7, CreateEffect DEF CoreTypeOK, State
    <2>3. \A k \in items'[r].seats : Through(k, r)'
      BY <2>1 DEF Eligible, DrawsOn
    <2>4. ASSUME NEW o \in Reservations, o # r, Standing(o)', NEW k \in items'[o].seats
          PROVE  Through(k, o)'
      BY <1>1, <2>1, <2>2, <2>4 DEF Standing, Settled, IsActive
    <2> HIDE DEF Through
    <2> QED BY <1>2, <2>1, <2>3, <2>4
  <1>8. ASSUME NEW r \in Reservations, NEW q \in Orders, Changed(r, q)
        PROVE  /\ \A o \in Reservations : Standing(o)' =>
                    \A k \in items'[o].seats : Through(k, o)'
               /\ \A a \in issuedFrom' : allocation'[a].channel = NonPublic
    <2>1. /\ allocation' = allocation /\ issuedFrom' = issuedFrom /\ reservation' = reservation
          /\ ChangeItems(r, q) /\ State(r) = "HELD"
      BY <1>8 DEF Changed
    <2>2. Eligible(PartnerOf[r], q.seats \ items[r].seats, Excess(q.places, items[r].places))
      BY <2>1 DEF ChangeItems
    <2>3. /\ items'[r] = q
          /\ \A o \in Reservations \ {r} : items'[o] = items[o]
      BY <2>1 DEF ChangeItems, CoreTypeOK, ReservationTypeOK
    <2>4. Standing(r)
      BY <2>1 DEF Standing, IsActive, ActiveStates
    <2>5. \A k \in q.seats : Through(k, r)
      BY <1>1, <2>2, <2>4 DEF Eligible, DrawsOn
    <2>6. \A k \in items'[r].seats : Through(k, r)'
      BY <2>1, <2>3, <2>5
    <2>7. ASSUME NEW o \in Reservations, o # r, Standing(o)', NEW k \in items'[o].seats
          PROVE  Through(k, o)'
      BY <1>1, <2>1, <2>3, <2>7 DEF Standing, Settled, IsActive, State
    <2> HIDE DEF Through
    <2> QED BY <1>2, <2>1, <2>6, <2>7
  <1>9. ASSUME Operator
        PROVE  /\ \A o \in Reservations : Standing(o)' =>
                    \A k \in items'[o].seats : Through(k, o)'
               /\ \A a \in issuedFrom' : allocation'[a].channel = NonPublic
    <2>1. ASSUME NEW o \in Reservations, Standing(o)', NEW k \in items'[o].seats, k.src # Shared
          PROVE  allocation'[k.src].channel = PartnerOf[o]
      <3>1. Standing(o) /\ k \in items[o].seats
        BY <1>9, <2>1, OperatorChannels DEF Standing, Settled, IsActive, State
      <3>2. allocation[k.src].state # "NONE" /\ allocation[k.src].channel = PartnerOf[o]
        BY <1>1, <2>1, <3>1 DEF SeatInv, UnbornAllocations, Standing, Settled
      <3>3. k.src \in Allocations
        BY <2>1, <3>1 DEF CoreTypeOK, ReservationTypeOK, Seat, Sources
      <3>4. ~Untouched(k.src)
        BY <3>1 DEF Untouched, Standing, Settled, IsActive
      <3> QED BY <1>9, <3>2, <3>3, <3>4, OperatorChannels
    <2>2. ASSUME NEW a \in issuedFrom'
          PROVE  allocation'[a].channel = NonPublic
      <3>1. CASE a \in issuedFrom
        <4>1. a \in Allocations /\ allocation[a].state # "NONE" /\ ~Untouched(a)
          BY <3>1 DEF SeatInv, UnbornAllocations, CoreTypeOK, SeatTypeOK, Untouched
        <4> QED BY <1>2, <1>9, <3>1, <4>1, OperatorChannels
      <3>2. CASE a \notin issuedFrom
        BY <1>9, <3>2, OperatorChannels
      <3> QED BY <3>1, <3>2
    <2> QED BY <2>1, <2>2
  <1> HIDE DEF Through
  <1> QED BY <1>4, <1>5, <1>6, <1>7, <1>8, <1>9, ItemSteps, SharedStepKeeps

\* No reclassification, and no reuse of an Allocation, slips under seats that a
\* reservation holds or bought, or under tickets that were issued.
THEOREM TakenThroughOwnChannel == Spec => []TakenThroughChannel
  <1>1. Init => TakenThroughChannel
    BY DEF Init, InventoryInit, TakenThroughChannel, NoItems
  <1> QED BY <1>1, StepChannels, TypeCorrect, CheckoutsInvariant, SeatsInvariant, PTL DEF Spec

-----------------------------------------------------------------------------
(* The seats as the ledger sees them.                                      *)

\* What a reservation holds by its row and its items.
HeldByRow(r) == IF Standing(r) THEN {k.unit : k \in items[r].seats} ELSE {}

\* The claims table and the rows agree on what a reservation holds, and no
\* seat is held by two.
LedgerAgrees ==
    \A r \in Reservations :
        /\ LedgerHeld(r) = HeldByRow(r)
        /\ \A o \in Reservations \ {r} : LedgerHeld(r) \cap LedgerHeld(o) = {}

\* They do in every state of the invariant of SeatProofs.
LEMMA LedgerAgreement == CoreTypeOK /\ SeatInv => LedgerAgrees
  <1> SUFFICES ASSUME CoreTypeOK, SeatInv, NEW r \in Reservations
               PROVE  /\ LedgerHeld(r) = HeldByRow(r)
                      /\ \A o \in Reservations \ {r} : LedgerHeld(r) \cap LedgerHeld(o) = {}
    BY DEF LedgerAgrees
  <1>1. ASSUME NEW u \in LedgerHeld(r) PROVE u \in HeldByRow(r)
    <2>1. PICK c \in claims : c.unit = u /\ c.owner = r /\ c.type \in {"RESERVATION", "SALE"}
      BY ClaimFields DEF LedgerHeld
    <2>2. ClaimIsBacked(c)
      BY DEF SeatInv, ClaimsAreBacked
    <2>3. Standing(r) /\ \E k \in items[r].seats : k.unit = u
      BY <2>1, <2>2 DEF ClaimIsBacked, Standing, Settled
    <2> QED BY <2>3 DEF HeldByRow
  <1>2. ASSUME NEW u \in HeldByRow(r) PROVE u \in LedgerHeld(r)
    <2>1. PICK k \in items[r].seats : k.unit = u /\ Standing(r)
      BY DEF HeldByRow
    <2>2. u \in Units
      BY <2>1 DEF CoreTypeOK, ReservationTypeOK, Seat
    <2>3. Claim(u, "RESERVATION", r) \in claims \/ Claim(u, "SALE", r) \in claims
      BY <2>1 DEF SeatInv, SeatsAreOwned, Standing, Settled
    <2> QED BY <2>2, <2>3 DEF LedgerHeld
  <1>3. ASSUME NEW o \in Reservations \ {r}, NEW u \in LedgerHeld(r), u \in LedgerHeld(o)
        PROVE  FALSE
    <2>1. PICK c, d \in claims : c.unit = u /\ c.owner = r /\ d.unit = u /\ d.owner = o
      BY <1>3, ClaimFields DEF LedgerHeld
    <2> QED BY <2>1 DEF SeatInv, OneActiveClaimPerUnit
  <1> QED BY <1>1, <1>2, <1>3

\* A reservation keeps what it holds while its row and its items say the same.
LEMMA HeldStays ==
    ASSUME LedgerAgrees, LedgerAgrees', NEW r \in Reservations,
           Standing(r)' <=> Standing(r), items'[r].seats = items[r].seats
    PROVE  LedgerHeld(r)' = LedgerHeld(r)
  BY DEF LedgerAgrees, HeldByRow

Phases == [r \in Reservations |-> LedgerPhase(State(r))]
Holdings == [r \in Reservations |-> LedgerHeld(r)]

\* The reservations other than r, as the ledger sees them, do not change.
OthersRest(r) ==
    \A o \in Reservations \ {r} : State(o)' = State(o) /\ LedgerHeld(o)' = LedgerHeld(o)

\* What the ledger sees of a step that is about one reservation.
LEMMA LedgerSees ==
    ASSUME NEW r \in Reservations, OthersRest(r)
    PROVE  /\ Phases' = [Phases EXCEPT ![r] = LedgerPhase(State(r)')]
           /\ Holdings' = [Holdings EXCEPT ![r] = LedgerHeld(r)']
  BY DEF OthersRest, Phases, Holdings

\* Such a step moves the phase of r ...
LEMMA LedgerMoves ==
    ASSUME NEW r \in Reservations, OthersRest(r), NEW from, NEW to,
           LedgerPhase(State(r)) \in from, LedgerPhase(State(r)') = to
    PROVE  Ledger!Move(r, from, to)
  BY LedgerSees DEF Ledger!Move, Phases

\* ... and what r holds after it, the ledger lets it hold.
LEMMA LedgerHolds ==
    ASSUME LedgerAgrees', NEW r \in Reservations, OthersRest(r)
    PROVE  /\ LedgerHeld(r)' \in SUBSET Units
           /\ Ledger!Hold(r, LedgerHeld(r)')
  <1>1. LedgerHeld(r)' \cap UNION {Holdings[o] : o \in Reservations \ {r}} = {}
    <2>1. \A o \in Reservations \ {r} : LedgerHeld(r)' \cap LedgerHeld(o)' = {}
      BY DEF LedgerAgrees
    <2> QED BY <2>1 DEF Holdings, OthersRest
  <1>2. LedgerHeld(r)' \in SUBSET Units
    BY DEF LedgerHeld
  <1> QED BY <1>1, <1>2, LedgerSees DEF Ledger!Hold, Ledger!HeldElsewhere, Holdings

LedgerStep == [Ledger!Next]_<<Phases, Holdings>>

\* A shared step protects, reopens, sells or closes, or is no step.
LEMMA SharedLedger ==
    ASSUME CoreTypeOK, CheckoutInv, LedgerAgrees, LedgerAgrees', NEW r \in Reservations,
           SharedStep(r)
    PROVE  LedgerStep
  <1>1. /\ IsActive(r) /\ CheckoutMove(r) /\ items' = items
        /\ \A o \in Reservations \ {r} : State(o)' = State(o)
    BY SharedStepStands, SharedStepKeeps
  <1>2. OthersRest(r)
    BY <1>1, HeldStays DEF OthersRest, Standing, Settled, IsActive
  <1>3. Standing(r)' => LedgerHeld(r)' = LedgerHeld(r) /\ Holdings' = Holdings
    <2> SUFFICES ASSUME Standing(r)' PROVE LedgerHeld(r)' = LedgerHeld(r) /\ Holdings' = Holdings
      OBVIOUS
    <2>1. LedgerHeld(r)' = LedgerHeld(r)
      BY <1>1, HeldStays DEF Standing
    <2> QED BY <1>2, <2>1 DEF OthersRest, Holdings
  <1>4. CASE State(r)' \in {"RELEASED", "EXPIRED"}
    <2>1. Ledger!Move(r, {"open", "protected"}, "closed")
      BY <1>1, <1>2, <1>4, LedgerMoves DEF LedgerPhase, IsActive, ActiveStates
    <2>2. LedgerHeld(r)' = {}
      BY <1>4 DEF LedgerAgrees, HeldByRow, Standing, Settled, IsActive, ActiveStates
    <2>3. Ledger!Hold(r, {})
      BY <1>2, <2>2, LedgerHolds
    <2> QED BY <2>1, <2>3 DEF LedgerStep, Ledger!Next, Ledger!Close
  <1>5. CASE State(r) \in {"HELD", "PAYMENT_RETRY"} /\ State(r)' = "COMMITTING"
    <2>1. Ledger!Move(r, {"open"}, "protected")
      BY <1>2, <1>5, LedgerMoves DEF LedgerPhase
    <2>2. Holdings' = Holdings
      BY <1>3, <1>5 DEF Standing, IsActive, ActiveStates
    <2> QED BY <2>1, <2>2 DEF LedgerStep, Ledger!Next, Ledger!Protect, Holdings
  <1>6. CASE State(r) = "COMMITTING" /\ State(r)' = "RECONCILING"
    <2>1. Holdings' = Holdings
      BY <1>3, <1>6 DEF Standing, IsActive, ActiveStates
    <2>2. LedgerPhase(State(r)') = LedgerPhase(State(r))
      BY <1>6 DEF LedgerPhase
    <2>3. Phases' = Phases
      BY <1>2, <2>2, LedgerSees DEF Phases
    <2> QED BY <2>1, <2>3 DEF LedgerStep
  <1>7. CASE State(r) \in {"COMMITTING", "RECONCILING"} /\ State(r)' = "PAYMENT_RETRY"
    <2>1. Ledger!Move(r, {"protected"}, "open")
      BY <1>2, <1>7, LedgerMoves DEF LedgerPhase
    <2>2. Holdings' = Holdings
      BY <1>3, <1>7 DEF Standing, IsActive, ActiveStates
    <2> QED BY <2>1, <2>2 DEF LedgerStep, Ledger!Next, Ledger!Reopen, Holdings
  <1>8. CASE State(r) \in {"COMMITTING", "RECONCILING"} /\ State(r)' = "CONFIRMED"
    <2>1. Ledger!Move(r, {"protected"}, "sold")
      BY <1>2, <1>8, LedgerMoves DEF LedgerPhase
    <2>2. Holdings' = Holdings
      BY <1>3, <1>8 DEF Standing, Settled
    <2> QED BY <2>1, <2>2 DEF LedgerStep, Ledger!Next, Ledger!Sell, Holdings
  <1> QED BY <1>1, <1>4, <1>5, <1>6, <1>7, <1>8 DEF CheckoutMove, InCheckout, InDoubt

\* Every step is a step of the ledger or none.
LEMMA StepLedger ==
    CoreTypeOK /\ CheckoutInv /\ LedgerAgrees /\ LedgerAgrees' /\ [Next]_vars => LedgerStep
  <1> SUFFICES ASSUME CoreTypeOK, CheckoutInv, LedgerAgrees, LedgerAgrees', [Next]_vars
               PROVE  LedgerStep
    OBVIOUS
  <1>1. ASSUME NEW r \in Reservations, NEW q \in Orders, Create(r, q)
        PROVE  LedgerStep
    <2>1. /\ State(r) = "NONE" /\ State(r)' = "HELD"
          /\ \A o \in Reservations \ {r} : State(o)' = State(o) /\ items'[o] = items[o]
      BY <1>1, CreateEffect DEF Create, CoreTypeOK, ReservationTypeOK, State
    <2>2. OthersRest(r)
      BY <2>1, HeldStays DEF OthersRest, Standing, Settled, IsActive
    <2>3. Ledger!Move(r, {"none"}, "open")
      BY <2>1, <2>2, LedgerMoves DEF LedgerPhase
    <2> QED BY <2>2, <2>3, LedgerHolds DEF LedgerStep, Ledger!Next, Ledger!Open
  <1>2. ASSUME NEW r \in Reservations, NEW q \in Orders, Changed(r, q)
        PROVE  LedgerStep
    <2>1. /\ State(r) = "HELD" /\ State(r)' = "HELD"
          /\ \A o \in Reservations \ {r} : State(o)' = State(o) /\ items'[o] = items[o]
      BY <1>2 DEF Changed, ChangeItems, CoreTypeOK, ReservationTypeOK, State
    <2>2. OthersRest(r)
      BY <2>1, HeldStays DEF OthersRest, Standing, Settled, IsActive
    <2>3. Ledger!Move(r, {"open"}, "open")
      BY <2>1, <2>2, LedgerMoves DEF LedgerPhase
    <2> QED BY <2>2, <2>3, LedgerHolds DEF LedgerStep, Ledger!Next, Ledger!Change
  <1>3. CASE UNCHANGED <<reservation, items>>
    <2>1. \A r \in Reservations : State(r)' = State(r) /\ LedgerHeld(r)' = LedgerHeld(r)
      BY <1>3, HeldStays DEF State, Standing, Settled, IsActive
    <2> QED BY <2>1 DEF LedgerStep, Phases, Holdings
  <1> QED BY <1>1, <1>2, <1>3, SharedLedger, ItemSteps DEF Operator

\* The reservation authority implements SeatLedger: initial states map to
\* initial states, and every handler, worker run and operator command to one
\* step of the ledger or none.
THEOREM AuthorityKeepsTheLedger == Spec => ImplementsLedger
  <1>1. Init => Ledger!Init
    BY DEF Init, InventoryInit, NoReservation, State, Ledger!Init, LedgerPhase, LedgerHeld
  <1>2. CoreTypeOK /\ CheckoutInv /\ LedgerAgrees /\ LedgerAgrees' /\ [Next]_vars
          => [Ledger!Next]_<<Phases, Holdings>>
    BY StepLedger DEF LedgerStep
  <1> QED BY <1>1, <1>2, LedgerAgreement, TypeCorrect, CheckoutsInvariant, SeatsInvariant, PTL
          DEF Spec, ImplementsLedger, Ledger!Spec, Phases, Holdings
=============================================================================
