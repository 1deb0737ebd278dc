----------------------- MODULE ReservationProperties ------------------------
(***************************************************************************)
(* What the reservation authority promises.                                *)
(***************************************************************************)
EXTENDS Reservation

-----------------------------------------------------------------------------
(* Reserved units.                                                         *)

\* A unit never has two active claims, so it is never held, sold, blocked or
\* allocated twice, whatever the order of the commands; the unique index
\* reserved_inventory_one_active_claim_uq never refuses a write.
OneActiveClaimPerUnit == \A c, d \in claims : c.unit = d.unit => c = d

\* The holder of a claim is entitled to it: the rule of the trigger
\* ct_validate_reserved_claim, which only looks at a claim when it is
\* written, holds for the whole life of the claim.
ClaimIsBacked(c) ==
    CASE c.type = "RESERVATION" ->
            IsActive(c.owner) /\ \E k \in items[c.owner].seats : k.unit = c.unit
      [] c.type = "SALE" ->
            State(c.owner) = "CONFIRMED" /\ \E k \in items[c.owner].seats : k.unit = c.unit
      [] c.type = "ALLOCATION" ->
            Active(c.owner) /\ membership[c.owner][c.unit] = "ACTIVE"
      [] c.type = "BLOCK" -> block[c.owner].state = "ACTIVE"
      [] c.type = "ISSUANCE" -> c.owner \in issuedFrom

ClaimsAreBacked == \A c \in claims : ClaimIsBacked(c)

\* An active reservation owns every seat it lists, through all its checkouts,
\* and a confirmed one has sold every seat it lists: never part of them.
SeatsAreOwned ==
    \A r \in Reservations : \A k \in items[r].seats :
        /\ IsActive(r) => Claim(k.unit, "RESERVATION", r) \in claims
        /\ State(r) = "CONFIRMED" => Claim(k.unit, "SALE", r) \in claims

\* An ACTIVE Allocation has no closed membership, and lists every seat that
\* is reserved through it, so that a seat can always come back to it
\* (the "historical membership" error of ensureAllocationReservedMembership).
MembershipsAreOpen ==
    \A a \in Allocations : Active(a) =>
        /\ \A u \in Units : membership[a][u] # "RELEASED"
        /\ \A r \in Reservations : IsActive(r) =>
             \A k \in items[r].seats : k.src = a => membership[a][k.unit] = "ACTIVE"

\* Everything active reservations hold and confirmed ones bought from an
\* Allocation was taken by the Partner of the channel it has now, and tickets
\* were issued only from a channel that is still NON_PUBLIC: no reclassification
\* slips under inventory that is in use.
TakenThroughChannel ==
    /\ \A r \in Reservations : IsActive(r) \/ State(r) = "CONFIRMED" =>
         \A k \in items[r].seats :
            k.src # Shared => allocation[k.src].channel = PartnerOf[r]
    /\ \A a \in issuedFrom : allocation[a].channel = NonPublic

-----------------------------------------------------------------------------
(* General admission.                                                      *)

Current(row) == row.available + row.reserved + row.sold + row.issued

\* The places of a pool are never created, lost or counted twice: what is
\* available, reserved, sold and issued anywhere, and what is blocked, adds
\* up to the capacity the pool has now (tktsync_assert_ga_pool_balance).  The
\* bucket of an Allocation accounts for every place it was ever assigned, and
\* a RELEASED Allocation keeps nothing that could still be taken.
PlacesAreBalanced ==
    \A p \in Pools :
        /\ SumFunction([s \in Sources |-> Current(ga[s][p])])
             + SumFunction([b \in Blocks |-> block[b].blocked[p]]) = ga[Shared][p].assigned
        /\ \A a \in Allocations :
             /\ ga[a][p].assigned = Current(ga[a][p]) + ga[a][p].released
             /\ ~Active(a) => ga[a][p].available = 0

\* The reserved counter of every source is what active reservations hold from
\* it (tktsync_assert_ga_active_reservations), however they were modified and
\* whatever became of the Allocation meanwhile.
ReservedPlacesMatchItems ==
    \A s \in Sources, p \in Pools :
        ga[s][p].reserved =
            SumFunctionOnSet([r \in Reservations |-> items[r].places[s][p]],
                             {r \in Reservations : IsActive(r)})

-----------------------------------------------------------------------------
(* The reservation and its checkouts.                                      *)

AttemptsIn(r, state) == {n \in Numbers : AttemptState(r, n) = state}

\* The state of a reservation and of its attempts agree: one ACTIVE attempt
\* exactly while COMMITTING, one UNCERTAIN exactly while RECONCILING, one
\* CONFIRMED exactly when the reservation is.  The code relies on it when it
\* picks "the" active or latest uncertain attempt.
AttemptsAgree ==
    \A r \in Reservations :
        /\ \A n, m \in Numbers :
             AttemptState(r, n) = AttemptState(r, m)
                 /\ AttemptState(r, n) \in {"ACTIVE", "UNCERTAIN", "CONFIRMED"} => n = m
        /\ State(r) = "COMMITTING" <=> AttemptsIn(r, "ACTIVE") # {}
        /\ State(r) = "RECONCILING" <=> AttemptsIn(r, "UNCERTAIN") # {}
        /\ State(r) = "CONFIRMED" <=> AttemptsIn(r, "CONFIRMED") # {}

\* Every active reservation can be taken apart and can be sold: no handler
\* that returns or consumes its items can meet a missing claim, a counter
\* that is too small, a closed membership or a cycle of release destinations,
\* any of which would leave it stuck for ever.
AlwaysSettleable ==
    \A r \in Reservations : IsActive(r) =>
        /\ CanReturn(r, items[r].seats, items[r].places)
        /\ CanConsume(r, items[r].seats, items[r].places)

\* The limit on a Partner's live reservations holds at every moment, not only
\* when Create counts them: nothing a deadline took out of the count can
\* come back into it.
PartnerLimitHolds ==
    \A p \in Partners : ActiveCount(p) <= MaxActivePerPartner

-----------------------------------------------------------------------------
(* What a step may never do.                                               *)

\* Inventory whose payment may have been accepted is not taken away: a
\* checkout that ends without a sale was reported failed by the Partner, or
\* was in doubt and either answered or out of its reconciliation window, or
\* ran out of protection and of lifetime.
CheckoutIsProtected ==
    [][\A r \in Reservations, n \in Numbers :
        (InCheckout(r, n) \/ InDoubt(r, n)) /\ State(r)' \in {"RELEASED", "EXPIRED"} =>
            \/ AttemptState(r, n)' = "PAYMENT_FAILED"
            \/ /\ AttemptState(r, n)' = "ABANDONED"
               /\ \/ InDoubt(r, n) /\ State(r)' = "RELEASED"
                  \/ InDoubt(r, n) /\ Due(reservation[r].recon)
                  \/ ProtectionDue(r, n) /\ Due(reservation[r].maxLifetime)]_vars

\* A sale is only accepted before the maximum lifetime of the reservation,
\* through whatever chain of retries and reconciliations it got there.
SaleWithinLifetime ==
    [][\A r \in Reservations : State(r) # "CONFIRMED" /\ State(r)' = "CONFIRMED" =>
        ~Due(reservation[r].maxLifetime)]_vars

\* A checkout attempt that got its outcome keeps it.
AttemptOutcomeIsFinal ==
    [][\A r \in Reservations, n \in Numbers :
        AttemptState(r, n) \in {"PAYMENT_FAILED", "CONFIRMED", "ABANDONED"} =>
            attempts'[r][n] = attempts[r][n]]_vars

Expands(r) ==
    /\ IsActive(r)'
    /\ \/ ~(items'[r].seats \subseteq items[r].seats)
       \/ Excess(items'[r].places, items[r].places) # NoPlaces

\* A Partner that may no longer acquire does not expand its inventory.
DisabledPartnerNeverExpands ==
    [][\A r \in Reservations : Expands(r) => MayAcquire(PartnerOf[r])]_vars

-----------------------------------------------------------------------------
(* The abstract specification.                                             *)

LedgerPhase(state) ==
    CASE state = "NONE" -> "none"
      [] state \in {"HELD", "PAYMENT_RETRY"} -> "open"
      [] state \in {"COMMITTING", "RECONCILING"} -> "protected"
      [] state = "CONFIRMED" -> "sold"
      [] state \in {"RELEASED", "EXPIRED"} -> "closed"

\* The seats r holds are those the claims table gives it.
LedgerHeld(r) ==
    {u \in Units : \E type \in {"RESERVATION", "SALE"} : Claim(u, type, r) \in claims}

Ledger == INSTANCE SeatLedger WITH
    phase <- [r \in Reservations |-> LedgerPhase(State(r))],
    held <- [r \in Reservations |-> LedgerHeld(r)]

\* Every handler, worker run and operator command is, for the seats, one step
\* of the ledger or no step at all: the claims of one reservation change, by
\* a step its phase allows, and no other reservation notices.
ImplementsLedger == Ledger!Spec

-----------------------------------------------------------------------------
\* Every reservation reaches an outcome: the worker alone drives it there,
\* through protection and reconciliation, when the Partner never calls again.
EveryReservationEnds ==
    \A r \in Reservations : IsActive(r) ~> State(r) \in TerminalStates
=============================================================================
