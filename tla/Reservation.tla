---------------------------- MODULE Reservation -----------------------------
(***************************************************************************)
(* Reservations and their checkouts (backend/internal/reservation): a      *)
(* Partner holds inventory, begins a checkout, reports what its payment    *)
(* provider said, and the authority confirms the sale or gives everything  *)
(* back.  Deadlines are enforced against the database clock by whichever   *)
(* command meets them first; a worker (MaterializeDue) meets the rest.     *)
(*                                                                         *)
(* Each handler is one transaction: the Event row shared, the reservation  *)
(* row and then its inventory rows locked to the end, and the clock read   *)
(* under those locks.  A handler is therefore one action at one reading of *)
(* now; a handler that is refused changes nothing and is no step.          *)
(*                                                                         *)
(* The Event is one that keeps allow_voided_inventory_rerelease at its     *)
(* default, false: what is sold is never released again.                   *)
(***************************************************************************)
EXTENDS Restrictions

CONSTANTS
    PartnerOf,          \* the Partner of each Reservation id
    Orders,             \* requested compositions: [seats, places]
    MaxAttempts,        \* bound: checkout attempts per Reservation
    MaxTime,            \* bound: the last reading of the clock
    SalesOpen,          \* events.sales_open_at
    SalesClose,         \* events.sales_close_at
    HoldSeconds,        \* the event_transaction_policies row of the Event
    ProtectionSeconds,
    RetrySeconds,
    ReconciliationSeconds,
    MaxLifetimeSeconds,
    MaxHoldQuantity,
    MaxActivePerPartner

VARIABLES
    now,                \* clock_timestamp()
    reservation,        \* reservations: state and deadlines
    items,              \* reservation_items with removed_at IS NULL
    attempts            \* checkout_attempts by attempt_number

vars == <<now, reservation, items, attempts, inventoryVars, salesVars>>

\* validatePolicy.
ASSUME PolicyAssumption ==
    /\ HoldSeconds \in Nat \ {0} /\ ProtectionSeconds \in Nat \ {0}
    /\ RetrySeconds \in Nat /\ ReconciliationSeconds \in Nat \ {0}
    /\ MaxLifetimeSeconds \in Nat /\ MaxLifetimeSeconds >= HoldSeconds
    /\ MaxHoldQuantity \in Nat \ {0} /\ MaxActivePerPartner \in Nat \ {0}

ASSUME BoundsAssumption ==
    /\ MaxAttempts \in Nat /\ MaxTime \in Nat
    /\ SalesOpen \in Nat /\ SalesClose \in Nat
    /\ PartnerOf \in [Reservations -> Partners]

\* normalizeItems: a unit appears once in a request, and a request has items.
ASSUME OrdersAssumption ==
    \A q \in Orders :
        /\ q \in [seats : SUBSET Seat, places : [Sources -> [Pools -> Nat]]]
        /\ \A k, l \in q.seats : k.unit = l.unit => k = l
        /\ q.seats # {} \/ q.places # NoPlaces

-----------------------------------------------------------------------------
(* Rows.                                                                   *)

ActiveStates == {"HELD", "COMMITTING", "PAYMENT_RETRY", "RECONCILING"}
TerminalStates == {"CONFIRMED", "RELEASED", "EXPIRED"}

\* A NULL deadline: every comparison in the code takes it as passed.
NoDeadline == -1
Deadlines == Nat \cup {NoDeadline}

ReservationRow ==
    [state : ActiveStates \cup TerminalStates \cup {"NONE"},
     hold : Deadlines, retry : Deadlines, recon : Deadlines,
     maxLifetime : Deadlines]

NoReservation == [state |-> "NONE", hold |-> NoDeadline, retry |-> NoDeadline,
                  recon |-> NoDeadline, maxLifetime |-> NoDeadline]

Numbers == 1..MaxAttempts

AttemptRow ==
    [state : {"NONE", "ACTIVE", "UNCERTAIN", "PAYMENT_FAILED", "CONFIRMED", "ABANDONED"},
     protection : Deadlines]

NoAttempt == [state |-> "NONE", protection |-> NoDeadline]

NoItems == [seats |-> {}, places |-> NoPlaces]

ReservationTypeOK ==
    /\ now \in Nat
    /\ reservation \in [Reservations -> ReservationRow]
    /\ items \in [Reservations -> [seats : SUBSET Seat,
                                   places : [Sources -> [Pools -> Nat]]]]
    /\ attempts \in [Reservations -> [Numbers -> AttemptRow]]

Init ==
    /\ SalesInit
    /\ InventoryInit
    /\ now = 0
    /\ reservation = [r \in Reservations |-> NoReservation]
    /\ items = [r \in Reservations |-> NoItems]
    /\ attempts = [r \in Reservations |-> [n \in Numbers |-> NoAttempt]]

State(r) == reservation[r].state
AttemptState(r, n) == attempts[r][n].state
IsActive(r) == State(r) \in ActiveStates

Due(deadline) == deadline <= now

\* now.Add(seconds), capped at max_lifetime_at.
CappedDeadline(r, seconds) ==
    IF now + seconds <= reservation[r].maxLifetime
    THEN now + seconds ELSE reservation[r].maxLifetime

Quantity(q) ==
    Cardinality(q.seats)
        + MapThenSumSet(LAMBDA s :
              MapThenSumSet(LAMBDA p : q.places[s][p], Pools), Sources)

-----------------------------------------------------------------------------
(* Steps that several handlers share.                                      *)

SetState(r, state) == reservation' = [reservation EXCEPT ![r].state = state]

SetAttempt(r, n, state) == attempts' = [attempts EXCEPT ![r][n].state = state]

\* releaseActiveItems over all items of r.
ReturnAllItems(r) ==
    /\ CanReturn(r, items[r].seats, items[r].places)
    /\ claims' = ClaimsAfterReturn(r, items[r].seats)
    /\ membership' = MembershipAfterReturn(items[r].seats)
    /\ ga' = GAAfterReturn(items[r].places)
    /\ UNCHANGED <<allocation, block, issuedFrom>>

\* The latest UNCERTAIN attempt of r is ABANDONED, if there is one.
AbandonUncertain(r) ==
    attempts' = [attempts EXCEPT ![r] = [n \in Numbers |->
        IF /\ @[n].state = "UNCERTAIN"
           /\ \A m \in Numbers : m > n => attempts[r][m].state # "UNCERTAIN"
        THEN [@[n] EXCEPT !.state = "ABANDONED"] ELSE @[n]]]

\* Mutant: the uncertain attempt is left as it is.
ExpireOnly(r) ==
    /\ ReturnAllItems(r)
    /\ SetState(r, "EXPIRED")
    /\ UNCHANGED <<now, items, attempts, salesVars>>

\* expireReservationLocked.
Expire(r) ==
    /\ ReturnAllItems(r)
    /\ IF State(r) = "RECONCILING" THEN AbandonUncertain(r)
                                   ELSE UNCHANGED attempts
    /\ SetState(r, "EXPIRED")
    /\ UNCHANGED <<now, items, salesVars>>

\* Mutant: reconciliation may outlive the reservation.
ReconcilingRowUncapped(r) ==
    [reservation[r] EXCEPT !.state = "RECONCILING", !.retry = NoDeadline,
                           !.recon = now + ReconciliationSeconds]

ReconcilingRow(r) ==
    [reservation[r] EXCEPT
        !.state = "RECONCILING", !.retry = NoDeadline,
        !.recon = CappedDeadline(r, ReconciliationSeconds)]

\* transitionToReconciliation.
Reconcile(r, n) ==
    /\ SetAttempt(r, n, "UNCERTAIN")
    /\ reservation' = [reservation EXCEPT ![r] = ReconcilingRow(r)]
    /\ UNCHANGED <<now, items, inventoryVars, salesVars>>

\* retry_expires_at and reconciliation_expires_at become NULL.
WithoutDeadlines(r, state) ==
    [reservation[r] EXCEPT !.state = state, !.retry = NoDeadline, !.recon = NoDeadline]

RetryRow(r) ==
    [reservation[r] EXCEPT
        !.state = "PAYMENT_RETRY", !.recon = NoDeadline,
        !.retry = CappedDeadline(r, RetrySeconds)]

\* The inventory goes back and the reservation is RELEASED.
ReleaseItems(r) ==
    /\ ReturnAllItems(r)
    /\ SetState(r, "RELEASED")
    /\ UNCHANGED <<now, items, salesVars>>

\* lockActiveCheckout and lockCheckoutAttemptByState.
InCheckout(r, n) == State(r) = "COMMITTING" /\ AttemptState(r, n) = "ACTIVE"

InDoubt(r, n) == State(r) = "RECONCILING" /\ AttemptState(r, n) = "UNCERTAIN"

ProtectionDue(r, n) == Due(attempts[r][n].protection)

\* Mutant: the hold deadline is left to the worker.
RetryOver(r) == State(r) = "PAYMENT_RETRY" /\ Due(reservation[r].retry)

\* The deadline that ends the current state of r, if it is one of the states
\* a deadline ends by giving the inventory back.
HoldOver(r) ==
    \/ State(r) = "HELD" /\ Due(reservation[r].hold)
    \/ State(r) = "PAYMENT_RETRY" /\ Due(reservation[r].retry)

ReconciliationOver(r) == State(r) = "RECONCILING" /\ Due(reservation[r].recon)

-----------------------------------------------------------------------------
(* Create.                                                                 *)

\* checkActiveReservationLimits: what counts against the Partner's limit.
Counts(r) ==
    \/ State(r) = "COMMITTING"
    \/ State(r) = "HELD" /\ ~Due(reservation[r].hold)
    \/ State(r) = "PAYMENT_RETRY" /\ ~Due(reservation[r].retry)
    \/ State(r) = "RECONCILING" /\ ~Due(reservation[r].recon)

ActiveCount(p) ==
    Cardinality({r \in Reservations : PartnerOf[r] = p /\ Counts(r)})

\* validateNewAcquisition.
AcquisitionOpen(p) ==
    /\ MayAcquire(p)
    /\ event = "ON_SALE"
    /\ SalesOpen <= now /\ now < SalesClose

HeldRow ==
    [state |-> "HELD", retry |-> NoDeadline, recon |-> NoDeadline,
     hold |-> now + HoldSeconds, maxLifetime |-> now + MaxLifetimeSeconds]

Create(r, q) ==
    /\ State(r) = "NONE"
    /\ AcquisitionOpen(PartnerOf[r])
    /\ Quantity(q) <= MaxHoldQuantity
    /\ ActiveCount(PartnerOf[r]) < MaxActivePerPartner
    /\ Eligible(PartnerOf[r], q.seats, q.places)
    /\ CanAcquire(claims, ga, q.seats, q.places)
    /\ reservation' = [reservation EXCEPT ![r] = HeldRow]
    /\ items' = [items EXCEPT ![r] = q]
    /\ claims' = ClaimsAfterAcquire(claims, r, q.seats)
    /\ ga' = GAAfterAcquire(ga, q.places)
    /\ UNCHANGED <<now, attempts, allocation, membership, block, issuedFrom, salesVars>>

-----------------------------------------------------------------------------
(* Modify: the composition becomes q.  What is not in q any more is        *)
(* released before what is new in q is acquired, but resolveItems has      *)
(* judged the new items against the state before the releases.             *)

\* Mutant: the whole quantity instead of the difference.
ExcessWhole(P, Q) == [s \in Sources |-> [p \in Pools |->
                        IF P[s][p] > Q[s][p] THEN P[s][p] ELSE 0]]

Excess(P, Q) == [s \in Sources |-> [p \in Pools |->
                    IF P[s][p] > Q[s][p] THEN P[s][p] - Q[s][p] ELSE 0]]

\* isNonExpandingModification.
NonExpanding(old, q) ==
    q.seats \subseteq old.seats /\ Excess(q.places, old.places) = NoPlaces

\* planReservationModification and its three phases.
ChangeItems(r, q) ==
    LET old == items[r]
        gone == old.seats \ q.seats
        new == q.seats \ old.seats
        less == Excess(old.places, q.places)
        more == Excess(q.places, old.places)
    IN  /\ Eligible(PartnerOf[r], new, more)
        /\ CanReturn(r, gone, less)
        /\ CanAcquire(ClaimsAfterReturn(r, gone), GAAfterReturn(less), new, more)
        /\ claims' = ClaimsAfterAcquire(ClaimsAfterReturn(r, gone), r, new)
        /\ ga' = GAAfterAcquire(GAAfterReturn(less), more)
        /\ membership' = MembershipAfterReturn(gone)
        /\ items' = [items EXCEPT ![r] = q]

\* Mutant: a reservation in checkout may still be modified.
ModifiableInCheckout(r) == State(r) \in {"HELD", "COMMITTING"}

Modifiable(r) == State(r) = "HELD"

Modify(r, q) ==
    /\ Modifiable(r)
    /\ IF event = "CANCELLED" \/ (event # "COMPLETED" /\ Due(reservation[r].hold))
       THEN Expire(r)
       ELSE /\ event # "COMPLETED"
            /\ event \in {"PAUSED", "SALES_CLOSED"} => NonExpanding(items[r], q)
            /\ Quantity(q) <= MaxHoldQuantity
            /\ ChangeItems(r, q)
            /\ UNCHANGED <<now, reservation, attempts, allocation, block,
                           issuedFrom, salesVars>>

-----------------------------------------------------------------------------
(* BeginCheckout.                                                          *)

\* Mutant: failed attempts do not count.
IsNextLiveNumber(r, n) ==
    \A m \in Numbers : AttemptState(r, m) = "ACTIVE" <=> m < n

\* COALESCE(MAX(attempt_number), 0) + 1.
IsNextNumber(r, n) ==
    \A m \in Numbers : AttemptState(r, m) # "NONE" <=> m < n

StartAttempt(r, n) ==
    /\ IsNextNumber(r, n)
    /\ attempts' = [attempts EXCEPT ![r][n] =
            [state |-> "ACTIVE", protection |-> CappedDeadline(r, ProtectionSeconds)]]
    /\ reservation' = [reservation EXCEPT ![r] = WithoutDeadlines(r, "COMMITTING")]
    /\ UNCHANGED <<now, items, inventoryVars, salesVars>>

BeginCheckout(r, n) ==
    /\ Transactable
    /\ \/ HoldOver(r) /\ Expire(r)
       \/ ReconciliationOver(r) /\ Expire(r)
       \/ InCheckout(r, n) /\ ProtectionDue(r, n) /\ Reconcile(r, n)
       \/ State(r) \in {"HELD", "PAYMENT_RETRY"} /\ ~HoldOver(r) /\ StartAttempt(r, n)

-----------------------------------------------------------------------------
(* Confirm.                                                                *)

Sell(r, n) ==
    /\ CanConsume(r, items[r].seats, items[r].places)
    /\ claims' = ClaimsAfterSale(r, items[r].seats)
    /\ ga' = GAAfterSale(items[r].places)
    /\ SetAttempt(r, n, "CONFIRMED")
    /\ reservation' = [reservation EXCEPT ![r] = WithoutDeadlines(r, "CONFIRMED")]
    /\ UNCHANGED <<now, items, allocation, membership, block, issuedFrom, salesVars>>

\* Protection passed and no reconciliation time is left: the transition to
\* RECONCILING and the expiry commit together.
ExpireUnreconciled(r, n) ==
    /\ ReturnAllItems(r)
    /\ SetAttempt(r, n, "ABANDONED")
    /\ reservation' = [reservation EXCEPT
            ![r] = [ReconcilingRow(r) EXCEPT !.state = "EXPIRED"]]
    /\ UNCHANGED <<now, items, salesVars>>

Confirm(r, n) ==
    /\ Transactable
    /\ \/ /\ InCheckout(r, n)
          /\ IF ProtectionDue(r, n) /\ Due(ReconcilingRow(r).recon)
             THEN ExpireUnreconciled(r, n) ELSE Sell(r, n)
       \/ ReconciliationOver(r) /\ Expire(r)
       \/ InDoubt(r, n) /\ ~ReconciliationOver(r) /\ Sell(r, n)

-----------------------------------------------------------------------------
(* Release.                                                                *)

\* Mutant: a checkout under way is released like a hold.
ReleasableAlways(r) == IsActive(r) /\ ~HoldOver(r)

Releasable(r) == State(r) \in {"HELD", "PAYMENT_RETRY"} /\ ~HoldOver(r)

Release(r, n) ==
    \/ InCheckout(r, n) /\ ProtectionDue(r, n) /\ Reconcile(r, n)
    \/ (HoldOver(r) \/ ReconciliationOver(r)) /\ Expire(r)
    \/ Releasable(r) /\ ReleaseItems(r) /\ UNCHANGED attempts

-----------------------------------------------------------------------------
(* What the Partner reports of a payment.                                  *)

FailToRetry(r, n) ==
    /\ SetAttempt(r, n, "PAYMENT_FAILED")
    /\ reservation' = [reservation EXCEPT ![r] = RetryRow(r)]
    /\ UNCHANGED <<now, items, inventoryVars, salesVars>>

\* PaymentFailed and then Release in one transaction.  Release reads the
\* clock again and expires the reservation when the retry deadline it was
\* just given has passed by then.
FailAndRelease(r, n) ==
    /\ now' \in {now, now + 1} /\ now' <= MaxTime
    /\ ReturnAllItems(r)
    /\ SetAttempt(r, n, "PAYMENT_FAILED")
    /\ reservation' = [reservation EXCEPT ![r] = [RetryRow(r) EXCEPT
            !.state = IF RetryRow(r).retry <= now' THEN "EXPIRED" ELSE "RELEASED"]]
    /\ UNCHANGED <<items, salesVars>>

\* ResolveNoPayment.
ResolveNoPayment(r) ==
    \/ ReconciliationOver(r) /\ Expire(r)
    \/ /\ State(r) = "RECONCILING" /\ ~ReconciliationOver(r)
       /\ AbandonUncertain(r) /\ ReleaseItems(r)

PaymentFailure(r, n, disposition) ==
    \/ /\ InCheckout(r, n)
       /\ \/ ProtectionDue(r, n) /\ Reconcile(r, n)
          \/ ~ProtectionDue(r, n) /\ disposition = "RETRY" /\ FailToRetry(r, n)
          \/ ~ProtectionDue(r, n) /\ disposition = "RELEASE" /\ FailAndRelease(r, n)
    \/ /\ InDoubt(r, n)
       /\ \/ ReconciliationOver(r) /\ Expire(r)
          \/ ~ReconciliationOver(r) /\ disposition = "RELEASE" /\ ResolveNoPayment(r)
          \/ /\ ~ReconciliationOver(r) /\ disposition = "RETRY"
             /\ ~Due(RetryRow(r).retry) /\ FailToRetry(r, n)

MarkPaymentUncertain(r, n) == InCheckout(r, n) /\ Reconcile(r, n)

-----------------------------------------------------------------------------
(* MaterializeDue: called by the worker for a due reservation, and by a    *)
(* read of any reservation.                                                *)

\* Mutant: a reconciliation that nobody answers is not the worker's business.
MaterializeUnanswered(r) ==
    \/ HoldOver(r) /\ Expire(r)
    \/ \E n \in Numbers : InCheckout(r, n) /\ ProtectionDue(r, n) /\ Reconcile(r, n)

MaterializeDue(r) ==
    \/ event = "CANCELLED" /\ State(r) \in {"HELD", "PAYMENT_RETRY"} /\ Expire(r)
    \/ event # "CANCELLED" /\ HoldOver(r) /\ Expire(r)
    \/ ReconciliationOver(r) /\ Expire(r)
    \/ \E n \in Numbers :
         /\ InCheckout(r, n)
         /\ event = "CANCELLED" \/ ProtectionDue(r, n)
         /\ Reconcile(r, n)

-----------------------------------------------------------------------------
\* Mutant: the seats are forgotten.
UntouchedPlaces(a) ==
    /\ a \notin issuedFrom
    /\ \A p \in Pools : ga[a][p].reserved = 0 /\ ga[a][p].sold = 0 /\ ga[a][p].issued = 0

\* ReclassifyAllocation: the channel of an Allocation that nothing was ever
\* taken from.
Untouched(a) ==
    /\ a \notin issuedFrom
    /\ \A r \in Reservations : State(r) \in ActiveStates \cup {"CONFIRMED"} =>
         /\ \A k \in items[r].seats : k.src # a
         /\ \A p \in Pools : items[r].places[a][p] = 0
    /\ \A p \in Pools : ga[a][p].reserved = 0 /\ ga[a][p].sold = 0 /\ ga[a][p].issued = 0

ReclassifyAllocation(a, channel) ==
    /\ Restrictable
    /\ ChannelAllowed(channel)
    /\ Active(a) /\ allocation[a].channel # channel
    /\ Untouched(a)
    /\ allocation' = [allocation EXCEPT ![a].channel = channel]
    /\ UNCHANGED <<claims, membership, ga, block, issuedFrom, salesVars>>

Tick ==
    /\ now < MaxTime
    /\ now' = now + 1
    /\ UNCHANGED <<reservation, items, attempts, inventoryVars, salesVars>>

\* Every command but Create and Modify.
Settlement(r) ==
    \/ \E n \in Numbers :
         \/ BeginCheckout(r, n) \/ Confirm(r, n) \/ Release(r, n)
         \/ \E disposition \in {"RETRY", "RELEASE"} : PaymentFailure(r, n, disposition)
         \/ MarkPaymentUncertain(r, n)
    \/ ResolveNoPayment(r)

Handler(r) == Settlement(r) \/ \E q \in Orders : Create(r, q) \/ Modify(r, q)

Operator ==
    /\ \/ SalesNext /\ UNCHANGED inventoryVars
       \/ RestrictionsNext
       \/ \E a \in Allocations, channel \in Channels : ReclassifyAllocation(a, channel)
    /\ UNCHANGED <<now, reservation, items, attempts>>

Materialize == \E r \in Reservations : MaterializeDue(r)

Next == Tick \/ Operator \/ Materialize \/ \E r \in Reservations : Handler(r)

Spec == Init /\ [][Next]_vars

\* Time passes, and the worker keeps processing due reservations.
FairSpec == Spec /\ WF_vars(Tick) /\ WF_vars(Materialize)
=============================================================================
