-------------------------- MODULE ReservationProofs --------------------------
(***************************************************************************)
(* Theorems about the reservation authority, for every set of Partners,    *)
(* units, pools, Allocations and Reservations, every policy and every      *)
(* bound.                                                                  *)
(***************************************************************************)
EXTENDS ReservationProperties, TLAPS, FiniteSetTheorems

(***************************************************************************)
(* Type correctness.  The GA rows are left out: that their counters stay   *)
(* natural numbers is part of the invariant of PlaceProofs.                *)
(***************************************************************************)
CoreTypeOK == SalesTypeOK /\ SeatTypeOK /\ ReservationTypeOK

\* A deadline computed from now and capped is a deadline.
LEMMA CappedDeadlineType ==
    ASSUME ReservationTypeOK, NEW r \in Reservations, NEW seconds \in Nat
    PROVE  CappedDeadline(r, seconds) \in Deadlines
  BY DEF ReservationTypeOK, CappedDeadline, ReservationRow, Deadlines, NoDeadline

\* The rows that the checkout handlers write.
LEMMA RowTypes ==
    ASSUME ReservationTypeOK, NEW r \in Reservations
    PROVE  /\ ReconcilingRow(r) \in ReservationRow
           /\ RetryRow(r) \in ReservationRow
           /\ HeldRow \in ReservationRow
           /\ \A state \in ActiveStates \cup TerminalStates :
                WithoutDeadlines(r, state) \in ReservationRow
  <1>1. /\ CappedDeadline(r, ReconciliationSeconds) \in Deadlines
        /\ CappedDeadline(r, RetrySeconds) \in Deadlines
    BY CappedDeadlineType, PolicyAssumption
  <1>2. reservation[r] \in ReservationRow
    BY DEF ReservationTypeOK
  <1>3. ReconcilingRow(r) \in ReservationRow /\ RetryRow(r) \in ReservationRow
    BY <1>1, <1>2 DEF ReconcilingRow, RetryRow, ReservationRow, ActiveStates,
                      Deadlines, NoDeadline
  <1>4. HeldRow \in ReservationRow
    BY PolicyAssumption DEF HeldRow, ReservationRow, ReservationTypeOK, ActiveStates,
                            Deadlines, NoDeadline
  <1>5. ASSUME NEW state \in ActiveStates \cup TerminalStates
        PROVE  WithoutDeadlines(r, state) \in ReservationRow
    BY <1>2 DEF WithoutDeadlines, ReservationRow, Deadlines, NoDeadline
  <1> QED BY <1>3, <1>4, <1>5

\* Giving seats back keeps claims and memberships well typed.
LEMMA ReturnType ==
    ASSUME SeatTypeOK, NEW r \in Reservations, NEW S \in SUBSET Seat, NEW P,
           CanReturn(r, S, P)
    PROVE  /\ ClaimsAfterReturn(r, S) \subseteq ClaimSet
           /\ MembershipAfterReturn(S) \in
                [Allocations -> [Units -> {"NONE", "ACTIVE", "RELEASED"}]]
  <1>1. \A k \in S : FinalDestination(k.src) # Shared =>
            FinalDestination(k.src) \in Allocations
    BY DEF CanReturn, Live
  <1>2. ClaimsAfterReturn(r, S) \subseteq ClaimSet
    BY <1>1 DEF ClaimsAfterReturn, SeatTypeOK, ClaimSet, Claim, Seat
  <1>3. MembershipAfterReturn(S) \in
            [Allocations -> [Units -> {"NONE", "ACTIVE", "RELEASED"}]]
    BY DEF MembershipAfterReturn, SeatTypeOK
  <1> QED BY <1>2, <1>3

\* Giving all items back keeps the types of claims and rows.
LEMMA ReturnAllItemsType ==
    ASSUME CoreTypeOK, NEW r \in Reservations, ReturnAllItems(r)
    PROVE  SeatTypeOK'
  <1>1. items[r].seats \in SUBSET Seat
    BY DEF CoreTypeOK, ReservationTypeOK
  <1>2. /\ claims' \subseteq ClaimSet
        /\ membership' \in [Allocations -> [Units -> {"NONE", "ACTIVE", "RELEASED"}]]
    BY <1>1, ReturnType DEF CoreTypeOK, ReturnAllItems
  <1> QED BY <1>2 DEF CoreTypeOK, SeatTypeOK, ReturnAllItems

\* Changing a function at one point keeps its type.
LEMMA ExceptType ==
    ASSUME NEW D, NEW R, NEW f \in [D -> R], NEW d \in D, NEW v \in R
    PROVE  [f EXCEPT ![d] = v] \in [D -> R]
  OBVIOUS

\* A reservation row with another state is still a row.
LEMMA StateUpdateType ==
    ASSUME NEW row \in ReservationRow, NEW state \in ActiveStates \cup TerminalStates
    PROVE  [row EXCEPT !.state = state] \in ReservationRow
  BY DEF ReservationRow

\* Moving a reservation to another state keeps the type of the table.
LEMMA SetStateType ==
    ASSUME ReservationTypeOK, NEW r \in Reservations,
           NEW state \in ActiveStates \cup TerminalStates, SetState(r, state)
    PROVE  reservation' \in [Reservations -> ReservationRow]
  <1>1. [reservation[r] EXCEPT !.state = state] \in ReservationRow
    BY DEF ReservationTypeOK, ReservationRow
  <1> QED BY <1>1 DEF ReservationTypeOK, SetState

\* Moving a checkout attempt to another state keeps the type of the table.
LEMMA SetAttemptType ==
    ASSUME ReservationTypeOK, NEW r \in Reservations, NEW n \in Numbers,
           NEW state \in {"UNCERTAIN", "PAYMENT_FAILED", "CONFIRMED", "ABANDONED"},
           SetAttempt(r, n, state)
    PROVE  attempts' \in [Reservations -> [Numbers -> AttemptRow]]
  <1>1. attempts[r][n] \in AttemptRow
    BY DEF ReservationTypeOK
  <1>2. [attempts[r][n] EXCEPT !.state = state] \in AttemptRow
    BY <1>1 DEF AttemptRow
  <1>3. [attempts[r] EXCEPT ![n] = [attempts[r][n] EXCEPT !.state = state]]
            \in [Numbers -> AttemptRow]
    BY <1>2 DEF ReservationTypeOK
  <1>4. attempts' = [attempts EXCEPT ![r] =
            [attempts[r] EXCEPT ![n] = [attempts[r][n] EXCEPT !.state = state]]]
    BY Zenon DEF SetAttempt
  <1>5. attempts \in [Reservations -> [Numbers -> AttemptRow]]
    BY DEF ReservationTypeOK
  <1>6. [attempts EXCEPT ![r] =
            [attempts[r] EXCEPT ![n] = [attempts[r][n] EXCEPT !.state = state]]]
                \in [Reservations -> [Numbers -> AttemptRow]]
    BY <1>3, <1>5, ExceptType
  <1> QED BY <1>4, <1>6

\* Abandoning the latest uncertain attempt keeps the type of the table.
LEMMA AbandonUncertainType ==
    ASSUME ReservationTypeOK, NEW r \in Reservations, AbandonUncertain(r)
    PROVE  attempts' \in [Reservations -> [Numbers -> AttemptRow]]
  <1>1. attempts \in [Reservations -> [Numbers -> AttemptRow]]
    BY DEF ReservationTypeOK
  <1>2. \A row \in AttemptRow : [row EXCEPT !.state = "ABANDONED"] \in AttemptRow
    BY DEF AttemptRow
  <1>3. PICK f \in [Numbers -> AttemptRow] : attempts' = [attempts EXCEPT ![r] = f]
    BY <1>1, <1>2 DEF AbandonUncertain
  <1> QED BY <1>1, <1>3, ExceptType

\* The steps that several handlers share.
LEMMA ExpireType ==
    ASSUME CoreTypeOK, NEW r \in Reservations, Expire(r)
    PROVE  CoreTypeOK'
  <1>1. SeatTypeOK'
    BY ReturnAllItemsType DEF Expire
  <1>2. reservation' \in [Reservations -> ReservationRow]
    BY SetStateType DEF Expire, CoreTypeOK, TerminalStates
  <1>3. attempts' \in [Reservations -> [Numbers -> AttemptRow]]
    BY AbandonUncertainType DEF Expire, CoreTypeOK, ReservationTypeOK
  <1> QED BY <1>1, <1>2, <1>3 DEF CoreTypeOK, ReservationTypeOK, Expire, SalesTypeOK, salesVars

\* transitionToReconciliation keeps types.
LEMMA ReconcileType ==
    ASSUME CoreTypeOK, NEW r \in Reservations, NEW n \in Numbers, Reconcile(r, n)
    PROVE  CoreTypeOK'
  <1>1. attempts' \in [Reservations -> [Numbers -> AttemptRow]]
    BY SetAttemptType DEF Reconcile, CoreTypeOK
  <1>2. reservation' \in [Reservations -> ReservationRow]
    BY RowTypes DEF Reconcile, CoreTypeOK, ReservationTypeOK
  <1> QED BY <1>1, <1>2 DEF CoreTypeOK, ReservationTypeOK, Reconcile, SalesTypeOK, salesVars,
                            SeatTypeOK, inventoryVars

\* Release keeps types, whatever it did to the attempts.
LEMMA ReleaseItemsType ==
    ASSUME CoreTypeOK, NEW r \in Reservations, ReleaseItems(r),
           attempts' \in [Reservations -> [Numbers -> AttemptRow]]
    PROVE  CoreTypeOK'
  <1>1. SeatTypeOK'
    BY ReturnAllItemsType DEF ReleaseItems
  <1>2. reservation' \in [Reservations -> ReservationRow]
    BY SetStateType DEF ReleaseItems, CoreTypeOK, TerminalStates
  <1> QED BY <1>1, <1>2 DEF CoreTypeOK, ReservationTypeOK, ReleaseItems, SalesTypeOK, salesVars

\* A failed payment that opens a retry window keeps types.
LEMMA FailToRetryType ==
    ASSUME CoreTypeOK, NEW r \in Reservations, NEW n \in Numbers, FailToRetry(r, n)
    PROVE  CoreTypeOK'
  <1>1. attempts' \in [Reservations -> [Numbers -> AttemptRow]]
    BY SetAttemptType DEF FailToRetry, CoreTypeOK
  <1>2. reservation' \in [Reservations -> ReservationRow]
    BY RowTypes DEF FailToRetry, CoreTypeOK, ReservationTypeOK
  <1> QED BY <1>1, <1>2 DEF CoreTypeOK, ReservationTypeOK, FailToRetry, SalesTypeOK, salesVars,
                            SeatTypeOK, inventoryVars

\* The sale of a reservation keeps types.
LEMMA SellType ==
    ASSUME CoreTypeOK, NEW r \in Reservations, NEW n \in Numbers, Sell(r, n)
    PROVE  CoreTypeOK'
  <1>1. attempts' \in [Reservations -> [Numbers -> AttemptRow]]
    BY SetAttemptType DEF Sell, CoreTypeOK
  <1>2. reservation' \in [Reservations -> ReservationRow]
    BY RowTypes DEF Sell, CoreTypeOK, ReservationTypeOK, TerminalStates
  <1>3. claims' \subseteq ClaimSet
    BY DEF Sell, CoreTypeOK, SeatTypeOK, ReservationTypeOK, ClaimsAfterSale, ClaimSet, Claim, Seat
  <1> QED BY <1>1, <1>2, <1>3 DEF CoreTypeOK, ReservationTypeOK, Sell, SalesTypeOK, salesVars,
                            SeatTypeOK

\* The start of a checkout keeps types.
LEMMA StartAttemptType ==
    ASSUME CoreTypeOK, NEW r \in Reservations, NEW n \in Numbers, StartAttempt(r, n)
    PROVE  CoreTypeOK'
  <1>1. CappedDeadline(r, ProtectionSeconds) \in Deadlines
    BY CappedDeadlineType, PolicyAssumption DEF CoreTypeOK
  <1>2. attempts' \in [Reservations -> [Numbers -> AttemptRow]]
    BY <1>1 DEF StartAttempt, CoreTypeOK, ReservationTypeOK, AttemptRow
  <1>3. reservation' \in [Reservations -> ReservationRow]
    BY RowTypes DEF StartAttempt, CoreTypeOK, ReservationTypeOK, ActiveStates
  <1> QED BY <1>2, <1>3 DEF CoreTypeOK, ReservationTypeOK, StartAttempt, SalesTypeOK, salesVars,
                            SeatTypeOK, inventoryVars

\* An expiry without reconciliation time keeps types.
LEMMA ExpireUnreconciledType ==
    ASSUME CoreTypeOK, NEW r \in Reservations, NEW n \in Numbers, ExpireUnreconciled(r, n)
    PROVE  CoreTypeOK'
  <1>1. SeatTypeOK'
    BY ReturnAllItemsType DEF ExpireUnreconciled
  <1>2. attempts' \in [Reservations -> [Numbers -> AttemptRow]]
    BY SetAttemptType DEF ExpireUnreconciled, CoreTypeOK
  <1>3. reservation' \in [Reservations -> ReservationRow]
    <2>1. \A row \in ReservationRow : [row EXCEPT !.state = "EXPIRED"] \in ReservationRow
      BY DEF ReservationRow, TerminalStates
    <2>2. ReservationTypeOK
      BY DEF CoreTypeOK
    <2>3. [ReconcilingRow(r) EXCEPT !.state = "EXPIRED"] \in ReservationRow
      BY <2>1, <2>2, RowTypes
    <2> QED BY <2>2, <2>3 DEF ExpireUnreconciled, ReservationTypeOK
  <1> QED BY <1>1, <1>2, <1>3 DEF CoreTypeOK, ReservationTypeOK, ExpireUnreconciled,
                                  SalesTypeOK, salesVars

\* A failed payment with release keeps types, and time is a time.
LEMMA FailAndReleaseType ==
    ASSUME CoreTypeOK, NEW r \in Reservations, NEW n \in Numbers, FailAndRelease(r, n)
    PROVE  CoreTypeOK'
  <1>1. SeatTypeOK'
    BY ReturnAllItemsType DEF FailAndRelease
  <1>2. attempts' \in [Reservations -> [Numbers -> AttemptRow]]
    BY SetAttemptType DEF FailAndRelease, CoreTypeOK
  <1>3. reservation' \in [Reservations -> ReservationRow]
    <2>1. RetryRow(r) \in ReservationRow /\ reservation \in [Reservations -> ReservationRow]
      BY RowTypes DEF CoreTypeOK, ReservationTypeOK
    <2>2. PICK state \in {"EXPIRED", "RELEASED"} :
            reservation' = [reservation EXCEPT ![r] = [RetryRow(r) EXCEPT !.state = state]]
      BY DEF FailAndRelease
    <2>3. [RetryRow(r) EXCEPT !.state = state] \in ReservationRow
      BY <2>1, StateUpdateType DEF TerminalStates
    <2> QED BY <2>1, <2>2, <2>3
  <1>4. now' \in Nat
    BY DEF FailAndRelease, CoreTypeOK, ReservationTypeOK
  <1> QED BY <1>1, <1>2, <1>3, <1>4 DEF CoreTypeOK, ReservationTypeOK, FailAndRelease,
                                  SalesTypeOK, salesVars

\* Seats that are taken become claims of their reservation.
LEMMA AcquireType ==
    ASSUME NEW C \in SUBSET ClaimSet, NEW r \in Reservations, NEW S \in SUBSET Seat
    PROVE  ClaimsAfterAcquire(C, r, S) \subseteq ClaimSet
  BY DEF ClaimsAfterAcquire, ClaimSet, Claim, Seat

\* A requested composition is a well-typed item set.
LEMMA OrdersType ==
    ASSUME ReservationTypeOK, NEW r \in Reservations, NEW q \in Orders
    PROVE  [items EXCEPT ![r] = q] \in
             [Reservations -> [seats : SUBSET Seat, places : [Sources -> [Pools -> Nat]]]]
  BY ExceptType, OrdersAssumption DEF ReservationTypeOK

\* Create keeps types.
LEMMA CreateType ==
    ASSUME CoreTypeOK, NEW r \in Reservations, NEW q \in Orders, Create(r, q)
    PROVE  CoreTypeOK'
  <1>1. q.seats \in SUBSET Seat
    BY OrdersAssumption
  <1>2. claims' \subseteq ClaimSet
    BY <1>1, AcquireType DEF Create, CoreTypeOK, SeatTypeOK
  <1>3. items' \in [Reservations -> [seats : SUBSET Seat, places : [Sources -> [Pools -> Nat]]]]
    BY OrdersType DEF Create, CoreTypeOK
  <1>4. reservation' \in [Reservations -> ReservationRow]
    BY RowTypes, ExceptType DEF Create, CoreTypeOK, ReservationTypeOK
  <1> QED BY <1>2, <1>3, <1>4 DEF CoreTypeOK, ReservationTypeOK, Create, SalesTypeOK,
                                  salesVars, SeatTypeOK

\* Modify keeps types, in all its branches.
LEMMA ModifyType ==
    ASSUME CoreTypeOK, NEW r \in Reservations, NEW q \in Orders, Modify(r, q)
    PROVE  CoreTypeOK'
  <1>1. CASE Expire(r)
    BY <1>1, ExpireType
  <1>2. CASE ~Expire(r)
    <2>1. ChangeItems(r, q) /\ UNCHANGED <<now, reservation, attempts, allocation, block,
                                          issuedFrom, salesVars>>
      BY <1>2 DEF Modify
    <2>2. /\ items[r].seats \ q.seats \in SUBSET Seat
          /\ q.seats \ items[r].seats \in SUBSET Seat
      BY OrdersAssumption DEF CoreTypeOK, ReservationTypeOK
    <2>3. CanReturn(r, items[r].seats \ q.seats, Excess(items[r].places, q.places))
      BY <2>1 DEF ChangeItems
    <2>4. /\ ClaimsAfterReturn(r, items[r].seats \ q.seats) \subseteq ClaimSet
          /\ membership' \in [Allocations -> [Units -> {"NONE", "ACTIVE", "RELEASED"}]]
      BY <2>1, <2>2, <2>3, ReturnType DEF ChangeItems, CoreTypeOK
    <2>5. claims' \subseteq ClaimSet
      BY <2>1, <2>2, <2>4, AcquireType DEF ChangeItems
    <2>6. items' \in [Reservations -> [seats : SUBSET Seat, places : [Sources -> [Pools -> Nat]]]]
      BY <2>1, OrdersType DEF ChangeItems, CoreTypeOK
    <2> QED BY <2>1, <2>4, <2>5, <2>6 DEF CoreTypeOK, ReservationTypeOK, SalesTypeOK,
                                          salesVars, SeatTypeOK
  <1> QED BY <1>1, <1>2

\* Every step of a handler that is not Create or Modify, and every step of the
\* worker, is one of these.
SharedStep(r) ==
    \/ State(r) \in {"HELD", "PAYMENT_RETRY"} /\ Expire(r)
    \/ ReconciliationOver(r) /\ Expire(r)
    \/ /\ State(r) = "RECONCILING" /\ ~ReconciliationOver(r)
       /\ AbandonUncertain(r) /\ ReleaseItems(r)
    \/ State(r) \in {"HELD", "PAYMENT_RETRY"} /\ ReleaseItems(r) /\ UNCHANGED attempts
    \/ \E n \in Numbers :
         \/ State(r) \in {"HELD", "PAYMENT_RETRY"} /\ ~HoldOver(r) /\ StartAttempt(r, n)
         \/ InCheckout(r, n) /\ Reconcile(r, n)
         \/ /\ InCheckout(r, n) /\ ProtectionDue(r, n) /\ Due(ReconcilingRow(r).recon)
            /\ ExpireUnreconciled(r, n)
         \/ InCheckout(r, n) /\ FailAndRelease(r, n)
         \/ /\ InCheckout(r, n) \/ (InDoubt(r, n) /\ ~ReconciliationOver(r))
            /\ FailToRetry(r, n)
         \/ /\ \/ InCheckout(r, n) /\ ~(ProtectionDue(r, n) /\ Due(ReconcilingRow(r).recon))
               \/ InDoubt(r, n) /\ ~ReconciliationOver(r)
            /\ Sell(r, n)

\* The guards of the handlers and of the worker lead to the shared steps only.
LEMMA HandlerSteps ==
    ASSUME NEW r \in Reservations
    PROVE  /\ Handler(r) => SharedStep(r) \/ \E q \in Orders : Create(r, q) \/ Modify(r, q)
           /\ MaterializeDue(r) => SharedStep(r)
  <1>1. ResolveNoPayment(r) => SharedStep(r)
    BY DEF ResolveNoPayment, SharedStep
  <1>2. ASSUME NEW n \in Numbers
        PROVE  /\ BeginCheckout(r, n) => SharedStep(r)
               /\ Confirm(r, n) => SharedStep(r)
               /\ Release(r, n) => SharedStep(r)
               /\ MarkPaymentUncertain(r, n) => SharedStep(r)
               /\ \A disposition : PaymentFailure(r, n, disposition) => SharedStep(r)
    <2>1. BeginCheckout(r, n) => SharedStep(r)
      BY DEF BeginCheckout, HoldOver, SharedStep
    <2>2. Confirm(r, n) => SharedStep(r)
      BY DEF Confirm, SharedStep
    <2>3. Release(r, n) => SharedStep(r)
      BY DEF Release, HoldOver, Releasable, SharedStep
    <2>4. MarkPaymentUncertain(r, n) => SharedStep(r)
      BY DEF MarkPaymentUncertain, SharedStep
    <2>5. ASSUME NEW disposition
          PROVE  PaymentFailure(r, n, disposition) => SharedStep(r)
      <3>1. /\ InCheckout(r, n) /\ Reconcile(r, n) => SharedStep(r)
            /\ InCheckout(r, n) /\ FailAndRelease(r, n) => SharedStep(r)
            /\ ReconciliationOver(r) /\ Expire(r) => SharedStep(r)
        BY DEF SharedStep
      <3>2. (InCheckout(r, n) \/ (InDoubt(r, n) /\ ~ReconciliationOver(r))) /\ FailToRetry(r, n)
              => SharedStep(r)
        BY DEF SharedStep
      <3> QED BY <1>1, <3>1, <3>2 DEF PaymentFailure
    <2> QED BY <2>1, <2>2, <2>3, <2>4, <2>5
  <1>3. MaterializeDue(r) => SharedStep(r)
    BY DEF MaterializeDue, HoldOver, SharedStep
  <1> QED BY <1>1, <1>2, <1>3 DEF Handler, Settlement

\* Every shared step keeps types.
LEMMA SharedStepType ==
    ASSUME CoreTypeOK, NEW r \in Reservations, SharedStep(r)
    PROVE  CoreTypeOK'
  <1>1. CASE ReleaseItems(r) /\ (AbandonUncertain(r) \/ UNCHANGED attempts)
    <2>1. attempts' \in [Reservations -> [Numbers -> AttemptRow]]
      BY <1>1, AbandonUncertainType DEF CoreTypeOK, ReservationTypeOK
    <2> QED BY <1>1, <2>1, ReleaseItemsType
  <1> QED BY <1>1, ExpireType, ReconcileType, StartAttemptType, FailToRetryType, SellType,
             ExpireUnreconciledType, FailAndReleaseType DEF SharedStep

\* Event and Partner commands keep the types of their rows.
LEMMA SalesType ==
    ASSUME SalesTypeOK, SalesNext
    PROVE  SalesTypeOK'
  BY DEF SalesTypeOK, SalesNext, OpenSales, PauseSales, ResumeSales, CloseSales,
         CompleteEvent, CancelEvent, transitionLifecycle, EventStates, SetEnabled,
         GrantEventAccess, DisableEventAccess

\* The commands on Allocations, Blocks and pools keep types.
LEMMA RestrictionsType ==
    ASSUME SeatTypeOK, RestrictionsNext
    PROVE  SeatTypeOK'
  <1>1. ASSUME NEW a \in Allocations, NEW t \in Targets, NEW channel \in Channels,
               NEW dest \in Sources \ {a}, CreateAllocation(a, channel, dest, t)
        PROVE  SeatTypeOK'
    <2>1. t.units \subseteq Units
      BY TargetsAssumption
    <2>2. claims' \subseteq ClaimSet
      BY <1>1, <2>1 DEF CreateAllocation, SeatTypeOK, ClaimSet, Claim
    <2>3. allocation' \in [Allocations -> AllocationRow]
      BY <1>1 DEF CreateAllocation, SeatTypeOK, AllocationRow
    <2>4. membership' \in [Allocations -> [Units -> {"NONE", "ACTIVE", "RELEASED"}]]
      BY <1>1 DEF CreateAllocation, SeatTypeOK
    <2> QED BY <1>1, <2>2, <2>3, <2>4 DEF CreateAllocation, SeatTypeOK
  <1>2. ASSUME NEW a \in Allocations, NEW t \in Targets, IssueNonPublic(a, t)
        PROVE  SeatTypeOK'
    <2>1. t.units \subseteq Units
      BY TargetsAssumption
    <2>2. \A u \in t.units : Claim(u, "ISSUANCE", a) \in ClaimSet
      BY <2>1 DEF ClaimSet, Claim
    <2>3. claims' \subseteq ClaimSet
      BY <1>2, <2>2 DEF IssueNonPublic, SeatTypeOK
    <2> QED BY <1>2, <2>3 DEF IssueNonPublic, SeatTypeOK
  <1>3. ASSUME NEW a \in Allocations, ReleaseAllocation(a)
        PROVE  SeatTypeOK'
    <2> DEFINE dest == allocation[a].dest
    <2>1. dest # Shared => dest \in Allocations
      BY <1>3 DEF ReleaseAllocation, Live
    <2>2. claims' \subseteq ClaimSet
      <3>1. claims' = ClaimsAfterRelease(a, dest)
        BY <1>3 DEF ReleaseAllocation
      <3>2. dest # Shared => \A u \in Units : Claim(u, "ALLOCATION", dest) \in ClaimSet
        BY <2>1 DEF ClaimSet, Claim
      <3> QED BY <3>1, <3>2 DEF ClaimsAfterRelease, OwnUnits, SeatTypeOK
    <2>3. allocation' \in [Allocations -> AllocationRow]
      BY <1>3 DEF ReleaseAllocation, SeatTypeOK, AllocationRow
    <2>4. membership' \in [Allocations -> [Units -> {"NONE", "ACTIVE", "RELEASED"}]]
      BY <1>3 DEF ReleaseAllocation, MembershipAfterRelease, SeatTypeOK
    <2> QED BY <1>3, <2>2, <2>3, <2>4 DEF ReleaseAllocation, SeatTypeOK
  <1>4. ASSUME NEW b \in Blocks, NEW t \in Targets, CreateBlock(b, t)
        PROVE  SeatTypeOK'
    <2>1. t.units \subseteq Units
      BY TargetsAssumption
    <2>2. claims' \subseteq ClaimSet
      BY <1>4, <2>1 DEF CreateBlock, SeatTypeOK, ClaimSet, Claim
    <2>3. [state |-> "ACTIVE", blocked |-> t.places] \in BlockRow
      BY TargetsAssumption DEF BlockRow
    <2>4. block' \in [Blocks -> BlockRow]
      BY <1>4, <2>3 DEF CreateBlock, SeatTypeOK
    <2> QED BY <1>4, <2>2, <2>4 DEF CreateBlock, SeatTypeOK
  <1>5. ASSUME NEW b \in Blocks, ReleaseBlock(b)
        PROVE  SeatTypeOK'
    <2>1. [state |-> "RELEASED", blocked |-> NoBlock.blocked] \in BlockRow
      BY DEF BlockRow, NoBlock
    <2>2. block' \in [Blocks -> BlockRow]
      BY <1>5, <2>1 DEF ReleaseBlock, SeatTypeOK
    <2> QED BY <1>5, <2>2 DEF ReleaseBlock, SeatTypeOK
  <1>6. ASSUME NEW p \in Pools, NEW capacity \in Capacities, SetGACapacity(p, capacity)
        PROVE  SeatTypeOK'
    BY <1>6 DEF SetGACapacity, SeatTypeOK
  <1> QED BY <1>1, <1>2, <1>3, <1>4, <1>5, <1>6 DEF RestrictionsNext

\* The state that no reservation handler looks at twice: the clock and the
\* operator's commands.
LEMMA OperatorType ==
    ASSUME CoreTypeOK, Operator
    PROVE  CoreTypeOK'
  <1>1. CASE SalesNext /\ UNCHANGED inventoryVars
    BY <1>1, SalesType DEF CoreTypeOK, Operator, ReservationTypeOK, SeatTypeOK, inventoryVars
  <1>2. CASE RestrictionsNext
    <2>1. UNCHANGED salesVars
      BY <1>2 DEF RestrictionsNext, CreateAllocation, IssueNonPublic, ReleaseAllocation,
                  CreateBlock, ReleaseBlock, SetGACapacity
    <2> QED BY <1>2, <2>1, RestrictionsType DEF CoreTypeOK, Operator, ReservationTypeOK,
                                                SalesTypeOK, salesVars
  <1>3. ASSUME NEW a \in Allocations, NEW channel \in Channels,
               ReclassifyAllocation(a, channel)
        PROVE  CoreTypeOK'
    <2>1. allocation' \in [Allocations -> AllocationRow]
      BY <1>3 DEF ReclassifyAllocation, CoreTypeOK, SeatTypeOK, AllocationRow
    <2> QED BY <1>3, <2>1 DEF ReclassifyAllocation, CoreTypeOK, SeatTypeOK, Operator,
                              ReservationTypeOK, SalesTypeOK, salesVars
  <1> QED BY <1>1, <1>2, <1>3 DEF Operator

\* The initial state is well typed.
LEMMA InitType == Init => CoreTypeOK
  <1> SUFFICES ASSUME Init PROVE CoreTypeOK
    OBVIOUS
  <1>1. SalesTypeOK
    BY DEF Init, SalesInit, SalesTypeOK, EventStates
  <1>2. SeatTypeOK
    BY DEF Init, InventoryInit, SeatTypeOK, NoAllocation, AllocationRow, Channels, Sources,
           NoBlock, BlockRow
  <1>3. ReservationTypeOK
    BY DEF Init, ReservationTypeOK, NoReservation, NoItems, NoPlaces, NoAttempt,
           ReservationRow, AttemptRow, Deadlines, NoDeadline
  <1> QED BY <1>1, <1>2, <1>3 DEF CoreTypeOK

\* Every step keeps types.
LEMMA StepType == CoreTypeOK /\ [Next]_vars => CoreTypeOK'
  <1> SUFFICES ASSUME CoreTypeOK, [Next]_vars PROVE CoreTypeOK'
    OBVIOUS
  <1>1. CASE Tick
    BY <1>1 DEF Tick, CoreTypeOK, SalesTypeOK, SeatTypeOK, ReservationTypeOK, inventoryVars,
                salesVars
  <1>2. CASE Operator
    BY <1>2, OperatorType
  <1>3. CASE Materialize
    BY <1>3, HandlerSteps, SharedStepType DEF Materialize
  <1>4. ASSUME NEW r \in Reservations, Handler(r)
        PROVE  CoreTypeOK'
    BY <1>4, HandlerSteps, SharedStepType, CreateType, ModifyType
  <1>5. CASE UNCHANGED vars
    BY <1>5 DEF vars, CoreTypeOK, SalesTypeOK, SeatTypeOK, ReservationTypeOK, inventoryVars,
                salesVars
  <1> QED BY <1>1, <1>2, <1>3, <1>4, <1>5 DEF Next

\* Every reachable state is well typed: claims have owners of the right kind,
\* Allocations, reservations and attempts are in states the schema knows, and
\* deadlines are times.
THEOREM TypeCorrect == Spec => []CoreTypeOK
  BY InitType, StepType, PTL DEF Spec

-----------------------------------------------------------------------------
(* Checkouts.  The invariant relates the row of one reservation, x, to its *)
(* attempts, f.                                                            *)

\* At most one attempt is ACTIVE, UNCERTAIN or CONFIRMED, in the state of the
\* reservation that goes with it, and no deadline under which a sale is still
\* accepted lies beyond the maximum lifetime.
CheckoutRowOK(x, f) ==
    /\ \A n, m \in Numbers :
         f[n].state = f[m].state /\ f[n].state \in {"ACTIVE", "UNCERTAIN", "CONFIRMED"} => n = m
    /\ x.state = "COMMITTING" <=> \E n \in Numbers : f[n].state = "ACTIVE"
    /\ x.state = "RECONCILING" <=> \E n \in Numbers : f[n].state = "UNCERTAIN"
    /\ x.state = "CONFIRMED" <=> \E n \in Numbers : f[n].state = "CONFIRMED"
    /\ x.state = "RECONCILING" => x.recon <= x.maxLifetime
    /\ \A n \in Numbers : f[n].state = "ACTIVE" => f[n].protection <= x.maxLifetime

CheckoutInv == \A r \in Reservations : CheckoutRowOK(reservation[r], attempts[r])

\* A reservation without a payment under way ends or is modified.
LEMMA IdleMove ==
    ASSUME NEW x, NEW f, CheckoutRowOK(x, f), NEW y,
           x.state \in {"NONE", "HELD", "PAYMENT_RETRY"},
           y.state \in {"HELD", "RELEASED", "EXPIRED"}
    PROVE  CheckoutRowOK(y, f)
  BY DEF CheckoutRowOK

\* It starts a checkout.
LEMMA StartMove ==
    ASSUME NEW x, NEW f, CheckoutRowOK(x, f), NEW y, NEW g, NEW n \in Numbers,
           x.state \in {"HELD", "PAYMENT_RETRY"}, y.state = "COMMITTING",
           g[n].state = "ACTIVE", g[n].protection <= y.maxLifetime,
           \A m \in Numbers \ {n} : g[m] = f[m]
    PROVE  CheckoutRowOK(y, g)
  BY DEF CheckoutRowOK

\* The attempt under way gets an outcome, or comes in doubt.
LEMMA OutcomeMove ==
    ASSUME NEW x, NEW f, CheckoutRowOK(x, f), NEW y, NEW g, NEW n \in Numbers,
           f[n].state \in {"ACTIVE", "UNCERTAIN"},
           \/ y.state = "RECONCILING" /\ g[n].state = "UNCERTAIN" /\ y.recon <= y.maxLifetime
           \/ y.state = "PAYMENT_RETRY" /\ g[n].state = "PAYMENT_FAILED"
           \/ y.state \in {"RELEASED", "EXPIRED"} /\ g[n].state \in {"PAYMENT_FAILED", "ABANDONED"}
           \/ y.state = "CONFIRMED" /\ g[n].state = "CONFIRMED",
           \A m \in Numbers \ {n} : g[m] = f[m]
    PROVE  CheckoutRowOK(y, g)
  <1>1. \A m \in Numbers \ {n} : f[m].state \notin {"ACTIVE", "UNCERTAIN", "CONFIRMED"}
    BY DEF CheckoutRowOK
  <1>2. \A m \in Numbers \ {n} : g[m].state \notin {"ACTIVE", "UNCERTAIN", "CONFIRMED"}
    BY <1>1
  <1> QED BY <1>2 DEF CheckoutRowOK

\* What SetAttempt does to the attempts.
LEMMA SetAttemptEffect ==
    ASSUME ReservationTypeOK, NEW r \in Reservations, NEW n \in Numbers, NEW state,
           SetAttempt(r, n, state)
    PROVE  /\ attempts'[r][n].state = state
           /\ \A m \in Numbers \ {n} : attempts'[r][m] = attempts[r][m]
           /\ \A o \in Reservations \ {r} : attempts'[o] = attempts[o]
  <1>1. attempts[r][n] \in AttemptRow /\ attempts[r] \in [Numbers -> AttemptRow]
    BY DEF ReservationTypeOK
  <1>2. attempts' = [attempts EXCEPT ![r] =
            [attempts[r] EXCEPT ![n] = [attempts[r][n] EXCEPT !.state = state]]]
    BY Zenon DEF SetAttempt
  <1>3. [attempts[r][n] EXCEPT !.state = state].state = state
    BY <1>1 DEF AttemptRow
  <1> QED BY <1>1, <1>2, <1>3 DEF ReservationTypeOK

\* What AbandonUncertain does, when one attempt is UNCERTAIN.
LEMMA AbandonEffect ==
    ASSUME ReservationTypeOK, NEW r \in Reservations, AbandonUncertain(r),
           CheckoutRowOK(reservation[r], attempts[r]), State(r) = "RECONCILING"
    PROVE  /\ \E n \in Numbers :
                /\ AttemptState(r, n) = "UNCERTAIN" /\ AttemptState(r, n)' = "ABANDONED"
                /\ \A m \in Numbers \ {n} : attempts'[r][m] = attempts[r][m]
           /\ \A o \in Reservations \ {r} : attempts'[o] = attempts[o]
  <1>1. PICK n \in Numbers : AttemptState(r, n) = "UNCERTAIN"
    BY DEF CheckoutRowOK, State, AttemptState
  <1>2. \A m \in Numbers \ {n} : attempts[r][m].state # "UNCERTAIN"
    BY <1>1 DEF CheckoutRowOK, AttemptState
  <1>3. /\ attempts' = [attempts EXCEPT ![r] = attempts'[r]]
        /\ attempts'[r] = [m \in Numbers |->
             IF /\ attempts[r][m].state = "UNCERTAIN"
                /\ \A l \in Numbers : l > m => attempts[r][l].state # "UNCERTAIN"
             THEN [attempts[r][m] EXCEPT !.state = "ABANDONED"] ELSE attempts[r][m]]
    BY DEF AbandonUncertain, ReservationTypeOK
  <1>4. \A m \in Numbers \ {n} : attempts'[r][m] = attempts[r][m]
    BY <1>2, <1>3
  <1>5. attempts'[r][n] = [attempts[r][n] EXCEPT !.state = "ABANDONED"]
    <2>1. n \in Int /\ \A l \in Numbers : l > n => l # n /\ l \in Numbers \ {n}
      BY BoundsAssumption DEF Numbers
    <2>2. attempts[r][n].state = "UNCERTAIN"
      BY <1>1 DEF AttemptState
    <2> QED BY <1>2, <1>3, <2>1, <2>2
  <1>6. [attempts[r][n] EXCEPT !.state = "ABANDONED"].state = "ABANDONED"
    BY DEF ReservationTypeOK, AttemptRow
  <1>7. \A o \in Reservations \ {r} : attempts'[o] = attempts[o]
    BY <1>3 DEF ReservationTypeOK
  <1> QED BY <1>1, <1>4, <1>5, <1>6, <1>7 DEF AttemptState

\* A capped deadline does not lie beyond the maximum lifetime, and has passed
\* only when that has.
LEMMA CappedDeadlineBound ==
    ASSUME ReservationTypeOK, NEW r \in Reservations, NEW seconds \in Nat
    PROVE  /\ CappedDeadline(r, seconds) <= reservation[r].maxLifetime
           /\ seconds > 0 /\ Due(CappedDeadline(r, seconds)) => Due(reservation[r].maxLifetime)
           /\ ~Due(CappedDeadline(r, seconds)) => ~Due(reservation[r].maxLifetime)
  <1>1. now \in Int /\ reservation[r].maxLifetime \in Int
    BY DEF ReservationTypeOK, ReservationRow, Deadlines, NoDeadline
  <1> QED BY <1>1 DEF CappedDeadline, Due

\* The fields of the rows that the checkout handlers write.
LEMMA RowFieldsWritten ==
    ASSUME ReservationTypeOK, NEW r \in Reservations
    PROVE  /\ ReconcilingRow(r).state = "RECONCILING"
           /\ ReconcilingRow(r).recon = CappedDeadline(r, ReconciliationSeconds)
           /\ ReconcilingRow(r).maxLifetime = reservation[r].maxLifetime
           /\ RetryRow(r).state = "PAYMENT_RETRY"
           /\ RetryRow(r).maxLifetime = reservation[r].maxLifetime
           /\ \A state : /\ WithoutDeadlines(r, state).state = state
                         /\ WithoutDeadlines(r, state).maxLifetime = reservation[r].maxLifetime
                         /\ [ReconcilingRow(r) EXCEPT !.state = state].state = state
                         /\ [RetryRow(r) EXCEPT !.state = state].state = state
                         /\ [reservation[r] EXCEPT !.state = state].state = state
  <1>1. reservation[r] \in ReservationRow
    BY DEF ReservationTypeOK
  <1> QED BY <1>1 DEF ReconcilingRow, RetryRow, WithoutDeadlines, ReservationRow

\* What a shared step does to the reservation and to its attempts.
CheckoutMove(r) ==
    \/ /\ State(r) \in {"HELD", "PAYMENT_RETRY"}
       /\ State(r)' \in {"RELEASED", "EXPIRED"}
       /\ attempts'[r] = attempts[r]
    \/ \E n \in Numbers :
         /\ \A m \in Numbers \ {n} : attempts'[r][m] = attempts[r][m]
         /\ \/ /\ State(r) \in {"HELD", "PAYMENT_RETRY"} /\ State(r)' = "COMMITTING"
               /\ ~HoldOver(r)
               /\ AttemptState(r, n) = "NONE" /\ AttemptState(r, n)' = "ACTIVE"
               /\ attempts'[r][n].protection <= reservation'[r].maxLifetime
            \/ /\ InCheckout(r, n)
               /\ State(r)' = "RECONCILING" /\ AttemptState(r, n)' = "UNCERTAIN"
               /\ reservation'[r].recon <= reservation'[r].maxLifetime
            \/ /\ InCheckout(r, n) \/ (InDoubt(r, n) /\ ~ReconciliationOver(r))
               /\ State(r)' \in {"PAYMENT_RETRY", "RELEASED", "EXPIRED"}
               /\ AttemptState(r, n)' = "PAYMENT_FAILED"
            \/ /\ State(r)' \in {"RELEASED", "EXPIRED"} /\ AttemptState(r, n)' = "ABANDONED"
               /\ \/ InDoubt(r, n) /\ State(r)' = "RELEASED"
                  \/ InDoubt(r, n) /\ Due(reservation[r].recon)
                  \/ /\ InCheckout(r, n)
                     /\ ProtectionDue(r, n) /\ Due(reservation[r].maxLifetime)
            \/ /\ InCheckout(r, n) \/ InDoubt(r, n)
               /\ State(r)' = "CONFIRMED" /\ AttemptState(r, n)' = "CONFIRMED"
               /\ ~Due(reservation[r].maxLifetime)

\* Reservations other than r keep their row and their attempts.
OthersKeep(r) ==
    \A o \in Reservations \ {r} :
        reservation'[o] = reservation[o] /\ attempts'[o] = attempts[o]

\* Only the row of the reservation a step is about is written.
LEMMA RowsKept ==
    ASSUME ReservationTypeOK, NEW r \in Reservations, NEW row,
           reservation' = [reservation EXCEPT ![r] = row]
    PROVE  /\ reservation'[r] = row
           /\ \A o \in Reservations \ {r} : reservation'[o] = reservation[o]
  BY DEF ReservationTypeOK

\* SetState writes the state of one row.
LEMMA SetStateEffect ==
    ASSUME ReservationTypeOK, NEW r \in Reservations, NEW state, SetState(r, state)
    PROVE  /\ State(r)' = state
           /\ \A o \in Reservations \ {r} : reservation'[o] = reservation[o]
  <1>1. reservation[r] \in ReservationRow
    BY DEF ReservationTypeOK
  <1>2. [reservation[r] EXCEPT !.state = state].state = state
    BY <1>1 DEF ReservationRow
  <1>3. reservation' = [reservation EXCEPT ![r] = [reservation[r] EXCEPT !.state = state]]
    BY Zenon DEF SetState
  <1> QED BY <1>2, <1>3, RowsKept DEF State

\* Every shared step is such a move.
LEMMA SharedStepMoves ==
    ASSUME ReservationTypeOK, CheckoutInv, NEW r \in Reservations, SharedStep(r)
    PROVE  CheckoutMove(r) /\ OthersKeep(r)
  <1> USE DEF OthersKeep
  <1>1. CASE State(r) \in {"HELD", "PAYMENT_RETRY"} /\ Expire(r)
    <2>1. SetState(r, "EXPIRED") /\ attempts' = attempts
      BY <1>1 DEF Expire
    <2> QED BY <1>1, <2>1, SetStateEffect DEF CheckoutMove
  <1>2. CASE State(r) \in {"HELD", "PAYMENT_RETRY"} /\ ReleaseItems(r) /\ UNCHANGED attempts
    <2>1. SetState(r, "RELEASED") /\ attempts' = attempts
      BY <1>2 DEF ReleaseItems
    <2> QED BY <1>2, <2>1, SetStateEffect DEF CheckoutMove
  <1>3. CASE ReconciliationOver(r) /\ Expire(r)
    <2>1. /\ State(r) = "RECONCILING" /\ Due(reservation[r].recon)
          /\ AbandonUncertain(r) /\ SetState(r, "EXPIRED")
      BY <1>3 DEF Expire, ReconciliationOver
    <2> QED BY <2>1, SetStateEffect, AbandonEffect DEF CheckoutInv, CheckoutMove, InDoubt
  <1>4. CASE /\ State(r) = "RECONCILING" /\ ~ReconciliationOver(r)
             /\ AbandonUncertain(r) /\ ReleaseItems(r)
    <2>1. SetState(r, "RELEASED")
      BY <1>4 DEF ReleaseItems
    <2> QED BY <1>4, <2>1, SetStateEffect, AbandonEffect DEF CheckoutInv, CheckoutMove, InDoubt
  <1>5. ASSUME NEW n \in Numbers, State(r) \in {"HELD", "PAYMENT_RETRY"}, ~HoldOver(r),
               StartAttempt(r, n)
        PROVE  CheckoutMove(r) /\ OthersKeep(r)
    <2>1. /\ reservation'[r] = WithoutDeadlines(r, "COMMITTING")
          /\ \A o \in Reservations \ {r} : reservation'[o] = reservation[o]
      BY <1>5, RowsKept DEF StartAttempt
    <2>2. /\ attempts'[r][n] = [state |-> "ACTIVE",
                                protection |-> CappedDeadline(r, ProtectionSeconds)]
          /\ \A m \in Numbers \ {n} : attempts'[r][m] = attempts[r][m]
          /\ \A o \in Reservations \ {r} : attempts'[o] = attempts[o]
      BY <1>5 DEF StartAttempt, ReservationTypeOK
    <2>3. AttemptState(r, n) = "NONE"
      BY <1>5, BoundsAssumption DEF StartAttempt, IsNextNumber, Numbers
    <2>4. attempts'[r][n].protection <= reservation'[r].maxLifetime
      BY <2>1, <2>2, CappedDeadlineBound, PolicyAssumption, RowFieldsWritten
    <2> QED BY <1>5, <2>1, <2>2, <2>3, <2>4, RowFieldsWritten
            DEF CheckoutMove, State, AttemptState
  <1>6. ASSUME NEW n \in Numbers, InCheckout(r, n), Reconcile(r, n)
        PROVE  CheckoutMove(r) /\ OthersKeep(r)
    <2>1. /\ reservation'[r] = ReconcilingRow(r)
          /\ \A o \in Reservations \ {r} : reservation'[o] = reservation[o]
      BY <1>6, RowsKept DEF Reconcile
    <2>2. reservation'[r].recon <= reservation'[r].maxLifetime
      BY <2>1, CappedDeadlineBound, PolicyAssumption, RowFieldsWritten
    <2> QED BY <1>6, <2>1, <2>2, SetAttemptEffect, RowFieldsWritten
            DEF Reconcile, CheckoutMove, State, AttemptState
  <1>7. ASSUME NEW n \in Numbers, InCheckout(r, n), ProtectionDue(r, n),
               Due(ReconcilingRow(r).recon), ExpireUnreconciled(r, n)
        PROVE  CheckoutMove(r) /\ OthersKeep(r)
    <2>1. /\ State(r)' = "EXPIRED"
          /\ \A o \in Reservations \ {r} : reservation'[o] = reservation[o]
      <3> DEFINE row == [ReconcilingRow(r) EXCEPT !.state = "EXPIRED"]
      <3>1. reservation' = [reservation EXCEPT ![r] = row]
        BY <1>7 DEF ExpireUnreconciled
      <3>2. row.state = "EXPIRED"
        BY RowFieldsWritten
      <3> HIDE DEF row
      <3> QED BY <3>1, <3>2, RowsKept DEF State
    <2>2. Due(reservation[r].maxLifetime)
      BY <1>7, CappedDeadlineBound, PolicyAssumption, RowFieldsWritten
    <2> QED BY <1>7, <2>1, <2>2, SetAttemptEffect
            DEF ExpireUnreconciled, CheckoutMove, AttemptState
  <1>8. ASSUME NEW n \in Numbers, InCheckout(r, n), FailAndRelease(r, n)
        PROVE  CheckoutMove(r) /\ OthersKeep(r)
    <2>1. /\ State(r)' \in {"RELEASED", "EXPIRED"}
          /\ \A o \in Reservations \ {r} : reservation'[o] = reservation[o]
      <3> DEFINE state == IF RetryRow(r).retry <= now' THEN "EXPIRED" ELSE "RELEASED"
                 row == [RetryRow(r) EXCEPT !.state = state]
      <3>1. reservation' = [reservation EXCEPT ![r] = row]
        BY <1>8 DEF FailAndRelease
      <3>2. state \in {"RELEASED", "EXPIRED"}
        OBVIOUS
      <3> HIDE DEF state
      <3>3. row.state = state
        BY RowFieldsWritten
      <3> HIDE DEF row
      <3> QED BY <3>1, <3>2, <3>3, RowsKept DEF State
    <2> QED BY <1>8, <2>1, SetAttemptEffect DEF FailAndRelease, CheckoutMove, AttemptState
  <1>9. ASSUME NEW n \in Numbers, FailToRetry(r, n),
               InCheckout(r, n) \/ (InDoubt(r, n) /\ ~ReconciliationOver(r))
        PROVE  CheckoutMove(r) /\ OthersKeep(r)
    <2>1. /\ State(r)' = "PAYMENT_RETRY"
          /\ \A o \in Reservations \ {r} : reservation'[o] = reservation[o]
      <3>1. reservation' = [reservation EXCEPT ![r] = RetryRow(r)]
        BY <1>9 DEF FailToRetry
      <3>2. RetryRow(r).state = "PAYMENT_RETRY"
        BY RowFieldsWritten
      <3> QED BY <3>1, <3>2, RowsKept DEF State
    <2> QED BY <1>9, <2>1, SetAttemptEffect DEF FailToRetry, CheckoutMove, AttemptState
  <1>10. ASSUME NEW n \in Numbers, Sell(r, n),
                \/ InCheckout(r, n) /\ ~(ProtectionDue(r, n) /\ Due(ReconcilingRow(r).recon))
                \/ InDoubt(r, n) /\ ~ReconciliationOver(r)
         PROVE  CheckoutMove(r) /\ OthersKeep(r)
    <2>1. /\ State(r)' = "CONFIRMED"
          /\ \A o \in Reservations \ {r} : reservation'[o] = reservation[o]
      <3> DEFINE row == WithoutDeadlines(r, "CONFIRMED")
      <3>1. reservation' = [reservation EXCEPT ![r] = row]
        BY <1>10 DEF Sell
      <3>2. row.state = "CONFIRMED"
        BY RowFieldsWritten
      <3> HIDE DEF row
      <3> QED BY <3>1, <3>2, RowsKept DEF State
    <2>2. /\ now \in Int /\ reservation[r].maxLifetime \in Int /\ reservation[r].recon \in Int
          /\ attempts[r][n].protection \in Int
      BY DEF ReservationTypeOK, ReservationRow, AttemptRow, Deadlines, NoDeadline
    <2>3. ~Due(reservation[r].maxLifetime)
      <3>1. CASE InCheckout(r, n) /\ ~ProtectionDue(r, n)
        <4>1. attempts[r][n].protection <= reservation[r].maxLifetime
          BY <3>1 DEF CheckoutInv, CheckoutRowOK, InCheckout, AttemptState
        <4> QED BY <2>2, <3>1, <4>1 DEF ProtectionDue, Due
      <3>2. CASE InCheckout(r, n) /\ ~Due(ReconcilingRow(r).recon)
        BY <3>2, CappedDeadlineBound, PolicyAssumption, RowFieldsWritten
      <3>3. CASE InDoubt(r, n) /\ ~ReconciliationOver(r)
        <4>1. reservation[r].recon <= reservation[r].maxLifetime /\ ~Due(reservation[r].recon)
          BY <3>3 DEF CheckoutInv, CheckoutRowOK, InDoubt, State, ReconciliationOver
        <4> QED BY <2>2, <4>1 DEF Due
      <3> QED BY <1>10, <3>1, <3>2, <3>3
    <2> QED BY <1>10, <2>1, <2>3, SetAttemptEffect DEF Sell, CheckoutMove, AttemptState
  <1> QED BY <1>1, <1>2, <1>3, <1>4, <1>5, <1>6, <1>7, <1>8, <1>9, <1>10 DEF SharedStep

\* Such a move keeps the rows of a reservation and of its attempts in order.
LEMMA MoveKeepsCheckout ==
    ASSUME NEW r \in Reservations, CheckoutRowOK(reservation[r], attempts[r]), CheckoutMove(r)
    PROVE  CheckoutRowOK(reservation'[r], attempts'[r])
  <1>1. CASE /\ State(r) \in {"HELD", "PAYMENT_RETRY"}
             /\ State(r)' \in {"RELEASED", "EXPIRED"} /\ attempts'[r] = attempts[r]
    <2>1. CheckoutRowOK(reservation'[r], attempts[r])
      BY <1>1, IdleMove DEF State
    <2> QED BY <1>1, <2>1
  <1>2. ASSUME NEW n \in Numbers,
               \A m \in Numbers \ {n} : attempts'[r][m] = attempts[r][m],
               State(r) \in {"HELD", "PAYMENT_RETRY"}, State(r)' = "COMMITTING",
               AttemptState(r, n)' = "ACTIVE",
               attempts'[r][n].protection <= reservation'[r].maxLifetime
        PROVE  CheckoutRowOK(reservation'[r], attempts'[r])
    BY <1>2, StartMove DEF State, AttemptState
  <1>3. ASSUME NEW n \in Numbers,
               \A m \in Numbers \ {n} : attempts'[r][m] = attempts[r][m],
               InCheckout(r, n) \/ InDoubt(r, n),
               \/ /\ State(r)' = "RECONCILING" /\ AttemptState(r, n)' = "UNCERTAIN"
                  /\ reservation'[r].recon <= reservation'[r].maxLifetime
               \/ /\ State(r)' \in {"PAYMENT_RETRY", "RELEASED", "EXPIRED"}
                  /\ AttemptState(r, n)' = "PAYMENT_FAILED"
               \/ State(r)' \in {"RELEASED", "EXPIRED"} /\ AttemptState(r, n)' = "ABANDONED"
               \/ State(r)' = "CONFIRMED" /\ AttemptState(r, n)' = "CONFIRMED"
        PROVE  CheckoutRowOK(reservation'[r], attempts'[r])
    <2>1. attempts[r][n].state \in {"ACTIVE", "UNCERTAIN"}
      BY <1>3 DEF InCheckout, InDoubt, AttemptState
    <2> QED BY <1>3, <2>1, OutcomeMove DEF State, AttemptState
  <1> QED BY <1>1, <1>2, <1>3 DEF CheckoutMove

\* Every step is a shared step of one reservation, or creates one, or leaves
\* the rows of reservations and attempts as they are.
LEMMA StepKinds ==
    ASSUME [Next]_vars
    PROVE  \/ \E r \in Reservations : SharedStep(r)
           \/ \E r \in Reservations, q \in Orders : Create(r, q)
           \/ UNCHANGED <<reservation, attempts>>
  <1>1. CASE Tick \/ Operator \/ UNCHANGED vars
    BY <1>1 DEF Tick, Operator, vars
  <1>2. CASE Materialize
    BY <1>2, HandlerSteps DEF Materialize
  <1>3. ASSUME NEW r \in Reservations, Handler(r)
        PROVE  \/ SharedStep(r)
               \/ \E q \in Orders : Create(r, q)
               \/ UNCHANGED <<reservation, attempts>>
    <2>1. ASSUME NEW q \in Orders, Modify(r, q)
          PROVE  SharedStep(r) \/ UNCHANGED <<reservation, attempts>>
      BY <2>1 DEF Modify, Modifiable, SharedStep
    <2> QED BY <1>3, <2>1, HandlerSteps
  <1> QED BY <1>1, <1>2, <1>3 DEF Next

\* A new reservation is HELD, and no other row changes.
LEMMA CreateEffect ==
    ASSUME ReservationTypeOK, NEW r \in Reservations, NEW q \in Orders, Create(r, q)
    PROVE  /\ State(r) = "NONE" /\ State(r)' = "HELD" /\ attempts' = attempts /\ now' = now
           /\ \A o \in Reservations \ {r} : reservation'[o] = reservation[o]
  BY DEF Create, HeldRow, ReservationTypeOK, State

\* No checkout exists in the initial state.
LEMMA InitCheckout == Init => CheckoutInv
  BY DEF Init, CheckoutInv, CheckoutRowOK, NoReservation, NoAttempt

\* Every step keeps checkouts in order.
LEMMA StepCheckout == ReservationTypeOK /\ CheckoutInv /\ [Next]_vars => CheckoutInv'
  <1> SUFFICES ASSUME ReservationTypeOK, CheckoutInv, [Next]_vars PROVE CheckoutInv'
    OBVIOUS
  <1>1. ASSUME NEW r \in Reservations, SharedStep(r) PROVE CheckoutInv'
    BY <1>1, SharedStepMoves, MoveKeepsCheckout DEF CheckoutInv, OthersKeep
  <1>2. ASSUME NEW r \in Reservations, NEW q \in Orders, Create(r, q) PROVE CheckoutInv'
    <2>1. CheckoutRowOK(reservation'[r], attempts'[r])
      BY <1>2, CreateEffect, IdleMove DEF CheckoutInv, State
    <2> QED BY <1>2, <2>1, CreateEffect DEF CheckoutInv
  <1>3. CASE UNCHANGED <<reservation, attempts>>
    BY <1>3 DEF CheckoutInv
  <1> QED BY <1>1, <1>2, <1>3, StepKinds

\* At every moment the attempts of a reservation go with its state, and the
\* deadlines a sale is accepted under lie within its lifetime.
THEOREM CheckoutsInvariant == Spec => []CheckoutInv
  <1>1. CoreTypeOK => ReservationTypeOK
    BY DEF CoreTypeOK
  <1> QED BY <1>1, InitCheckout, StepCheckout, TypeCorrect, PTL DEF Spec

\* "The" active attempt, "the" uncertain one and "the" confirmed one that
\* the handlers look for exist exactly when the state of the reservation says.
THEOREM AttemptsGoWithTheState == Spec => []AttemptsAgree
  <1>1. CheckoutInv => AttemptsAgree
    BY DEF CheckoutInv, CheckoutRowOK, AttemptsAgree, AttemptsIn, AttemptState, State
  <1> QED BY <1>1, CheckoutsInvariant, PTL

\* What a step may do to one attempt.
LEMMA StepOnAttempt ==
    ASSUME ReservationTypeOK, CheckoutInv, [Next]_vars, NEW r \in Reservations,
           NEW n \in Numbers, attempts'[r][n] # attempts[r][n]
    PROVE  CheckoutMove(r) /\ AttemptState(r, n) \in {"NONE", "ACTIVE", "UNCERTAIN"}
  <1>1. PICK o \in Reservations : SharedStep(o)
    BY StepKinds, CreateEffect
  <1>2. o = r /\ CheckoutMove(r)
    BY <1>1, SharedStepMoves DEF OthersKeep
  <1> QED BY <1>2 DEF CheckoutMove, InCheckout, InDoubt

\* No later command, retry or worker run rewrites a failed, abandoned or
\* confirmed attempt.
THEOREM OutcomesStay == Spec => AttemptOutcomeIsFinal
  <1>1. ASSUME ReservationTypeOK, CheckoutInv, [Next]_vars, NEW r \in Reservations,
               NEW n \in Numbers,
               AttemptState(r, n) \in {"PAYMENT_FAILED", "CONFIRMED", "ABANDONED"}
        PROVE  attempts'[r][n] = attempts[r][n]
    BY <1>1, StepOnAttempt
  <1>2. ReservationTypeOK /\ CheckoutInv /\ [Next]_vars =>
          [\A r \in Reservations, n \in Numbers :
              AttemptState(r, n) \in {"PAYMENT_FAILED", "CONFIRMED", "ABANDONED"} =>
                  attempts'[r][n] = attempts[r][n]]_vars
    BY <1>1
  <1>3. CoreTypeOK => ReservationTypeOK
    BY DEF CoreTypeOK
  <1> QED BY <1>2, <1>3, TypeCorrect, CheckoutsInvariant, PTL DEF Spec, AttemptOutcomeIsFinal

\* What a step that ends a reservation under checkout may be.
LEMMA StepOnState ==
    ASSUME ReservationTypeOK, CheckoutInv, [Next]_vars, NEW r \in Reservations,
           State(r)' # State(r), State(r) # "NONE"
    PROVE  CheckoutMove(r)
  <1>1. PICK o \in Reservations : SharedStep(o)
    BY StepKinds, CreateEffect DEF State
  <1>2. o = r
    BY <1>1, SharedStepMoves DEF OthersKeep, State
  <1> QED BY <1>1, <1>2, SharedStepMoves

\* Inventory under a payment that may have been accepted goes back only after
\* a failure report, an answer, or the end of every deadline that protects it.
THEOREM CheckoutsAreProtected == Spec => CheckoutIsProtected
  <1> DEFINE Step(r, n) ==
        (InCheckout(r, n) \/ InDoubt(r, n)) /\ State(r)' \in {"RELEASED", "EXPIRED"} =>
            \/ AttemptState(r, n)' = "PAYMENT_FAILED"
            \/ /\ AttemptState(r, n)' = "ABANDONED"
               /\ \/ InDoubt(r, n) /\ State(r)' = "RELEASED"
                  \/ InDoubt(r, n) /\ Due(reservation[r].recon)
                  \/ ProtectionDue(r, n) /\ Due(reservation[r].maxLifetime)
  <1>1. ASSUME ReservationTypeOK, CheckoutInv, [Next]_vars, NEW r \in Reservations,
               NEW n \in Numbers
        PROVE  Step(r, n)
    <2> SUFFICES ASSUME InCheckout(r, n) \/ InDoubt(r, n), State(r)' \in {"RELEASED", "EXPIRED"}
                 PROVE  \/ AttemptState(r, n)' = "PAYMENT_FAILED"
                        \/ /\ AttemptState(r, n)' = "ABANDONED"
                           /\ \/ InDoubt(r, n) /\ State(r)' = "RELEASED"
                              \/ InDoubt(r, n) /\ Due(reservation[r].recon)
                              \/ ProtectionDue(r, n) /\ Due(reservation[r].maxLifetime)
      OBVIOUS
    <2>1. CheckoutMove(r)
      BY <1>1, StepOnState DEF InCheckout, InDoubt
    <2>2. \A m \in Numbers : InCheckout(r, m) \/ InDoubt(r, m) => m = n
      BY <1>1 DEF CheckoutInv, CheckoutRowOK, InCheckout, InDoubt, AttemptState
    <2> QED BY <2>1, <2>2 DEF CheckoutMove, InCheckout, InDoubt
  <1>2. ReservationTypeOK /\ CheckoutInv /\ [Next]_vars =>
          [\A r \in Reservations, n \in Numbers : Step(r, n)]_vars
    BY <1>1
  <1>3. CoreTypeOK => ReservationTypeOK
    BY DEF CoreTypeOK
  <1> QED BY <1>2, <1>3, TypeCorrect, CheckoutsInvariant, PTL DEF Spec, CheckoutIsProtected

\* Whatever chain of retries and reconciliations leads to a sale, it happens
\* before the maximum lifetime of the reservation.
THEOREM SalesAreWithinLifetime == Spec => SaleWithinLifetime
  <1>1. ASSUME ReservationTypeOK, CheckoutInv, [Next]_vars, NEW r \in Reservations,
               State(r) # "CONFIRMED", State(r)' = "CONFIRMED"
        PROVE  ~Due(reservation[r].maxLifetime)
    <2>1. PICK o \in Reservations : SharedStep(o)
      BY <1>1, StepKinds, CreateEffect DEF State
    <2>2. o = r
      BY <1>1, <2>1, SharedStepMoves DEF OthersKeep, State
    <2> QED BY <1>1, <2>1, <2>2, SharedStepMoves DEF CheckoutMove
  <1>2. ReservationTypeOK /\ CheckoutInv /\ [Next]_vars =>
          [\A r \in Reservations : State(r) # "CONFIRMED" /\ State(r)' = "CONFIRMED" =>
              ~Due(reservation[r].maxLifetime)]_vars
    BY <1>1
  <1>3. CoreTypeOK => ReservationTypeOK
    BY DEF CoreTypeOK
  <1> QED BY <1>2, <1>3, TypeCorrect, CheckoutsInvariant, PTL DEF Spec, SaleWithinLifetime

-----------------------------------------------------------------------------
(* The limit on live reservations.                                         *)

\* The clock never goes back.
LEMMA TimePasses ==
    ASSUME CoreTypeOK, [Next]_vars
    PROVE  now \in Nat /\ now' \in Nat /\ now <= now'
  <1> DEFINE Passed == now' = now \/ now' = now + 1
  <1>1. now \in Nat /\ now' \in Nat
    BY StepType DEF CoreTypeOK, ReservationTypeOK
  <1>2. ASSUME NEW r \in Reservations, SharedStep(r)
        PROVE  Passed
    <2>1. Expire(r) \/ ReleaseItems(r) => now' = now
      BY DEF Expire, ReleaseItems
    <2>2. ASSUME NEW n \in Numbers
          PROVE  /\ StartAttempt(r, n) => now' = now
                 /\ Reconcile(r, n) => now' = now
                 /\ ExpireUnreconciled(r, n) => now' = now
                 /\ FailAndRelease(r, n) => Passed
                 /\ FailToRetry(r, n) => now' = now
                 /\ Sell(r, n) => now' = now
      BY DEF StartAttempt, Reconcile, ExpireUnreconciled, FailAndRelease, FailToRetry, Sell
    <2>3. now' = now => Passed
      OBVIOUS
    <2> HIDE DEF Passed
    <2> QED BY <1>2, <2>1, <2>2, <2>3 DEF SharedStep
  <1>3. ASSUME Tick \/ Operator \/ UNCHANGED vars PROVE Passed
    BY <1>3 DEF Tick, Operator, vars
  <1>4. ASSUME NEW r \in Reservations, Handler(r)
        PROVE  Passed
    <2>1. ASSUME NEW q \in Orders, Create(r, q) \/ Modify(r, q)
          PROVE  now' = now
      BY <2>1 DEF Create, Modify, Expire
    <2>2. SharedStep(r) \/ \E q \in Orders : Create(r, q) \/ Modify(r, q)
      BY <1>4, HandlerSteps
    <2>3. now' = now => Passed
      OBVIOUS
    <2> HIDE DEF Passed
    <2> QED BY <1>2, <2>1, <2>2, <2>3
  <1>5. Passed
    <2> HIDE DEF Passed
    <2> QED BY <1>2, <1>3, <1>4, HandlerSteps DEF Next, Materialize
  <1> QED BY <1>1, <1>5

\* No step but Create makes a reservation count that did not count.
LEMMA CountingStep ==
    ASSUME CoreTypeOK, CheckoutInv, [Next]_vars, NEW r \in Reservations, Counts(r)', ~Counts(r)
    PROVE  \E q \in Orders : Create(r, q)
  <1>1. /\ ReservationTypeOK /\ now \in Nat /\ now' \in Nat /\ now <= now'
        /\ reservation[r].hold \in Int /\ reservation[r].retry \in Int
        /\ reservation[r].recon \in Int
    BY TimePasses DEF CoreTypeOK, ReservationTypeOK, ReservationRow, Deadlines, NoDeadline
  <1>2. ASSUME reservation'[r] = reservation[r] PROVE FALSE
    BY <1>1, <1>2 DEF Counts, Due, State
  <1>3. ASSUME NEW o \in Reservations, SharedStep(o) PROVE FALSE
    <2>1. CheckoutMove(o) /\ OthersKeep(o)
      BY <1>1, <1>3, SharedStepMoves
    <2>2. o = r
      BY <1>2, <2>1 DEF OthersKeep
    <2>3. State(r)' \in {"COMMITTING", "RECONCILING", "PAYMENT_RETRY", "HELD"}
      BY DEF Counts
    <2> QED BY <2>1, <2>2, <2>3 DEF CheckoutMove, Counts, HoldOver, ReconciliationOver,
                                    InCheckout, InDoubt
  <1>4. PICK o \in Reservations, q \in Orders : Create(o, q)
    BY <1>2, <1>3, StepKinds
  <1>5. o = r
    BY <1>1, <1>2, <1>4, CreateEffect
  <1> QED BY <1>4, <1>5

\* The reservations that count against the limit of Partner p.
Counted(p) == {r \in Reservations : PartnerOf[r] = p /\ Counts(r)}

\* No reservation counts in the initial state.
LEMMA InitLimit == Init => PartnerLimitHolds
  <1> SUFFICES ASSUME Init, NEW p \in Partners PROVE ActiveCount(p) <= MaxActivePerPartner
    BY DEF PartnerLimitHolds
  <1>1. Counted(p) = {}
    BY DEF Init, NoReservation, Counts, State, Counted
  <1>2. ActiveCount(p) = 0
    BY <1>1, FS_EmptySet DEF ActiveCount, Counted
  <1> QED BY <1>2, PolicyAssumption

\* Every step keeps within the limit.
LEMMA StepLimit ==
    CoreTypeOK /\ CheckoutInv /\ PartnerLimitHolds /\ [Next]_vars => PartnerLimitHolds'
  <1> SUFFICES ASSUME CoreTypeOK, CheckoutInv, PartnerLimitHolds, [Next]_vars, NEW p \in Partners
               PROVE  Cardinality(Counted(p)') <= MaxActivePerPartner
    BY DEF PartnerLimitHolds, ActiveCount, Counted
  <1>1. IsFiniteSet(Counted(p))
    BY NamesAssumption, FS_Subset DEF Counted
  <1>2. Cardinality(Counted(p)) \in Nat /\ Cardinality(Counted(p)) <= MaxActivePerPartner
    BY <1>1, FS_CardinalityType DEF PartnerLimitHolds, ActiveCount, Counted
  <1>3. CASE Counted(p)' \subseteq Counted(p)
    <2>1. /\ Cardinality(Counted(p)') \in Nat
          /\ Cardinality(Counted(p)') <= Cardinality(Counted(p))
      BY <1>1, <1>3, FS_Subset, FS_CardinalityType
    <2> QED BY <1>2, <2>1, PolicyAssumption
  <1>4. ASSUME NEW r \in Counted(p)' \ Counted(p)
        PROVE  Cardinality(Counted(p)') <= MaxActivePerPartner
    <2>1. r \in Reservations /\ PartnerOf[r] = p /\ Counts(r)' /\ ~Counts(r)
      BY DEF Counted
    <2>2. PICK q \in Orders : Create(r, q)
      BY <2>1, CountingStep
    <2>3. Cardinality(Counted(p)) < MaxActivePerPartner
      BY <2>1, <2>2 DEF Create, ActiveCount, Counted
    <2>4. Counted(p)' \subseteq Counted(p) \cup {r}
      <3> SUFFICES ASSUME NEW o \in Counted(p)', o # r PROVE o \in Counted(p)
        OBVIOUS
      <3>1. o \in Reservations /\ PartnerOf[o] = p /\ Counts(o)'
        BY DEF Counted
      <3>2. reservation'[o] = reservation[o] /\ now' = now
        BY <2>1, <2>2, <3>1, CreateEffect DEF CoreTypeOK
      <3>3. Counts(o)
        BY <3>1, <3>2 DEF Counts, Due, State
      <3> QED BY <3>1, <3>3 DEF Counted
    <2>5. /\ IsFiniteSet(Counted(p) \cup {r})
          /\ Cardinality(Counted(p) \cup {r}) = Cardinality(Counted(p)) + 1
      BY <1>1, FS_AddElement
    <2>6. /\ Cardinality(Counted(p)') \in Nat
          /\ Cardinality(Counted(p)') <= Cardinality(Counted(p) \cup {r})
      BY <2>4, <2>5, FS_Subset, FS_CardinalityType
    <2> QED BY <1>2, <2>3, <2>5, <2>6, PolicyAssumption
  <1> QED BY <1>3, <1>4

\* A Partner never has more live reservations than its limit: Create counts
\* under the lock, and no deadline, retry or reconciliation brings one back.
THEOREM PartnersKeepTheirLimit == Spec => []PartnerLimitHolds
  BY InitLimit, StepLimit, TypeCorrect, CheckoutsInvariant, PTL DEF Spec
=============================================================================
