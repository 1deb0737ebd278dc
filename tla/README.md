# Verification of tktsync

tktsync sells tickets for Events through Partners. Its core is a PostgreSQL
database and a Go API that decides, under row locks, who owns which seat or
general-admission (GA) place at every moment: held by a Reservation, sold, set
apart in an Allocation or a Block, or issued. Around it are web applications
that talk to the API over a network that loses and delays answers: the buyer's
selector, a Partner's storefront, the gate scanner, the administration console
with its floor-plan builder, and the developer documentation with its workbench.
This directory holds TLA+ specifications of both, the TLC configurations that
check them, and TLAPS proofs. Paths below are relative to
`src/backend/internal/` unless they start with `docs/`, `migrations/` or `apps/`
(which are under `src/`).

## 1. Inventory of the system

### The authority

| Component | State it keeps | Operations | Here |
|---|---|---|---|
| Event lifecycle (`event/lifecycle.go`) | `events.state` | open, pause, resume, close, complete, cancel | `EventSales` |
| Partner state (`partner/service.go`) | `partners.state`, `partner_event_access.state` | enable, disable, grant, revoke | `EventSales` (partly) |
| Allocations and Blocks (`allocation/`) | `allocations`, `blocks`, memberships, GA buckets, issuances | create, release, reclassify, issue non-public tickets | `Restrictions`, `Reservation` |
| GA capacity (`inventory/capacity.go`) | `ga_inventory_pools.capacity` | SetGACapacity | `Restrictions` |
| Inventory authority (`reservation/inventory_*.go`, `allocation_restore.go`) | `reserved_inventory_claims`, `ga_shared_inventory`, `ga_allocation_buckets` | acquire, return, consume | `Inventory` |
| Reservations (`reservation/`) | `reservations`, `reservation_items`, `checkout_attempts` | Create, Modify, BeginCheckout, Confirm, Release, PaymentFailure, MarkPaymentUncertain, ResolveNoPayment | `Reservation` (partly) |
| Materializer (`reservation/materializer.go`) | none of its own | take the next due reservation of an Event | `Reservation` |
| PATCH handlers (`partnerapi/reservation_commands.go`, `selectionapi/reservations.go`) | the items they have read | read, then Modify | `PatchRequests` (partly) |
| Admission (`admission/`, `admissionapi/`) | `admissions` | scan, override, reverse | `Admission` |
| Tickets and QR credentials (`reservation/ticket.go`, `admin_ticket.go`, `qr.go`) | tickets, credentials | replace, void | `Admission` (partly) |
| Outbox and webhooks (`outbox/`, `webhook/`) | facts, endpoints, secrets, deliveries, leases, attempts | append, dispatch, claim, deliver, finish, retry; endpoint administration | `OutboxDelivery` |
| Idempotent execution (`idempotency/`, `partnerapi/reservation_executor.go`, `adminapi/executor.go`, `platform/database/transaction.go`) | stored answers | claim, run, record, replay, retry | `MutationExecutor`, the Partner API's; the stored answers also in the modules of the clients |
| Buyer selection, availability (`selection/`, `selectionapi/`, `inventory/availability.go`, `resolve_offer.go`) | selection sessions | bootstrap, offers, the same reservation commands | the server's side of `SelectorSession` (partly) |
| Venue layouts, Event configuration (`venue/`, `event/`) | drawings, policies, prices | replace, publish, materialize | `LayoutBuilder`, rows of `AdminPages`, initial state of `Inventory` (partly) |
| Realtime hub (`realtimeapi/`) | subscriber buffers | subscribe, publish, overflow, resync | `RealtimeHub` (partly) |
| Re-release of voided inventory (`reservation/inventory_release.go`) | one row per ticket | release once | not modelled |
| Reporting, audit, authentication, HTTP layers, QR rendering | none, or append only | reads, decoding | not modelled |

### The applications

| Component | State it keeps | Operations | Here |
|---|---|---|---|
| Selector (`apps/selector-web`) | capability, the last answer of its query, choice, hold, one key per intent | choose, reserve, release, hand over, poll, reload | `SelectorSession` |
| Storefront (`apps/partner-demo-web`) | two sealed cookies; nothing on its server | connect, begin, confirm, fail, fetch the ticket | `Storefront` |
| Gate scanner (`apps/scanner-web`) | operator, event, camera, decision shown, one key per code | sign in, scan, retry, next, change the event, reload | `GateScanner` |
| Administration console (`apps/admin-web`) | query cache, mutations under way, keys, dialogs, a secret on the screen | about fifty commands on thirteen pages | `AdminPages`, `AdminConsole` |
| Floor-plan builder (`apps/admin-web/.../layout-builder`) | objects, what was loaded, what is dirty | add, edit, delete, save, publish, close | `LayoutBuilder` |
| Operator session (`apps/admin-web/src/auth`, `app`) | session of the browser and of the tab | sign in, invitation, recovery, sign out | `AdminSession` |
| Developer documentation (`apps/docs-web`) | route, layers, the request of the workbench | navigate, edit, ask, send | `DocsWorkbench` |
| Reviewer guide, generated clients, scripts | none | | not modelled |

How they interact. Every command is one READ COMMITTED transaction. It takes
the Event row (`FOR KEY SHARE`; a lifecycle command takes it `FOR UPDATE`), then
the Partner rows where they matter, the Reservation row, and then its inventory
rows in one global order, and holds them until it commits. The clock of the
database is read under those locks, so a command that waited judges deadlines by
the time it actually runs at. Deadlines are lazy: whichever command meets a
passed deadline first performs the transition, and commits it even though it
reports an error; the materializer, a polling worker, meets the rest. Facts for
webhooks and the realtime hub are written to an outbox in the same transaction.
The applications share nothing with the API but requests under an idempotency
key: the API stores the answer of a key, refusals included, and replays it; the
application decides when an intent keeps its key and when it draws another.

What is hard here:

- *Interleavings*: holds, Allocations, Blocks, issuances and reclassifications
  compete for the same units and places; an Allocation may be released while
  Reservations hold inventory from it, which then follows a chain of release
  destinations when they end. Two gates scan one ticket.
- *Time*: a hold, a checkout protection, a retry window and a reconciliation
  window, each capped by a maximum lifetime, and late answers to each of them.
- *Uncertain payments*: inventory may not be given away while a payment may have
  been accepted, nor kept for ever.
- *Accounting*: seven kinds of command move places between five counters.
- *Stale reads*: PATCH requests compute a composition from items read without a
  lock; pages act on what they read a while ago.
- *Delivery*: the call of a webhook runs outside any transaction, under a lease
  that may run out meanwhile; the loops of one worker share one lease owner id.
- *Lost answers*: the page does not know whether the command was carried out. A
  retry must find the answer, another intent must not; a gateway may answer in
  the server's place; a late answer finds a page that has gone on.

What makes each component correct:

- Inventory: one owner per unit; every claim backed by an entitled holder; a
  pool's places add up to its capacity; the chain of destinations never strands
  an item.
- Reservation: a Reservation owns all it lists until it ends; attempts have one
  outcome; a checkout is protected; a sale happens within the lifetime; attempts
  and Reservation agree; it always reaches an end.
- Allocations: inventory goes only through the channel of its Allocation.
- Partner: nobody expands what it holds when it may no longer acquire.
- PATCH: a request changes only what it names.
- Idempotency: the command of a key is decided once, takes effect exactly as decided,
  and is answered as stored, however requests repeat, overlap, restart and break.
- Hub: a page that reads slowly is told that it has missed something.
- Delivery: every fact reaches its subscribers' deliveries whatever fails in
  front of it; every delivery is settled, once, as its log of attempts says.
- Admission: one active admission per ticket; one green screen per admission;
  nobody turned away because of a scan whose answer was lost.
- Selector: only what is offered is chosen; a hold is shown as long as it is
  real and is never out of reach; the page catches up with the server.
- Storefront: the attempt that protects an order, and the ticket it became, stay
  within reach of the cookie.
- Console: one effect per intent; no secret is lost; no result beside stale data.
- Builder: keys are unique; what nobody touched goes back as it came; "saved"
  means saved; what is published is what was confirmed.
- Session: no page before an invited administrator has chosen a password.
- Workbench: nothing goes out that its developer did not mean.

The full list of hazards, each with its line and the properties that cover it,
is in `PROJECT.json`.

## 2. Modules

| Module | Extends | What it is |
|---|---|---|
| `EventSales` | | Event and Partner states and their commands |
| `Inventory` | `EventSales` | claims, GA rows, Allocations and Blocks; operators for acquire, return, consume |
| `Restrictions` | `Inventory` | the operator's commands |
| `Reservation` | `Restrictions` | the reservation commands, the clock, the worker; `Spec` and `FairSpec` |
| `ReservationProperties` | `Reservation` | everything promised about it |
| `SeatLedger` | | abstract specification: who holds which seat |
| `PatchRequests` | `Reservation` | PATCH as read followed by Modify |
| `RunOnce` | | abstract specification: what an Idempotency-Key promises |
| `MutationExecutor` | | the Partner API's executor: claim, savepoint, stored outcome, COMMIT, restarts |
| `InventoryLocks` | | which rows the commands on an Event lock, in which order |
| `RealtimeHub` | | Publish, the bounded channel of each stream, and its handler |
| `OutboxDelivery` | | outbox, dispatcher, webhook endpoints and delivery workers |
| `Admission` | | the server's side of the gate: scan, override, reversal, replacement, voiding |
| `GateScanner` | `Admission` | one device at the gate and the network between |
| `SelectorSession` | | one page of the selector and the Selection API |
| `Storefront` | | the storefront's tabs, its cookies, its server and the Partner API |
| `AdminPages` | | tables: the buttons of each page, what a command sends and does |
| `AdminConsole` | `AdminPages` | the machine under them: query cache, mutations, keys, dialogs |
| `LayoutBuilder` | | the floor-plan builder and the layout commands of the API |
| `AdminSession` | | the way in to the console |
| `DocsWorkbench` | | the workbench of the developer documentation |
| `ReservationProofs` | `ReservationProperties`, TLAPS | type correctness; the invariant of checkouts; deadlines, outcomes, the limit of a Partner |
| `SeatProofs` | `ReservationProofs`, `SeatLedger` | the invariant of reserved seats; channels; the refinement of `SeatLedger` |
| `PlaceProofs` | `SeatProofs` | the invariant of GA places; release chains |
| `DeliveryProofs` | `OutboxDelivery`, TLAPS | the invariant of webhook deliveries |
| `PartnerGateProofs` | `GateScanner`, `Storefront`, TLAPS | the invariant of the gate; what becomes of an admission whose answer was lost; the invariant of the storefront's cookie and its keys |
| `SelectorProofs` | `SelectorSession`, TLAPS | the invariant of the selector's holds and keys |
| `ApiProofs` | `PatchRequests`, `MutationExecutor`, `RealtimeHub`, `InventoryLocks`, `ReservationProofs`, TLAPS | the invariants of the executor and of the hub; the refinement of `RunOnce`; stale PATCH requests are modifications; the order of the locks |
| `ConsoleProofs` | `AdminConsole`, `LayoutBuilder`, `AdminSession`, `DocsWorkbench`, TLAPS | the invariants of the console, the builder, the session and the workbench |
| `MCSeats`, `MCPlaces`, `MCCheckout`, `MCChannels`, `MCPatch`, `MCDelivery`, `MCSelector` | one module each | instances for TLC |
| `MCPartnerGate` | `GateScanner`, `Storefront` | one behaviour is about the gate or about the storefront |
| `MCApi` | `MCPatch`, `MutationExecutor`, `RealtimeHub`, `InventoryLocks` | one behaviour is about PATCH requests, the executor, the hub or the locks |
| `MCApps` | `AdminConsole`, `LayoutBuilder`, `AdminSession`, `DocsWorkbench` | one behaviour is about one of the four |

### State and code: the authority

| Variable | Table |
|---|---|
| `claims` | `reserved_inventory_claims` with `ended_at IS NULL`: unit, type, owner |
| `allocation`, `membership` | `allocations`; `allocation_reserved_units` (NONE = no row, RELEASED = `released_at` set) |
| `ga` | `ga_shared_inventory` (row `Shared`, whose `assigned` is the pool's capacity) and `ga_allocation_buckets` |
| `block` | `blocks` and `ga_block_buckets` |
| `issuedFrom` | Allocations that appear in `non_public_issuances` |
| `reservation`, `items`, `attempts` | `reservations`, `reservation_items` with `removed_at IS NULL`, `checkout_attempts` |
| `now` | `clock_timestamp()` |
| `patch` | what a PATCH handler holds in memory between its two steps |
| `outbox`, `processed`, `waiting` | `outbox_events` in `enqueue_sequence` order; `processed_at` set; `next_attempt_at` in the future |
| `endpoint`, `secrets`, `access` | `partner_webhook_endpoints` and subscriptions; signing secrets still valid; `partner_event_access` |
| `delivery`, `attempts` | `webhook_deliveries` (`due`: `next_attempt_at` passed; `leased`: `lease_until` not passed); `webhook_delivery_attempts` |
| `call`, `keyring` | the delivery a loop of a worker has claimed; the keys a worker process was started with |
| `rows`, `effects`, `lapsed`, `due` | `idempotency_operations`, as committed; how often each key's command took effect; the Reservation, expired or with a deadline that has passed |
| `request` | each request: where its transaction is, what that has written and not committed, and the variables of `runPartnerMutation` that live outside of the transaction's function |
| `heard`, `publish`, `queue`, `stream` | notifications taken by the listener; the streams `Publish` has still to serve and the attempt it is at; the channel and the handler of each stream |
| `told`, `owed` | nothing in the code: which facts a page knows of, and whether it was deprived of one |
| `asks`, `holds` | the rows a command has still to lock, each at the stage of its statement, and those its transaction has locked |
| `entry`, `ticketState`, `credState`, `admissions` | what an Event's row and the clock say of its entrance; `ticket_entitlements.status`; `qr_credentials.status`; the rows of `admissions` |
| `acked`, `faults`, `changes` | nothing in the code: what the receivers have answered, and the counts that bound faults and what others do |

A NULL deadline is `NoDeadline = -1`, which every comparison takes as passed,
as the code does. An item is its unit and source; the GA items of a Reservation
are kept as one quantity per source and pool. A terminal Reservation keeps its
items, because only Modify sets `removed_at`.

### State and code: the applications

| Module | Variable | Code |
|---|---|---|
| `SelectorSession` | `capability`; `fetch`, `data`, `loadError`; `selected`, `gaQuantities`; `hold`, `heldLines`; `call`; `intentKeys` | the capability taken from the fragment; the bootstrap query; state and mutation of `useSelectionSession` |
| | `resv`, `elsewhere`, `eventState`, `linkAlive`, `answers`, `wire` | the session's reservations, what other buyers hold, Event and session, stored answers, requests the server has not seen |
| `GateScanner` | `user`, `event`, `camera`, `frame`, `shown`, `cannotVerify`, `call`, `intentKeys` | `useOperatorSession`; state, refs and the scan mutation of `useScanner` (`processing` and `isPending` are `call`) |
| | `greeted`, `abandoned` | for the properties: green screens per admission, keys given up |
| `Storefront` | `connections`, `jar`, `tab` | the two cookies; page, stage and call of each tab |
| | `strays`, `orders`, `receipts` | requests nobody waits for; the Partner API's reservations and stored answers |
| `AdminConsole` | `cache`, `reading`; `calls`; `kept`; `dialog`, `secret` | the query client; mutations under way; `keys.current` of `useIntentMutation`; the page's own state |
| | `data`, `stored` | what the page is about on the server, with a revision; stored answers |
| `LayoutBuilder` | `objects`, `dirty`, `confirmation`; `saves`, `intents` | state of the editor; its calls and their keys |
| | `draft`, `published`, `outcomes` | the layout on the server, stored answers |
| `AdminSession` | `where`, `session`, `loading`, `form`, `browser`, `account` | route, `useOperatorSession`, the form of a public page, what the browser stores, what the provider knows |
| `DocsWorkbench` | `route`, `open`, `credential`, `environment`, `bench` | state of `main.tsx`; the request state of `request.ts` |

### One handler, one action

A handler that is refused rolls back and is no step. A handler that changes
state and then reports an error (an expiry met by Confirm, say) is a step. The
early returns and the order of the checks in the code become the disjuncts and
guards of its action: `Confirm`, `PaymentFailure` and `MaterializeDue` each list
the branches of the code. Three things are more than one row update and are
kept as such:

- `FailAndRelease`: PaymentFailure with disposition RELEASE runs PaymentFailed
  and Release in one transaction with two readings of the clock; `now'` may be
  one later than `now`.
- `ExpireUnreconciled`: Confirm moves to RECONCILING and expires in one commit
  when no reconciliation time is left.
- `ChangeItems`: Modify releases, then acquires, but its new items were resolved
  against the state before the releases.

`PatchRequests` is where atomicity is *not* assumed: the read of the items and
the Modify that uses them are two actions. In `Admission`, a scan may know the
Event as it was when the request was sent, because it reads the Event first under
a lock that does not stop it from changing, and the ticket later.

In `OutboxDelivery` a transaction is an action, and a delivery takes three of
the loop's steps: `Claim` commits the lease, `Deliver` is the HTTP call, and
`Finish` writes the attempt and the fenced update. `Claim` keeps the loop inside
the transaction, which settles the deliveries it cannot send on its way to one
it can. A dispatch that rolls back is `DispatchFails`, the second transaction
that schedules the retry; a crash before either commits is no step. `WorkerOf`
maps loops to the process whose id is `leased_by`. A new process gets a new id
in the code and keeps its name here: the loops of the old one hold no call any
more, so nothing can tell the ids apart.

In `MutationExecutor` the steps of one transaction are actions, because two requests
with one key, a deadlock, the request's deadline or the end of the process may come
between any two of them. The unique index of the key and the row lock on the
Reservation are guards (`KeyIsFree`, `ReservationIsFree`), as PostgreSQL makes the
second transaction wait. In `RealtimeHub` the three attempts of `Publish` on one
channel (send, drop, send a resync) are three actions: no lock keeps the reader away
between them.

`InventoryLocks` looks at the same commands from the side of their locks and leaves out
what they decide. A command is the set of rows it locks, each at a stage in the order of
its statements: its key, the Event, the Partner, the Reservation, Allocations, units, pools,
then the ledger (claims, memberships, shared stock, buckets). Any subset of the rows may be
asked for. Taking a row is an action, which waits as PostgreSQL makes it wait, so the commands
interleave at every row; a refusal, a commit and a rollback let rows go. In the other modules a
command is one action, which is what these locks are for.

In the applications an action is what runs between two awaits: a click up to its
request, the server's transaction, the code that runs on the answer. So a request,
its commit, its answer and the reads that follow it interleave with clicks, other
calls, other operators and the end of the session. A refusal *is* a step there,
because its answer is stored and the page reacts to it. An answer can be lost (the
call throws, the key is kept) or be a gateway's (an HTTP error like any other: the
key is dropped), whatever the server did or will do.

### Assumptions and abstractions

The authority:

- The modelled Event keeps `allow_voided_inventory_rerelease` at its default,
  false; otherwise a voided ticket's inventory could leave its SALE claim.
- The preconditions of OpenSales (layout, inventory, policy, prices) are met.
- Currencies match and prices exist: a price failure only refuses a command.
- Ids are never reused; each Reservation, Allocation and Block id is created at
  most once.

`MutationExecutor`: the commands act on one Reservation; what each does is one effect;
HOLD_EXPIRED stands for the five refusals that keep what they wrote; a COMMIT reports
no deadlock, because the constraint triggers deferred to it only read, wait for no
lock, and the isolation level is READ COMMITTED; what a replay recovers is left out.

`InventoryLocks`: one Event, since commands on two Events share only Partners, and the rows of
users, of which these commands take FOR KEY SHARE alone; FOR NO KEY
UPDATE, which an UPDATE takes, is the stronger FOR UPDATE; the worker skips a Reservation that is
locked and waits for it here; ids are numbers. The commands on tickets, gates and Partners, and the
re-release of voided inventory, are left out.

`RealtimeHub`: one Event; a fact is a number; a message makes the page ask again for
everything; what is committed while the listener reconnects is not heard at all.

`SelectorSession`: others hold at most one ticket of each offer at the start; the Event's state and what is left are one read; an expiry is
effective at once for availability; the stream and its reconnects are `Notified`, a
refetch at any moment; the drawing of the seat map and the mobile sheet are left out;
the page's clock is never ahead of the server's.

`GateScanner`: the way of an answer is merged with the commit that wrote it, unless
the page has gone on, when it finds nobody; camera states that differ only in words
are one; a second `getUserMedia` while one is pending, recent scans, torch, sound and
the loading of the event list are left out.

`Storefront`: the catalogue, setup and event pages are one; GETs are atomic; a
refusal is shown at once; a Partner is connected at most once at a time; an order is
handed over once; the selector in between is one step; a deployment credential is
not configured; an order does not expire before its late answers are in.

`AdminConsole`: one page at a time, its tabs one click away, left and opened again in
one step; the answer of a read is what the server had when it was asked; a read that
would bring what is shown already is left out; the workspace's queries are one,
`event`; other operators change and do not create; only tickets have the same query
under two filters; the Event starts with a layout without prices, one tier and the
default policy.

`LayoutBuilder`: a draft the editor meets has one area per key, and its stages have no
places (`BuilderAssumption`; the API refuses two sections of one key, and takes the
drawing, with the stages, as the builder sends it); an object's amount stands for rows, seats, tables or capacity, its
name for place and size too; table areas behave as reserved sections; zone names are
left out; opening reads and shows at once.

`AdminSession`: redirects are followed at once; a session event brings the session
the browser shares at that moment; the same form is not submitted twice while under way.

`DocsWorkbench`: two operations; a body is the example or an edited one; what a layer
covers cannot be clicked; the server is not modelled, only what is sent to it.

## 3. Properties and runs

Each property has a mutant in `PROJECT.json`: a plausible bug in the modelled
code that makes it fail under the same configuration.

| Run | Instance | Properties | States |
|---|---|---|---|
| `seats` | 2 seats, 2 Reservations of one Partner, 2 Allocations that may chain, 1 Block | `OneActiveClaimPerUnit`, `ClaimsAreBacked`, `SeatsAreOwned`, `ImplementsLedger` | 0.9 M |
| `places` | 1 pool of 2 places that may shrink to 1, 2 Reservations, 2 Allocations, 1 Block | `PlacesAreBalanced`, `ReservedPlacesMatchItems`, `AlwaysSettleable` | 1.0 M |
| `checkout` | 2 seats, 2 Reservations with a limit of one, 2 attempts each, clock 0..5, whole Event lifecycle; `FairSpec` | `AttemptsAgree`, `PartnerLimitHolds`, `CheckoutIsProtected`, `SaleWithinLifetime`, `AttemptOutcomeIsFinal`, `EveryReservationEnds` | 0.7 M |
| `channels` | 1 seat, 2 Partners enabled, disabled, granted, revoked; 1 Allocation that is reclassified | `TakenThroughChannel` | 1.3 M |
| `api` | 2 seats, 1 Reservation, 2 PATCH requests at a time; or 3 requests, 2 keys, 2 intents, 2 runs each; or 2 streams with a channel of 2, 5 facts; or 2 transactions that lock a Partner, the Event, a Reservation, 2 Allocations, a pool and a row of its ledger | `AddsOnlyWhatItNames`, `PatchesAreModifications`, `AnswersAreStored`, `ImplementsRunOnce`, `LossIsAnnounced`, `OtherLocksHaveAnOrder` | 0.9 M |
| `delivery` | 2 facts, one of which may fail for ever; 1 endpoint; 2 loops of 1 worker; 2 attempts; 1 fault; `FairSpec` | `OutcomeAsLogged`, `LeaseIsNotStolen`, `DeliveriesSettle`, `FactsAreDispatched` | 0.2 M |
| `buyer` | 1 seat and 1 GA pool, 2 holds, 2 keys, 1 fault, 1 change by others; `FairSpec` | `LiveHoldIsReal`, `HoldsAreReachable`, `PageCatchesUp` | 2.6 M |
| `partner_and_gate` | 1 ticket with 2 credentials, 2 events, 2 operators on one device, 2 admissions, 2 keys, 2 faults or 1 beside 1 change by others; or 2 tabs, 2 Partners, 2 orders, 2 pairs of keys, 2 troubles | `OneActiveAdmission`, `AdmitShownOnce`, `ShownIsStored`, `TurnedAwayForCause`, `AttemptIsReachable`, `TicketIsReachable` | 2.3 M |
| `apps` | each of 13 pages with 2 keys and 2 calls at a time; or 3 drafts with 3 objects, 3 saves, 2 edits; or the session; or 2 operations of the workbench with 2 keys drawn and 2 requests | `OneEffectPerIntent`, `SecretsAreAccounted`, `RefetchedBeforeShown`, `FloorPlanIsKept`, `CleanIsSaved`, `SetupBeforeConsole`, `SentAsMeant` | 3.6 M |
| `disabled_partner` | 1 pool, 1 Reservation; violation | `DisabledPartnerNeverExpands` | |
| `patch_race` | 3 seats, 1 Reservation, 2 PATCH requests; violation | `RemovesOnlyWhatItNames` | |
| `publish_race` | the builder alone; violation | `PublishedAsConfirmed` | |

What they show:

- `seats`: whatever the order of commands and deadlines, the unique index and
  the claim trigger of the schema never have anything to refuse: the code's own
  checks suffice. `ImplementsLedger` shows the refinement: with clock, attempts,
  Allocations and Blocks forgotten, every handler is one step of `SeatLedger`.
  The mapping takes `held` from the claims, not from the items, so a step that
  lists a seat without owning it, or drops a claim that is somebody else's, is
  not a ledger step. A Reservation under payment is `protected`: what it holds
  does not change until it is sold whole, reopened or closed.
- `places`: the accounting that the deferred assertions of the schema check at
  commit holds for every command, also when an Allocation is released, and its
  destination as well, while Reservations hold places from it. `AlwaysSettleable`
  is what the worker depends on: it always takes the lowest due id of an Event,
  so one Reservation that could not be settled would block all others.
- `checkout`: the outcomes and the lifetime, with retries after reconciliation and
  late answers; and every Reservation ends even if the Partner never calls again.
- `channels`: no reclassification slips under inventory in use.
- `api`, PATCH: a PATCH that works from a stale read either fails or is a Modify that
  some client could have asked for. The invariants of Reservation need not know
  that the read is stale.
- `api`, the executor: `ImplementsRunOnce` shows that a request is a step of `RunOnce`
  when its transaction commits and a stutter at every other moment, whatever other
  requests with its key, deadlocks, a connection lost at COMMIT or the worker do: a
  plain refusal leaves nothing behind, a refusal for a passed deadline leaves the
  Reservation expired and is stored as such. `AnswersAreStored` is about the answer,
  which is taken from variables that survive a restart: it is always the outcome
  stored for this key and intent, so a retry is answered alike.
- `api`, the hub: between the send that fails and the resync the reader may empty the
  channel, so the drop may find nothing; the published fact is lost all the same, and
  the resync that follows stands for it. The push after a drop always finds room,
  because nobody else puts anything in.
- `api`, the locks: `OtherLocksHaveAnOrder` shows where commands can wait for each other in
  a circle, and that they can nowhere else: every circle has a wait for a Partner row or
  for the destination of a released Allocation. The rows of the ledger are locked in the order
  the command meets them, and pricing writes seats and pools in the order of its scan; neither
  adds a circle, because who gets that far holds the seat, the pool or the Event that
  everybody else must have first.
- `delivery`: the fence of `finish` (state, lease owner, attempt number) keeps
  delivery and log in agreement. The attempt number is the part that counts:
  without it a late answer of one loop ends the attempt of another loop of the
  same worker, whose owner id is the same. What the design does *not* promise is
  visible too: a 2xx whose lease was lost is logged and then ignored, so an
  acknowledged delivery can end `DEAD_LETTER` or `CANCELLED`; delivery is at
  least once (`docs/architecture/realtime-events.md` section 22).
- `buyer`: a hold whose answer was lost stays recoverable by the same click,
  because its key stays with the intent.
  `HoldsAreReachable` names what it costs when a gateway answers.
- `partner_and_gate`, the gate: a scan retried after a lost answer gets the
  stored decision, so the guest is admitted on the screen exactly once;
  `TurnedAwayForCause` lists the five ways in which "Already checked in" can still
  meet a guest whom nobody saw admitted. One of them takes two faults: a lost answer, and
  a retry that is refused (the role has ended, a signing key is not available), which
  makes the page forget the key although the first try may have admitted. The storefront: begin and fail of an order
  share a pair of keys in the cookie, and confirm has one of its own; with these,
  whatever answer is lost and whichever tab writes the cookie, the protected
  attempt or the sold ticket can be asked for again. Orders whose cookie was
  replaced, has expired or was overwritten by an older answer (`cut`) are excepted,
  because there the design has nothing to offer.
- `apps`, the console: one effect per intent for every command of every page,
  through two buttons or a repeated click; the secret of a credential or of an
  endpoint can be asked for again until it was seen; a result never comes up
  beside data older than itself, first loads excepted. The builder: unique keys and
  untouched sections (`FloorPlanIsKept`), and the meaning of "saved". The session: the guard. The workbench: an
  edit is another intent, a question is about the operation it was asked for.

### Three disagreements between code and documents

- `disabled_partner`. `docs/architecture/domain-model.md:2414` and
  `docs/architecture/system-design.md:427-430` say a disabled Partner cannot
  expand what it owns, by modification either. Modify checks the Event, but
  never the Partner. TLC's trace: hold one place, disable the Partner, raise the
  quantity to two.
- `patch_race`. `docs/architecture/data-model.md:3762` forbids read-modify-write
  of inventory outside the required locks, and
  `docs/architecture/system-design.md:933-936` computes the new selection after
  the Reservation is locked. The PATCH handler reads first. TLC's trace: two
  requests read the items `{u2}`; the first adds `u1`; the second, adding `u3`,
  sends `{u2, u3}` and the seat `u1` is released, with success reported to both.
  The requests of one buyer session to `selectionapi` wait for each other on the
  session row; requests through `partnerapi`, or through both, do not.
- `publish_race`. The question before publishing says "This saves the current floor
  plan and publishes it as an immutable venue layout"
  (`apps/admin-web/src/features/venues/layout-builder/LayoutBuilder.tsx:343`).
  `VenueDetailPage.tsx:84` awaits the save and then publishes by id, and the editor
  stays open for edits and for *Save draft* meanwhile. TLC's trace: confirm, edit
  while the save is under way, save again; the second save is published.

Seen while modelling, allowed for in the models, and worth a reviewer's look:

- An availability read outside ON_SALE is refused, which the selector shows as a
  network error, with a live hold hidden (`SelectionPage.tsx:383`,
  `docs/api-contract.md:1726-1730`). After a reservation whose answer was
  lost, the next refresh takes the offers the buyer himself holds out of his choice,
  so the same intent cannot be repeated unless it is composed again
  (`useSelectionSession.ts:272`).
- Every HTTP error drops an intent's key, a gateway's 5xx included
  (`useScanner.ts:141`, `useSelectionSession.ts:249`, `features/admin/api.ts`), where
  `docs/api-contract.md:1829-1830` and `:1842-1845` keep it until the outcome is known. A
  key kept after an ambiguous answer replays its stored success to a later identical
  intent that was meant anew (`docs/api-contract.md:1841`).
- The scanner says "No admission decision was made." where the server may have
  admitted; answers that come after the event was changed or the operator signed out
  are shown; the keys outlive the operator.
- The console: in `RestrictionsPanel.tsx:298-302` a Block cannot be created after a
  channel without a Partner was chosen, and the create intent leaves out channel,
  Partner and reason; tickets and admissions are refetched under the current filter
  only; a second rotation's secret replaces the first on the screen; a dialog closes
  with another row's answer; materializing is offered before the configuration is
  loaded; the setup check of `EventDetailPage.tsx` lets sales be opened with unpriced
  inventory, which the server then refuses.
- Create Event: Enter in the first step submits the form and creates the Event
  without schedule and review (`CreateEventPage.tsx`, one text field, no submit
  button); the error of that call is rendered in the third step only.
- The builder relabels rows the API had chosen once a generated section is reshaped,
  ignores the capacity typed for a standing area of several zones, and takes edits
  made under a save for saved, which `CleanIsSaved` has to except.
- The storefront never rotates its confirm key: after a refused confirm of attempt 1
  that attempt 2 follows, the confirm of attempt 2 is an idempotency conflict for ever
  (`apps/docs-web/src/content.ts:533`: "Change the key when customer intent
  changes."). A late failure answer of one tab can overwrite the confirmed cookie of
  another.
- The executors treat AUTHORITY_TEMPORARILY_UNAVAILABLE like any refusal: it is stored,
  and a retry with the same key replays it (`partnerapi/reservation_executor.go:430-444`),
  where `docs/api-contract.md:1829-1830` says "retry safely; preserve the same
  idempotency key". It can only be met inside a command where keys are not configured.
- Which refusals keep what they wrote differs: five codes in
  `partnerapi/reservation_executor.go:140-145`, two in
  `selectionapi/reservations.go:276`. `businessErr` is never reset between two runs of
  a transaction: a deadlock reported at COMMIT would make a later success be answered
  with the refusal of the run before; the schema's deferred constraint triggers
  (`migrations/000002_authoritative_schema.up.sql`) only read, so none is reported there.
- Row locks can be waited for in a circle, against `docs/architecture/system-design.md`
  §13 and §16.3 (stable identifier order, used consistently): a Create of the Partner
  API holds the FOR KEY SHARE of its idempotency row's foreign key on the Partner when
  it asks for FOR UPDATE on it (`reservation/service.go:224-230`), so two Creates of one
  Partner wait for each other; the worker and the Selection API reach the Partner row
  only with their audit fact, after the inventory; `ReleaseAllocation` locks its own
  Allocation before the destination whatever their order
  (`allocation/allocations.go:398-468`). PostgreSQL aborts one of them and the
  transaction runner starts it over, three attempts in all; the same document's §17
  allows for that. `OtherLocksHaveAnOrder` names these as its exceptions (`kind # "partner"`,
  `Backward`): without either of them TLC finds the circle in `api`, and with both it is a
  theorem that there is no other.
- The replay of a selection session asks the pool for a second connection while its
  transaction holds one (`partnerapi/reservation_executor.go:355`).
- Facts committed while the listener reconnects are not announced
  (`realtimeapi/listener.go:56-62`); `docs/architecture/realtime-events.md` sections 15
  and 16 leave these to polling.
- The workbench shows a late answer of one operation on the page of the next
  (`apps/docs-web/src/main.tsx:708`), and its confirmation does not look at the
  environment again (`:862`, against `:851`).

### Bounds

- Two Reservations, two units and a chain of two Allocations are what the
  conflicts need: two owners for one unit, and `a1 -> a2 -> shared` with the
  middle released first. `SeatOrders` includes a composition over two
  sources, so that Modify releases and acquires along different chains.
- `MaxTime` is chosen per run so that every window can be passed. In `checkout`
  the lifetime (3) is shorter than hold, protection and reconciliation together,
  so capping happens, and the clock goes beyond the lifetime of a Reservation
  created as late as time 2.
- `MaxAttempts` is 2 where attempts matter: an outcome, and a later attempt that
  could disturb it.
- `CONSTRAINT SalesQuiet` (`seats`, `places`) keeps the Event in DRAFT, ON_SALE
  or CANCELLED and the Partner able to acquire; `PartnersQuiet` (`checkout`,
  `api`) keeps the Partner able to acquire. The states cut off differ only in
  what they forbid; the Event's full life is in `checkout`, the Partners' in
  `channels`. No handler after Create reads the Partner's state, so under
  `PartnersQuiet` the liveness check loses no way for a Reservation to end.
- `SYMMETRY` is over Reservation ids of the same Partner, over PATCH calls, requests, intents,
  keys, streams and transactions of `api`, over operators, credentials, tabs and Partners of `partner_and_gate`, and never in a run
  with a liveness property.
- `delivery`: the lost lease of a call needs one fault and two loops, exhaustion
  and a retry need two attempts; deliveries share nothing but the loops, so two
  of them to one endpoint show what many do. The keyrings are one that holds the
  key of the secrets and one that does not.
- Three requests on two keys are a first request, its retry while it runs, and another
  command in between; two runs are one restart, after which everything starts from
  the same variables again. A channel of two can lose its oldest message and keep
  another; five facts overflow it, are announced, and overflow it again.
- Two transactions and two Allocations are the shortest circle there is; a pool with one
  row of its ledger is what a guard needs. The theorem has no such bound.
- Two keys per page are one intent repeated with the wrong key, or two intents that
  must not share one; one fault is a lost or a replaced answer, after which the retry
  is the case of interest. `MaxMishaps` is 1 on the three largest pages of the console
  and 2 on the others. `MaxTroubles` allows 2 for a single order and none once a
  second is begun: the second order is there for the cookie the first one leaves.
- `CONSTRAINT FewUpsets` (`partner_and_gate`) keeps two faults from meeting a change by
  others: two faults are needed for a lost answer with a refused retry, a fault and a
  change for a lost answer while another gate admits or reverses.
  After the second upset codes are typed in: the camera is another way to the same
  submission, and is explored in full up to then.
- The parts of `api`, of `partner_and_gate` and of `apps` share no variable; they are in one
  run each because one check of the whole is shorter, and a violation names its part.
- `CHECK_DEADLOCK FALSE`: the clock stops at `MaxTime`, ids and keys run out, so the
  models end where the system would go on.

### Fairness

`FairSpec` of `Reservation` assumes `WF(Tick)`, time passes, and `WF(Materialize)`,
the worker keeps taking due Reservations: `materializer.go` polls until nothing is due
and the worker loop restarts it after an error. No fairness is assumed of Partners,
buyers or operators. The code takes the lowest due id first; the model takes any,
so the property is shown for every order.

`FairSpec` of `OutboxDelivery` assumes that loops claim, call and finish, that
calls end (the HTTP client has a timeout), and that leases and backoffs run out.
A fact whose dispatch may fail for ever is owed only the attempt; the facts
behind it are owed their turn under strong fairness, because the backoff of the
failing one doubles until it exceeds the polling interval (`worker.go:167`,
`dispatcher.go:147`). Faults are finite and nothing is assumed of the Admin.

`FairSpec` of `SelectorSession` assumes the page's timer (`refetchInterval: 30_000`,
`useSelectionSession.ts:42`) and that a read is answered in the end; not that a notice
of the stream ever arrives.

## 4. Proofs

TLAPS proves, for every value of the constants (units, pools, Allocations, Blocks,
Partners, Reservations, every policy that `validatePolicy` accepts; facts, endpoints,
loops, workers; operators, events, tickets, credentials; requests, keys, intents, runs;
streams, size of a channel; transactions, rows to lock; offers, stock, holds; tabs, pairs of keys; pages, drafts, operations of
the documentation) and every
bound:

| Module | Theorem | Says |
|---|---|---|
| `ReservationProofs` | `TypeCorrect` | `Spec => []CoreTypeOK`: every variable of the reservation modules but `ga` is well typed |
| | `CheckoutsInvariant` | `Spec => []CheckoutInv`, the inductive invariant of checkouts |
| | `AttemptsGoWithTheState` | `Spec => []AttemptsAgree` |
| | `OutcomesStay` | `Spec => AttemptOutcomeIsFinal` |
| | `CheckoutsAreProtected` | `Spec => CheckoutIsProtected` |
| | `SalesAreWithinLifetime` | `Spec => SaleWithinLifetime` |
| | `PartnersKeepTheirLimit` | `Spec => []PartnerLimitHolds` |
| `SeatProofs` | `SeatsInvariant` | `Spec => []SeatInv`, the inductive invariant of seats |
| | `NoDoubleClaim` | `Spec => []OneActiveClaimPerUnit` |
| | `EveryClaimIsBacked` | `Spec => []ClaimsAreBacked` |
| | `EverySeatIsOwned` | `Spec => []SeatsAreOwned` |
| | `EveryMembershipIsOpen` | `Spec => []MembershipsAreOpen` |
| | `TakenThroughOwnChannel` | `Spec => []TakenThroughChannel` |
| | `AuthorityKeepsTheLedger` | `Spec => ImplementsLedger`, the refinement of `SeatLedger` |
| `PlaceProofs` | `PlacesInvariant` | `Spec => []PlaceInv`, the inductive invariant of GA places |
| | `NoPlaceIsLost` | `Spec => []PlacesAreBalanced` |
| | `ReservedCountersAreExact` | `Spec => []ReservedPlacesMatchItems` |
| | `NoReleaseCycle` | `Spec => []ReleaseChainsEnd`: every chain of destinations ends in a live source |
| | `NothingIsStuck` | `Spec => []AlwaysSettleable` |
| `DeliveryProofs` | `DeliveryInvariant` | `Spec => []DeliveryInv`, the inductive invariant of `OutboxDelivery` |
| | `OutcomeIsLogged` | `Spec => []OutcomeAsLogged` |
| | `RetryingIsBounded` | `Spec => []AttemptsWithinBudget` |
| | `SettledStays` | `Spec => SettledIsFinal` |
| | `LeasesHold` | `Spec => LeaseIsNotStolen` |
| `PartnerGateProofs` | `GateInvariant` | `Spec => []GateInv`, the inductive invariant of `GateScanner` |
| | `OneGuestPerTicket` | `Spec => []OneActiveAdmission` |
| | `OneGreenScreen` | `Spec => []AdmitShownOnce` |
| | `ScreenIsBacked` | `Spec => []ShownIsStored` |
| | `AdmissionsAreTraced` | `Spec => []TraceInv`: each admission this page asked for is stored under its key, and seen, kept, given up or answered to another operator |
| | `NobodyTurnedAwayUnseen` | `Spec => TurnedAwayForCause` |
| | `StorefrontInvariant` | `StorefrontSpec => []StoreInv`, the inductive invariant of `Storefront` |
| | `EveryAttemptIsReachable` | `StorefrontSpec => []AttemptIsReachable` |
| | `EveryTicketIsReachable` | `StorefrontSpec => []TicketIsReachable` |
| `SelectorProofs` | `SelectorInvariant` | `Spec => []SelectorInv`, the inductive invariant of `SelectorSession` |
| | `ChoicesAreOffered` | `Spec => []SelectionIsOffered` |
| | `LiveHoldsAreReal` | `Spec => []LiveHoldIsReal` |
| | `EveryHoldIsReachable` | `Spec => []HoldsAreReachable` |
| `ApiProofs` | `ExecutorInvariant` | `ExecutorSpec => []ExecutorInv`, the inductive invariant of `MutationExecutor` |
| | `EveryAnswerIsStored` | `ExecutorSpec => []AnswersAreStored` |
| | `ExecutorRunsOnce` | `ExecutorSpec => ImplementsRunOnce`, the refinement of `RunOnce` |
| | `EveryLossIsAnnounced` | `HubSpec => []LossIsAnnounced` |
| | `StaleReadsAreModifications` | `PatchSpec => PatchesAreModifications` |
| | `PatchesAddWhatTheyName` | `PatchSpec => AddsOnlyWhatItNames` |
| | `LocksInvariant` | `LocksSpec => []LocksInv`, the inductive invariant of `InventoryLocks` |
| | `LedgerIsGuarded` | `LocksSpec => []LedgerIsNotAwaited` |
| | `LocksHaveAnOrder` | `LocksSpec => []OtherLocksHaveAnOrder` |
| `ConsoleProofs` | `IntentsTakeEffectOnce` | `Spec => []OneEffectPerIntent` |
| | `SecretsComeUp` | `Spec => []SecretsAreAccounted` |
| | `ResultsAreRefetched` | `Spec => []RefetchedBeforeShown` |
| | `FloorPlansAreKept` | `BuilderSpec => []FloorPlanIsKept` |
| | `CleanEditorsAreSaved` | `BuilderSpec => []CleanIsSaved` |
| | `PasswordBeforeConsole` | `SessionSpec => []SetupBeforeConsole` |
| | `RequestsAreSentAsMeant` | `DocsSpec => []SentAsMeant` |

The assumptions are those the modules declare, and TLC evaluates each of them:
`NamesAssumption` (finitely many Allocations, Blocks and Reservations, `Shared` is none
of the Allocations), `CapacityAssumption`, `TargetsAssumption` and `OrdersAssumption`
(requests are normalized), `PolicyAssumption` and `BoundsAssumption`; for PATCH requests,
`PatchAssumption` (a client may ask for every composition of seats that takes a unit once); for deliveries,
`DeliveryAssumption`; for the gate, `AdmissionAssumption` and `ScannerAssumption`;
`StorefrontAssumption`; `SelectorAssumption`;
`ExecutorAssumption`; `HubAssumption`; `LocksAssumption` (one Event row, ids up to some
number, each ledger row has a seat or a pool); for the applications, `MaxKeysAssumption`,
`ConsoleAssumption`, `BuilderAssumption` and `WorkbenchAssumption`.

*Handlers.* The argument follows the code. `HandlerSteps` shows that every branch of
every handler is one of a dozen shared steps (`SharedStep`), Create or Modify. Each
shared step has a lemma for types, one for checkouts, one for seats, one for places and
one for the ledger.

*Checkouts.* `CheckoutRowOK` relates a reservation's row to its attempts: at most one is
ACTIVE, UNCERTAIN or CONFIRMED, in the state of the reservation that goes with it, and
the deadlines under which a sale is still accepted lie within the lifetime. The last
part is what `SalesAreWithinLifetime` needs, since a
confirmation compares the clock with those deadlines and never with the lifetime itself.
`SharedStepMoves` says once what each branch does to its row (`CheckoutMove`) and that
it leaves the others alone; the three action properties are read off it.
`PartnersKeepTheirLimit` counts by cardinality: only Create adds to the set it counts,
and every other step leaves a subset, also when time passes (`TimePasses`: a reservation
whose deadline has passed does not come back into it).

*Seats.* None of the four seat properties is inductive alone. That a returning unit may
be claimed by the Allocation at the end of its chain needs that no third party
claims it (`SeatsAreOwned`: the Reservation itself did), that the membership
there can be open (`MembershipsAreOpen`), and that the unit appears once in the
composition (`ItemsAreDistinct`, because otherwise the second appearance would
be claimed twice). That creating an Allocation does not collide with old rows
needs `UnbornAllocations`: an Allocation that does not exist yet has no members,
and nobody holds inventory from it. `SeatInv` is the conjunction. The two lemmas about
claims (`ReturnClaims`, `AcquireClaims`) carry the weight and are used by every handler
that gives back or takes inventory.

*Channels.* Reclassification asks that nothing of the Allocation is in use
(`Untouched`); `TakenThroughOwnChannel` shows, by the kinds of steps (`ItemSteps`,
`OperatorChannels`), that this is all that can change a channel under a user of it.

*The ledger.* The mapping takes `held` from the claims. With `SeatInv` and `CheckoutInv`
before and after a step, each shared step, Create, Modify and operator command is shown to
be the ledger's step of that kind, or none.

*Places.* The accounting is a sum over sources, over reservations and over Blocks, each a
fold over a finite set. `PlaceProofs` first proves, from the fold's own definition and by
minimal counterexample over the subsets of a finite set, what a sum is (`SumRemove`,
`SumNat`, `SumChange`, `SumPartition`), and then never opens a fold again. `PlaceInv` is the
balance of each pool, the reserved counters against the compositions, that rows are
natural numbers, and the shape of release chains: `DestinationsDescend` gives every
Allocation a rank above its destination's, which the code gets from the fact that a
destination must exist when an Allocation is created. From the rank, a walk of as many
steps as there are Allocations is shown to end in a live source (`ChainEnds`); the `cycle`
error of `finalAllocationDestination` is never returned. `NothingIsStuck` then follows:
the counters a settlement takes from hold at least what it takes, and the unit it returns
has a claim and an open membership to go to.

*Deliveries.* The outcome agrees with the log because an attempt number is
worked on by one loop at a time (`CallsDiffer`) and has no row before that loop
writes it (`CallsAreClaimed`, `RowsAreCounted`): the row that `ON CONFLICT DO
NOTHING` would keep never exists. The bound on retries needs `AttemptToSpare`:
when no live lease covers an attempt in progress, a PENDING delivery is strictly
below its budget, because the attempt before it either ended below `maxAttempts`
or was taken by a fault; and that a loop with the last attempt still passes the
fence (`LastCallIsLeased`). `SettledIsFinal` and `LeaseIsNotStolen` follow step
by step from `LeasedIsPending`.

*The gate.* The argument is the life of an idempotency key. It belongs to one
intent (`KeysDiffer`), stays with it while its scan is under way (`CallIsKept`), is
answered once (`AnswersDiffer`: two stored answers that admit name two admissions),
and is forgotten as soon as its admission was shown (`GreetedIsForgotten`), so no
later scan can be answered with the same admission. That no admission was shown
before it was written (`GreetedIsAdmitted`) covers the first time. `CallIsOpen`, a
scan under way has no error beside it, is what `ShownIsStored` needs when an answer
arrives. `TraceInv` follows a key beyond its answer: it means one scan (`OneMeaning`), a
request on its way is one the page can repeat, has given up, or has the answer of
(`WireIsKnown`), and an admission written under it is accounted for (`Traced`). An operator
who is told "already checked in" of an unseen admission would have repeated its scan if the
page still kept its key, so the page had given it up (`TurnedAwayForCause`). The proof
found the refused retry, which a run with one fault cannot reach: the page's keys that
are forgotten that way are now `abandoned` too, and the run has two faults.

*The selector.* The same life of a key, with a server that may still perform a request the
page has given up. `SelectorInv` says that a key means one intent wherever it is mentioned
(`KeysOK`), that a stored answer is the reservation its key made or released (`AnswersOK`),
and, what carries `LiveHoldIsReal`, that what was shown, sent for release or released has a
`Spent` key: the page no longer keeps the key that made it, so no late answer brings it up
a second time. While a Reserve is under way there is no hold to overwrite, and while a
Release is under way the only hold is its own (`HoldOK`). For `HoldsAreReachable` the other
half is a request that has not been performed yet: its key is kept, unless a gateway
answered it or the link is dead (`ReachOK`), so whatever the server still makes of it can
be found again. `SelectionIsOffered` needs only types, and that tickets are counted in
integers (`LeftIsInt`).

*The storefront.* Here a key is not kept by a page but travels in a cookie that several
tabs copy and answers overwrite, so the invariant follows the pair of keys instead. A pair
begins one attempt and an attempt is begun by one pair (`OneReceipt`, `AttemptsGrow`); a
pair that an answer of fail brings is nobody's until then (`NewPairsAreNew`); and while the
cookie of an order has never been overwritten by an older answer (the order is not in `cut`),
every other cookie under way either shares its pair and agrees on the attempt, or has a
pair that has begun already and can only be replayed (`SentIsLinked`). So an attempt under way
was begun by the pair the cookie holds, and the confirmation that sold the order named the
attempt the cookie names (`Linked`). Nothing is assumed of the tabs: each may have a command
under way, be left, or be answered late.

*The executor.* `ExecutorInv` says what each request may be in (`Local`): the captured
variables are empty until the run that ends, hold that run's outcome then, and a
transaction that owns its key writes what its outcome says; with the two exclusions the
database gives (`Apart`): one transaction per key, one with writes on the Reservation.
From this a commit finds the key undecided and the Reservation not expired by others,
which is what the step of `RunOnce` asks for; every other step leaves what is committed
as it is.

*PATCH requests.* A request keeps what it has read as rigid sets, so all it can send to
Modify is a normalized composition of seats (`PatchModifies`); every step of `PatchRequests`
is therefore a step of `Reservation`, and every theorem about `Spec` holds with stale reads
too. `PatchesAddWhatTheyName` is then the check by identity: what is kept is still active.
The opposite direction is the finding of `patch_race`.

*The hub.* `HubInv` adds to the property the case in between: what a channel lost is
announced in it, or `Publish` is about to push the resync and has room for it
(`PublishIsAt`, which holds because readers only take out).

*The locks.* `LocksInv` says what a command may have asked for (`CommandShape`: the kind of row of
each stage, one row where a command takes one, and what each lock of inventory stands on), that
nothing is held which comes after something still asked for (`TakenInOrder`), and that what two
transactions hold does not conflict (`Compatible`). From it nobody waits for a row of the ledger
(`NoWaitAtTheLedger`): both sides would hold its seat, pool or Event, in conflicting modes. What
else is waited for goes up (`WaitsGoUp`): the one who holds it waits for a row of a later stage, or
for a greater id at the same one, if it is not a Partner row or a destination asked for
backward. Allocations and destinations count as one stage there (`Level`). So a circle would have a
greatest row that is waited for, whose holder waits for a greater one (`NoCircle`).

*The console.* The proof is about the machine and opens hardly any of the tables: `KeysOK` is the
life of a key as at the gate, for several calls at a time: whoever mentions a key, the page,
a call or a stored answer, means one intent by it; the page keeps one key per intent; a
drawn key is kept until its answer was told, or is refused or forgotten. So a second effect
of an intent needs a second key, which is drawn only when the first one's answer was seen.
`ToldOK` adds what becomes of a secret when its answer is told. For `RefetchedBeforeShown`,
`ReadsOK` bounds the reads a result waits for, in the cache or under way: they are no older
than the command, because a command cancels the reads under way before it starts its own.

*The builder.* `BuilderInv` says what objects and areas correspond to (`ObjectsOK`,
`PlanOK`, `KeptOK`), for any sequence the drafts were opened in, and that a clean editor
shows the draft unless something excused it (`CleanOK`). That `stableKey` finds a key
needs that fewer keys are taken than numbers are tried, a counting argument over the
objects.

*The session and the workbench* have invariants of one conjunct more than the property:
a full session, in the tab or in the browser, belongs to an account that is READY; a key
typed by nobody names the request on the bench, as it is.

Proved and no longer among the runs' properties, because the proof says more:
`CoreTypeOK`, `MembershipsAreOpen`, `AttemptsWithinBudget`, `SettledIsFinal`,
`ReleaseChainsEnd`, `SelectionIsOffered`.

Only model-checked is liveness under fairness (`EveryReservationEnds`, `DeliveriesSettle`,
`FactsAreDispatched`, `PageCatchesUp`), which the prover does not reach. Every invariant and
every other action property that a passing run checks is stated by a theorem above.

## 5. Not modelled

- Prices, currencies and tokens: they refuse commands and never move inventory.
- Locks in the modules that decide: a command of `Reservation` is one action, and `InventoryLocks`
  shows the order of its locks apart from it. The locks of ticket, admission and Partner
  commands, of the configuration of an Event other than pricing, and of the outbox are not modelled.
- The executors of the administration, admission and selection APIs: they have the
  shape of the Partner API's; the differences are listed in section 3.
- GA quantities in PATCH requests, and the GA item rows of a modification.
- The listener's reconnects and the audience filter of the hub; in the modules of the
  pages a notice may come or be lost.
- Re-release of voided inventory: off by default.
- Of the applications, what is display: the seat map's drawing and gestures, tables,
  menus, wording, the dashboard and the reports; the articles and code samples of the
  documentation and the reviewer's guide; generated clients and models; scripts.
- Authentication, HTTP decoding, QR rendering, reporting and audit: no state that a
  decision here depends on.

## 6. Plan

Built so far: the authority of inventory, its worker and its deliveries; the executor
of commands and the realtime hub; admission and the gate; every application that
commands them. Left, in this order:

1. Re-release of voided inventory in `Reservation`, joined with `Admission`.
2. `ModificationPlan`: the identity and composition plans over GA item rows, against a
   reference definition by sums; quantities in PATCH requests.
3. Proofs that go with these: the ledger's refinement with re-release, and the plans of a
   modification against their sums.

## 7. Running

    tlc -workers 2 -config MCSeats.cfg MCSeats.tla     # and MCPlaces, MCCheckout, MCChannels,
                                                       # MCApi, MCDelivery, MCSelector,
                                                       # MCPartnerGate, MCApps
    tlc -workers 2 -config MCDisabled.cfg MCPlaces.tla    # violations
    tlc -workers 2 -config MCPatchRace.cfg MCPatch.tla
    tlc -workers 2 -config MCPublish.cfg MCApps.tla
    tlapm ReservationProofs.tla
    tlapm SeatProofs.tla
    tlapm PlaceProofs.tla
    tlapm DeliveryProofs.tla
    tlapm PartnerGateProofs.tla
    tlapm SelectorProofs.tla
    tlapm ApiProofs.tla
    tlapm ConsoleProofs.tla
