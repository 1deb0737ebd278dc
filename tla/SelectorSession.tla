---------------------------- MODULE SelectorSession ----------------------------
(***************************************************************************)
(* The buyer's selector (apps/selector-web): one browser page that holds a *)
(* selection capability, and the Selection API it talks to.                *)
(*                                                                         *)
(* The page keeps everything in memory: the last bootstrap answer, the     *)
(* chosen offers, the hold it was given, and one idempotency key per       *)
(* intent.  The server keeps the reservations and the stored answer of     *)
(* every key.  Requests and answers travel apart: the page may give up on  *)
(* a request the server still performs, and a gateway may answer in the    *)
(* server's place.                                                         *)
(*                                                                         *)
(* An offer identifier contains its price and its source (inventory.OfferID), *)
(* so a change of price is an offer that goes and another that comes.      *)
(***************************************************************************)
EXTENDS Integers, Sequences, FiniteSets, FiniteSetsExt

CONSTANTS
    Offers,         \* the offers of the event
    Seats,          \* those of reserved units; the others are GA pools
    Stock,          \* tickets behind each offer
    MaxHolds,       \* reservations this session may make
    MaxKeys,        \* idempotency keys the page may draw
    MaxFaults,      \* answers that get lost or are replaced by a gateway's
    MaxChanges      \* changes made by operators and other buyers

ASSUME SelectorAssumption ==
    /\ Seats \subseteq Offers
    /\ Stock \in [Offers -> Nat \ {0}] /\ \A o \in Seats : Stock[o] = 1
    /\ MaxHolds \in Nat /\ MaxKeys \in Nat /\ MaxFaults \in Nat /\ MaxChanges \in Nat

VARIABLES
    \* the server
    eventState,     \* events.state, the part a buyer can meet
    linkAlive,      \* the session is ACTIVE, unexpired, its Partner has access
    elsewhere,      \* tickets of each offer that other buyers hold
    resv,           \* the reservations this session made, in order
    answers,        \* idempotency key -> the stored answer
    wire,           \* requests the server has not seen yet
    \* the page
    capability,     \* the page still has its capability in memory
    fetch,          \* the bootstrap query in flight
    data,           \* bootstrap.data: what the page shows
    loadError,      \* bootstrap.error
    selected,       \* selectedOffers
    gaQuantities,
    hold, heldLines,
    call,           \* the command in flight (useMutation)
    intentKeys,     \* intent -> idempotency key
    nextKey,
    mutationError, availabilityNotice,
    \* bookkeeping of the model
    faults, changes,
    replaced        \* the keys whose answer a gateway gave in the server's place

server == <<eventState, linkAlive, elsewhere, resv, answers, wire>>
choice == <<selected, gaQuantities>>
notes == <<mutationError, availabilityNotice>>
query == <<fetch, data, loadError>>
bounds == <<faults, changes, replaced>>
vars == <<server, capability, query, choice, hold, heldLines, call, intentKeys,
          nextKey, notes, bounds>>

NoHold == [res |-> 0, expired |-> FALSE]
NoCall == [op |-> "NONE"]
NoData == [event |-> "NONE", left |-> [o \in Offers |-> 0]]
Idle == "IDLE"
Unanswered == -1
Refused == 0            \* any other answer is the number of a reservation
Nothing == [o \in Offers |-> 0]

-----------------------------------------------------------------------------
(* The server's side of the tickets. *)

\* Tickets a reservation still keeps from others.
Keeps(r, o) == IF resv[r].state \in {"HELD", "CHECKOUT"} THEN resv[r].lines[o] ELSE 0

\* The tickets of an offer that the reservations of this session keep, counted
\* from 1 in each.
KeptTickets(o) == {t \in (DOMAIN resv) \X (1..Stock[o]) : t[2] <= Keeps(t[1], o)}

\* PartnerAvailability: what is left behind an offer.
Left(o) == Stock[o] - elsewhere[o] - Cardinality(KeptTickets(o))

EventNow == IF linkAlive THEN eventState ELSE "INVALID"

-----------------------------------------------------------------------------
(* What the page shows. *)

\* useSelectionSession's offers: reserved units with an offer, and pool offers
\* with something left.
offers == {o \in Offers : data.left[o] > 0}

\* selectedLines.
selectedLines == [o \in Offers |->
    IF o \notin selected THEN 0 ELSE IF o \in Seats THEN 1 ELSE gaQuantities[o]]

invalidLink == ~capability \/ loadError = "invalid link"
loading == capability /\ data = NoData /\ loadError = ""
eventUnavailable == data # NoData /\ data.event # "ON_SALE"
busy == call # NoCall

\* The order of SelectionPage's early returns.
Screen == IF loading THEN "loading"
          ELSE IF invalidLink THEN "invalid link"
          ELSE IF loadError = "network" THEN "network error"
          ELSE IF eventUnavailable THEN "unavailable"
          ELSE IF hold # NoHold THEN "hold" ELSE "selection"

\* A seat's button is enabled; the steps of a GA card.
SeatOffered(o) == Screen = "selection" /\ o \in Seats \cap offers
QuantitiesOffered(o) == {q \in {selectedLines[o] - 1, selectedLines[o] + 1} :
                           q >= 0 /\ q <= data.left[o]}

\* The button "Hold tickets" of the summary, and of the sheet a phone opens.
\* The summary is not drawn when no seat and no GA offer is left.
HoldInSummary == /\ Screen = "selection" /\ selectedLines # Nothing /\ ~busy
                 /\ Seats # {} \/ offers # {}
HoldInSheet == Screen = "selection" /\ selectedLines # Nothing /\ ~busy

\* The buttons under a hold.  Only "Change selection" waits for a pending command.
HoldButtons == IF Screen # "hold" THEN {}
               ELSE IF hold.expired THEN {"Choose tickets again"}
               ELSE {"Continue to checkout"}
                      \union (IF busy THEN {} ELSE {"Change selection"})

\* Of each offer, others hold at most one ticket when the page opens.
Init ==
    /\ eventState = "ON_SALE" /\ linkAlive = TRUE /\ elsewhere \in [Offers -> 0..1]
    /\ resv = <<>> /\ answers = [k \in 1..MaxKeys |-> Unanswered] /\ wire = {}
    /\ capability = TRUE /\ fetch = "ON_SALE"
    /\ data = NoData /\ loadError = ""
    /\ selected = {} /\ gaQuantities = Nothing
    /\ hold = NoHold /\ heldLines = Nothing /\ call = NoCall
    /\ intentKeys = {} /\ nextKey = 1
    /\ mutationError = "" /\ availabilityNotice = FALSE
    /\ faults = 0 /\ changes = 0 /\ replaced = {}
-----------------------------------------------------------------------------
(* The bootstrap query: four GETs sent together, read by the server one by *)
(* one.  A query that is already running is replaced when the page has     *)
(* data (refetch and invalidateQueries cancel it) and joined otherwise.    *)

\* The event is read first; fetch keeps what was read of it.
Fresh == EventNow

Refetch ==
    /\ fetch' = IF fetch # Idle /\ data = NoData THEN fetch ELSE Fresh
    /\ loadError' = IF data = NoData THEN "" ELSE loadError
    /\ UNCHANGED data

\* Mutant: the interval stops with the first failed answer.
PollWhileHealthy ==
    /\ capability /\ fetch = Idle /\ loadError = ""
    /\ Refetch
    /\ UNCHANGED <<server, capability, choice, hold, heldLines, call, intentKeys,
                   nextKey, notes, bounds>>

\* refetchInterval: 30 s after the last, never while one is running.
Poll ==
    /\ capability /\ fetch = Idle
    /\ Refetch
    /\ UNCHANGED <<server, capability, choice, hold, heldLines, call, intentKeys,
                   nextKey, notes, bounds>>

\* The realtime stream, open once the session's event is known, says that
\* something changed; or the buyer tries again on the network error screen.
Notified ==
    /\ data # NoData \/ Screen = "network error"
    /\ Refetch
    /\ UNCHANGED <<server, capability, choice, hold, heldLines, call, intentKeys,
                   nextKey, notes, bounds>>

\* The effect that follows new offers: choices that are no longer offered are
\* dropped, quantities are cut to what is left, and the buyer is told, unless
\* it is the buyer's own hold that took them.
FollowOffers(now) ==
    LET kept == {o \in selected : now[o] > 0}
    IN  /\ selected' = kept
        /\ gaQuantities' = [o \in Offers |->
             IF o \in kept \ Seats THEN Min({gaQuantities[o], now[o]}) ELSE gaQuantities[o]]
        /\ availabilityNotice' = (availabilityNotice \/ (kept # selected /\ hold = NoHold))

\* All four answered, the availability last: it is refused with 409 whenever the
\* event is not ON_SALE.  Any refusal replaces the page by an error screen, and the
\* old data stays underneath.
FetchArrives ==
    /\ fetch # Idle /\ fetch' = Idle
    /\ \/ /\ fetch = "INVALID" \/ ~linkAlive
          /\ loadError' = "invalid link"
          /\ UNCHANGED <<data, choice, availabilityNotice>>
       \/ /\ fetch # "INVALID" /\ linkAlive /\ eventState # "ON_SALE"
          /\ loadError' = "network"
          /\ UNCHANGED <<data, choice, availabilityNotice>>
       \/ /\ fetch # "INVALID" /\ linkAlive /\ eventState = "ON_SALE"
          /\ loadError' = ""
          /\ data' = [event |-> fetch, left |-> [o \in Offers |-> Left(o)]]
          /\ FollowOffers(data'.left)
    /\ UNCHANGED <<server, capability, hold, heldLines, call, intentKeys, nextKey,
                   mutationError, bounds>>

\* The network fails, or a gateway answers 5xx: "network" either way.
FetchFails ==
    /\ fetch # Idle /\ faults < MaxFaults
    /\ fetch' = Idle /\ loadError' = "network" /\ faults' = faults + 1
    /\ UNCHANGED <<server, capability, data, choice, hold, heldLines, call,
                   intentKeys, nextKey, notes,
                   changes, replaced>>
-----------------------------------------------------------------------------
(* Choosing. *)

ToggleReserved(o) ==
    /\ SeatOffered(o)
    /\ selected' = IF o \in selected THEN selected \ {o} ELSE selected \union {o}
    /\ availabilityNotice' = FALSE
    /\ UNCHANGED <<server, capability, query, gaQuantities, hold, heldLines, call,
                   intentKeys, nextKey, mutationError,
                   bounds>>

SetGAQuantity(o, q) ==
    /\ Screen = "selection" /\ o \in offers \ Seats /\ q \in QuantitiesOffered(o)
    /\ gaQuantities' = [gaQuantities EXCEPT ![o] = q]
    /\ selected' = IF q > 0 THEN selected \union {o} ELSE selected \ {o}
    /\ availabilityNotice' = FALSE
    /\ UNCHANGED <<server, capability, query, hold, heldLines, call, intentKeys,
                   nextKey, mutationError, bounds>>

-----------------------------------------------------------------------------
(* Commands.  getIntentKey reuses the key of an intent whose outcome is not *)
(* known; clearIntentKey forgets it once any answer has come.              *)

ReserveIntent(lines) == [op |-> "reserve", lines |-> lines]
ReleaseIntent(r) == [op |-> "release", res |-> r]
KeyHeld(intent) == \E e \in intentKeys : e.intent = intent
\* Mutant: a key is drawn for every attempt.
KeyOfAttempt(intent) == nextKey
KeyOf(intent) == IF KeyHeld(intent)
                 THEN (CHOOSE e \in intentKeys : e.intent = intent).key ELSE nextKey
WithKey(intent) == intentKeys \union {[intent |-> intent, key |-> KeyOf(intent)]}
WithoutKey(intent) == {e \in intentKeys : e.intent # intent}

Send(intent) ==
    /\ nextKey <= MaxKeys \/ KeyHeld(intent)
    /\ call' = [op |-> intent.op, intent |-> intent, key |-> KeyOf(intent),
                answer |-> Unanswered]
    /\ wire' = wire \union {[intent |-> intent, key |-> KeyOf(intent)]}
    /\ intentKeys' = WithKey(intent)
    /\ nextKey' = IF KeyOf(intent) = nextKey THEN nextKey + 1 ELSE nextKey
    /\ mutationError' = ""

Reserve ==
    /\ HoldInSummary \/ HoldInSheet
    /\ Send(ReserveIntent(selectedLines))
    /\ UNCHANGED <<eventState, linkAlive, elsewhere, resv, answers, capability,
                   query, choice, hold, heldLines, availabilityNotice,
                   bounds>>

\* "Change selection", disabled while a command is pending.
Release ==
    /\ "Change selection" \in HoldButtons
    /\ Send(ReleaseIntent(hold.res))
    /\ UNCHANGED <<eventState, linkAlive, elsewhere, resv, answers, capability,
                   query, choice, hold, heldLines, availabilityNotice,
                   bounds>>

ClearSelection ==
    /\ hold' = NoHold /\ heldLines' = Nothing
    /\ selected' = {} /\ gaQuantities' = Nothing
    /\ mutationError' = "" /\ availabilityNotice' = FALSE

\* "Choose tickets again", after the deadline: never disabled, nothing is sent.
ChooseAgain ==
    /\ "Choose tickets again" \in HoldButtons
    /\ ClearSelection /\ Refetch
    /\ UNCHANGED <<server, capability, call, intentKeys, nextKey, bounds>>

\* The clock of the page, aligned to the server's, reaches the deadline.  The
\* estimate lags by the time an answer travels, so it is never early.
NoticeExpiry ==
    /\ hold # NoHold /\ ~hold.expired /\ resv[hold.res].state = "EXPIRED"
    /\ hold' = [hold EXCEPT !.expired = TRUE]
    /\ UNCHANGED <<server, capability, query, choice, heldLines, call, intentKeys,
                   nextKey, notes, bounds>>

\* handoffPending: set by the handoff and never reset while the page lives.
handoffPending == capability /\ \E r \in DOMAIN resv : resv[r].handed

\* "Continue to checkout" posts the reservation to the Partner.  It is not
\* disabled by a pending command.
Handoff ==
    /\ "Continue to checkout" \in HoldButtons
    /\ resv' = [resv EXCEPT ![hold.res].handed = TRUE]
    /\ UNCHANGED <<eventState, linkAlive, elsewhere, answers, wire, capability,
                   query, choice, hold, heldLines, call, intentKeys, nextKey, notes,
                   bounds>>

\* The page is left or reloaded: its memory is gone and the fragment with it.
Reload ==
    /\ capability
    /\ capability' = FALSE /\ fetch' = Idle /\ data' = NoData /\ loadError' = ""
    /\ selected' = {} /\ gaQuantities' = Nothing
    /\ hold' = NoHold /\ heldLines' = Nothing /\ call' = NoCall
    /\ intentKeys' = {} /\ mutationError' = "" /\ availabilityNotice' = FALSE
    /\ UNCHANGED <<server, nextKey, bounds>>

-----------------------------------------------------------------------------
(* The answer of a command reaches the page. *)

Settle == call' = NoCall /\ UNCHANGED <<server, capability, nextKey, changes, replaced>>

\* Only the lines that were sent become heldLines; the choice made meanwhile stays.
ReserveHeld ==
    /\ call.op = "reserve" /\ call.answer \in DOMAIN resv
    /\ Settle /\ Refetch
    /\ intentKeys' = WithoutKey(call.intent)
    /\ hold' = [res |-> call.answer, expired |-> FALSE]
    /\ heldLines' = call.intent.lines
    /\ UNCHANGED <<choice, notes, faults>>

ReserveRefused ==
    /\ call.op = "reserve" /\ call.answer = Refused
    /\ Settle /\ Refetch
    /\ intentKeys' = WithoutKey(call.intent)
    /\ mutationError' = "refused"
    /\ UNCHANGED <<choice, hold, heldLines, availabilityNotice, faults>>

\* Mutant: the page keeps the hold it released.
ReleaseDoneKept ==
    /\ call.op = "release" /\ call.answer \in DOMAIN resv
    /\ Settle /\ Refetch
    /\ intentKeys' = WithoutKey(call.intent)
    /\ UNCHANGED <<choice, hold, heldLines, notes, faults>>

ReleaseDone ==
    /\ call.op = "release" /\ call.answer \in DOMAIN resv
    /\ Settle /\ Refetch
    /\ intentKeys' = WithoutKey(call.intent)
    /\ ClearSelection
    /\ UNCHANGED faults

ReleaseRefused ==
    /\ call.op = "release" /\ call.answer = Refused
    /\ Settle
    /\ intentKeys' = WithoutKey(call.intent)
    /\ mutationError' = "refused"
    /\ UNCHANGED <<query, choice, hold, heldLines, availabilityNotice, faults>>

\* The request or its answer is lost: the key stays, the buyer is told to try
\* again.  The server may still see the request.
CallThrows ==
    /\ busy /\ faults < MaxFaults
    /\ Settle
    /\ mutationError' = "unconfirmed" /\ faults' = faults + 1
    /\ UNCHANGED <<query, choice, hold, heldLines, intentKeys, availabilityNotice>>

\* A gateway answers 5xx in the server's place: an answer like any other for
\* the page, whatever the server did or will do.
GatewayAnswers ==
    /\ busy /\ call.answer # Refused /\ faults < MaxFaults
    /\ call' = [call EXCEPT !.answer = Refused]
    /\ faults' = faults + 1 /\ replaced' = replaced \union {call.key}
    /\ UNCHANGED <<server, capability, query, choice, hold, heldLines, intentKeys,
                   nextKey, notes, changes>>

-----------------------------------------------------------------------------
(* The Selection API.  runMutation: the session is checked and the key is   *)
(* claimed in one transaction; a key that has an answer is answered again.  *)

Answered(k) == answers[k] # Unanswered

\* resolveItems and reservation.Create: every offer must still be offered and
\* have enough left, and the event must be ON_SALE.
CanReserve(lines) == /\ eventState = "ON_SALE"
                     /\ \A o \in Offers : lines[o] <= Left(o)

Reservation(lines, k) ==
    [lines |-> lines, state |-> "HELD", handed |-> FALSE, key |-> k]

PerformReserve(q) ==
    /\ q.intent.op = "reserve"
    /\ IF CanReserve(q.intent.lines)
       THEN /\ Len(resv) < MaxHolds
            /\ resv' = Append(resv, Reservation(q.intent.lines, q.key))
            /\ answers' = [answers EXCEPT ![q.key] = Len(resv) + 1]

       ELSE /\ answers' = [answers EXCEPT ![q.key] = Refused]
            /\ UNCHANGED <<resv>>

\* reservation.Release: a released reservation is released again without effect.
PerformRelease(q) ==
    /\ q.intent.op = "release"
    /\ LET r == q.intent.res
       IN  \/ /\ resv[r].state = "HELD"
              /\ resv' = [resv EXCEPT ![r].state = "RELEASED"]
              /\ answers' = [answers EXCEPT ![q.key] = r]
           \/ /\ resv[r].state = "RELEASED"
              /\ answers' = [answers EXCEPT ![q.key] = r] /\ UNCHANGED <<resv>>
           \/ /\ resv[r].state \in {"EXPIRED", "CHECKOUT"}
              /\ answers' = [answers EXCEPT ![q.key] = Refused]
              /\ UNCHANGED <<resv>>

\* The answer travels back to the page that still waits for it.
AnswerWith(q, result) ==
    call' = IF busy /\ call.key = q.key /\ call.intent = q.intent /\ call.answer = Unanswered
            THEN [call EXCEPT !.answer = result] ELSE call

Serve(q) ==
    /\ wire' = wire \ {q}
    /\ IF ~linkAlive
       THEN AnswerWith(q, Refused) /\ UNCHANGED <<resv, answers>>
       ELSE /\ IF Answered(q.key) THEN UNCHANGED <<resv, answers>>
               ELSE PerformReserve(q) \/ PerformRelease(q)
            /\ AnswerWith(q, answers'[q.key])
    /\ UNCHANGED <<eventState, linkAlive, elsewhere, capability, query, choice, hold,
                   heldLines, intentKeys, nextKey, notes,
                   bounds>>

\* The deadline passes.  Until a worker or a command finds it the seats stay
\* taken; for the buyer that is one more change of what is left.
Expire(r) ==
    /\ resv[r].state = "HELD"
    /\ resv' = [resv EXCEPT ![r].state = "EXPIRED"]
    /\ UNCHANGED <<eventState, linkAlive, elsewhere, answers, wire, capability,
                   query, choice, hold, heldLines, call, intentKeys, nextKey, notes,
                   bounds>>

\* The Partner begins the protected checkout of a reservation handed to it.
PartnerBegins(r) ==
    /\ resv[r].handed /\ resv[r].state = "HELD"
    /\ resv' = [resv EXCEPT ![r].state = "CHECKOUT"]
    /\ UNCHANGED <<eventState, linkAlive, elsewhere, answers, wire, capability,
                   query, choice, hold, heldLines, call, intentKeys, nextKey, notes,
                   bounds>>

\* Operators and other buyers.
Changing == /\ changes < MaxChanges /\ changes' = changes + 1
            /\ UNCHANGED <<resv, answers, wire, capability, query, choice, hold,
                           heldLines, call, intentKeys, nextKey, notes,
                           faults, replaced>>

OthersTake(o) ==
    /\ Changing /\ eventState = "ON_SALE" /\ Left(o) > 0
    /\ elsewhere' = [elsewhere EXCEPT ![o] = @ + 1]
    /\ UNCHANGED <<eventState, linkAlive>>

OthersReturn(o) ==
    /\ Changing /\ elsewhere[o] > 0
    /\ elsewhere' = [elsewhere EXCEPT ![o] = @ - 1]
    /\ UNCHANGED <<eventState, linkAlive>>

PauseOrResume ==
    /\ Changing
    /\ eventState' = IF eventState = "ON_SALE" THEN "PAUSED" ELSE "ON_SALE"
    /\ UNCHANGED <<linkAlive, elsewhere>>

LinkDies ==
    /\ Changing /\ linkAlive
    /\ linkAlive' = FALSE
    /\ UNCHANGED <<eventState, elsewhere>>

-----------------------------------------------------------------------------
Buyer ==
    \/ Poll \/ Notified \/ Reserve \/ Release \/ ChooseAgain \/ Handoff \/ Reload
    \/ \E o \in Seats : ToggleReserved(o)
    \/ \E o \in Offers : \E q \in 0..Stock[o] : SetGAQuantity(o, q)

Arrivals == ReserveHeld \/ ReserveRefused \/ ReleaseDone \/ ReleaseRefused

Server ==
    \/ \E q \in wire : Serve(q)
    \/ \E r \in DOMAIN resv : Expire(r) \/ PartnerBegins(r)
    \/ \E o \in Offers : OthersTake(o) \/ OthersReturn(o)
    \/ PauseOrResume \/ LinkDies

Network == FetchArrives \/ FetchFails
           \/ CallThrows \/ GatewayAnswers \/ Arrivals

Next == Buyer \/ Server \/ Network \/ NoticeExpiry

Spec == Init /\ [][Next]_vars

\* The 30 s timer fires while the page is open, and answers come in the end.
Fairness == /\ WF_vars(Poll) /\ WF_vars(FetchArrives)

FairSpec == Spec /\ Fairness

-----------------------------------------------------------------------------
(* Properties. *)

\* What the buyer has chosen is what the page last showed as available, one
\* seat at a time and between one and the tickets left of a GA offer, however
\* answers, other buyers and clicks interleave: nothing vanished can be asked for.
SelectionIsOffered ==
    \A o \in selected : selectedLines[o] \in 1..data.left[o]

\* A hold the page shows as live is not one the server has released, unless the
\* release is still out or its outcome is doubted on the page: the buyer never
\* carries a released hold to checkout unwarned.
LiveHoldIsReal ==
    hold # NoHold /\ ~hold.expired /\ resv[hold.res].state = "RELEASED"
      => (busy /\ call.intent = ReleaseIntent(hold.res)) \/ mutationError # ""

\* A reservation of this session that keeps tickets is one the page shows, or its
\* key is still kept so that the same intent would recover it, or its answer is
\* on the way; only a reload or a gateway's answer can lose it before its deadline.
HoldsAreReachable ==
    \A r \in DOMAIN resv :
        capability /\ linkAlive /\ resv[r].state = "HELD"
          => \/ hold.res = r
             \/ \E e \in intentKeys : e.key = resv[r].key
             \/ resv[r].key \in replaced

\* The page catches up: once the server is quiet, the event is on sale and the
\* link is alive, what is shown becomes what is left, whatever notices were lost.
ShownIsTrue == data.left = [o \in Offers |-> Left(o)]
PageCatchesUp ==
    <>[](capability /\ linkAlive /\ eventState = "ON_SALE") => <>[]ShownIsTrue
===============================================================================
