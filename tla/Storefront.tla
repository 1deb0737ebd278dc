------------------------------- MODULE Storefront -------------------------------
(***************************************************************************)
(* The demonstration storefront (partner-demo-web): its pages, and the     *)
(* server that calls the Partner API for them.                             *)
(*                                                                         *)
(* The server keeps nothing.  What it knows of a checkout (the attempt     *)
(* under way, the keys of its calls) is a sealed cookie the tabs share: a  *)
(* request carries the cookie as it was then, and its answer replaces the  *)
(* whole of it.  The Partner API stores the answer of every command under  *)
(* its key, refusals too, and replays it.                                  *)
(***************************************************************************)
EXTENDS Naturals, Sequences, FiniteSets, Functions

CONSTANTS
    Tabs,
    Partners,
    MaxOrders,      \* bound: selections begun
    MaxPairs,       \* bound: pairs of keys drawn, and so attempts, of all orders
    MaxTroubles     \* bound, by the number of selections begun: answers lost, requests
                    \* abandoned, connections changed, sessions expired

ASSUME StorefrontAssumption ==
    /\ MaxOrders \in Nat /\ MaxPairs \in Nat
    /\ MaxTroubles \in [0 .. MaxOrders -> Nat]

VARIABLES
    connections,    \* the cookie of the saved Partners
    jar,            \* the cookie of the checkout, or NoSession
    tab,
    strays,         \* requests nobody waits for, still to be served
    orders,         \* the Partner API: the reservations
    receipts,       \* the Partner API: the answers it stored, under their keys
    pairs,          \* beginKey and failureKey are drawn together: pairs drawn per order
    cut,            \* orders whose cookie was replaced, has expired, or was written
                    \* by an answer older than it
    troubles

storeVars == <<connections, jar, tab, strays, orders, receipts, pairs, cut, troubles>>

Orders == 1 .. MaxOrders
NoSession == [order |-> 0, pair |-> 0, attempt |-> 0, confirmed |-> FALSE]
Idle == [op |-> "none", sent |-> NoSession, cookie |-> NoSession]
WithinBound(drawn) == SumFunction(drawn) <= MaxPairs
Answered(c) == c.cookie # NoSession
At(page, order) == [at |-> page, order |-> order, stage |-> "review", call |-> Idle]

-----------------------------------------------------------------------------
(* The saved Partners. *)

\* activeConnection.
HasConnection == connections.items # <<>>
ActivePartner == connections.items[connections.active]

\* The last two stay beside a new one.
Connected(p) ==
    LET n == Len(connections.items)
        kept == SubSeq(connections.items, IF n > 2 THEN n - 1 ELSE 1, n)
    IN  [items |-> Append(kept, p), active |-> Len(kept) + 1]

\* When the active one goes, the first that is left becomes active.
Removed(i) ==
    LET n == Len(connections.items)
    IN  [items |-> SubSeq(connections.items, 1, i - 1) \o SubSeq(connections.items, i + 1, n),
         active |-> CASE n = 1 -> 0
                      [] n > 1 /\ i < connections.active -> connections.active - 1
                      [] n > 1 /\ i = connections.active -> 1
                      [] OTHER -> connections.active]

-----------------------------------------------------------------------------
(* The Partner API. *)

\* Mutant: every call of begin draws a key.
BeginKeyPerCall(s) == <<"begin", s.order, MaxPairs + Cardinality(receipts)>>

BeginKey(s) == <<"begin", s.order, s.pair>>

FailureKey(s) == <<"fail", s.order, s.pair>>

\* Mutant: every call of confirm draws a key.
ConfirmKeyPerCall(s) == <<"confirm", s.order, Cardinality(receipts)>>

\* One key for the life of the session.
ConfirmKey(s) == <<"confirm", s.order, 0>>

KeyOfCommand(op, s) ==
    CASE op = "begin" -> BeginKey(s)
      [] op = "fail" -> FailureKey(s)
      [] op = "confirm" -> ConfirmKey(s)

\* What differs between two bodies under one key: the attempt they name.
BodyOf(op, s) == IF op = "begin" THEN 0 ELSE s.attempt

\* The answer to a command: the attempt it began, failed or confirmed, or a refusal.
Refused == 0
Results == Refused .. MaxPairs

\* What a command does to an order, and the answer.
Outcomes(op, order, attempt) ==
    CASE op = "begin" /\ order.state \in {"HELD", "PAYMENT_RETRY"} ->
           {<<[order EXCEPT !.state = "COMMITTING", !.attempt = @ + 1], order.attempt + 1>>}
      [] op = "fail" /\ order.attempt = attempt /\ order.state \in {"COMMITTING", "RECONCILING"} ->
           {<<[order EXCEPT !.state = "PAYMENT_RETRY"], attempt>>}
             \cup (IF order.state = "RECONCILING" THEN {<<order, Refused>>} ELSE {})
      [] op = "confirm" /\ order.attempt = attempt /\ order.state \in {"COMMITTING", "RECONCILING"} ->
           {<<[order EXCEPT !.state = "CONFIRMED"], attempt>>}
      [] OTHER -> {<<order, Refused>>}

StoredAnswer(key, body, result) == [key |-> key, body |-> body, result |-> result] \in receipts

\* A command under its key: served once, replayed after that, refused with another body.
ServedCommand(op, s, result) ==
    LET key == KeyOfCommand(op, s)
        body == BodyOf(op, s)
        known == {a \in receipts : a.key = key}
    IN  \/ /\ known = {}
           /\ \E outcome \in Outcomes(op, orders[s.order], s.attempt) :
                /\ orders' = [orders EXCEPT ![s.order] = outcome[1]]
                /\ result = outcome[2]
                /\ receipts' = receipts \cup {[key |-> key, body |-> body, result |-> result]}
        \/ \E a \in known :
                /\ result = IF a.body = body THEN a.result ELSE Refused
                /\ UNCHANGED <<orders, receipts>>

\* Deadlines pass.
DeadlinePasses(o) ==
    /\ \E next \in {"RECONCILING", "ENDED"} :
         /\ orders[o].state \in (IF next = "RECONCILING" THEN {"COMMITTING"}
                                 ELSE {"HELD", "PAYMENT_RETRY", "RECONCILING"})
         /\ orders' = [orders EXCEPT ![o].state = next]
    /\ UNCHANGED <<connections, jar, tab, strays, receipts, pairs, cut, troubles>>

-----------------------------------------------------------------------------
(* The server of the storefront. *)

\* What the server refuses without a call: nobody is connected, no session, no attempt.
Relayed(op, s) ==
    /\ HasConnection
    /\ s # NoSession
    /\ op \in {"confirm", "fail"} => s.attempt # 0

\* The cookie the answer brings.
CookieAfter(op, s, result) ==
    CASE op = "begin" -> [s EXCEPT !.attempt = result]
      [] op = "fail" -> [s EXCEPT !.attempt = 0, !.pair = pairs[s.order] + 1]
      [] op = "confirm" -> [s EXCEPT !.confirmed = TRUE]

\* A refusal changes nothing here: the page shows it and is free again.
Relay(t) ==
    LET c == tab[t].call
    IN  /\ c # Idle /\ ~Answered(c)
        /\ \E result \in Results :
             /\ ServedCommand(c.op, c.sent, result)
             /\ tab' = [tab EXCEPT ![t].call =
                  IF result # Refused
                  THEN [@ EXCEPT !.cookie = CookieAfter(c.op, c.sent, result)]
                  ELSE Idle]
             /\ pairs' = IF c.op = "fail" /\ result # Refused
                         THEN [pairs EXCEPT ![c.sent.order] = @ + 1] ELSE pairs
        /\ WithinBound(pairs')
        /\ UNCHANGED <<connections, jar, strays, cut, troubles>>

RelayStray(c) ==
    /\ strays' = strays \ {c}
    /\ \E result \in Results : ServedCommand(c.op, c.sent, result)
    /\ UNCHANGED <<connections, jar, tab, pairs, cut, troubles>>

Begun == {o \in Orders : orders[o].state # "NONE"}
Trouble ==
    /\ troubles < MaxTroubles[Cardinality(Begun)]
    /\ troubles' = troubles + 1

\* A tab waits no longer; a request that was not served yet may be later.
Forget(c) ==
    IF c = Idle
    THEN UNCHANGED <<strays, troubles>>
    ELSE /\ Trouble
         /\ \/ UNCHANGED strays
            \/ ~Answered(c) /\ strays' = strays \cup {[op |-> c.op, sent |-> c.sent]}

-----------------------------------------------------------------------------
(* The pages. *)

\* The ticket page confirms again, under the key and with the attempt that were
\* confirmed, which brings the stored answer.
TicketOrder(s) ==
    IF s.confirmed /\ StoredAnswer(ConfirmKey(s), s.attempt, s.attempt) THEN s.order ELSE 0

\* The tickets, or the error of the answer.
TicketPage(s) == At("ticket", TicketOrder(s))

\* The order of the cookie to review, or the error.
CheckoutPage(s) == At("checkout", s.order)

\* The events, the page of one, and the pages of connections one link away.
StorePage == At("store", 0)

\* App: the pages of an order need a connection.
Shown(page, s) ==
    CASE page = "ticket" /\ HasConnection -> TicketPage(s)
      [] page = "checkout" /\ HasConnection -> CheckoutPage(s)
      [] OTHER -> StorePage

\* A link, an address, a reload.  The checkout page reads the order of the cookie.
Visit(t, page) ==
    /\ tab' = [tab EXCEPT ![t] = Shown(page, jar)]
    /\ Forget(tab[t].call)
    /\ UNCHANGED <<connections, jar, orders, receipts, pairs, cut>>

\* A form of the pages of connections, sent from t.
FormSent(t) ==
    /\ tab[t].at = "store"
    /\ IF HasConnection THEN Trouble ELSE UNCHANGED troubles
    /\ UNCHANGED <<jar, tab, strays, orders, receipts, pairs, cut>>

\* ConnectionSetup: a credential the API accepts; any other leaves the form as it is.
Connect(t) ==
    /\ FormSent(t)
    /\ \E p \in Partners :
         /\ \A i \in DOMAIN connections.items : connections.items[i] # p
         /\ connections' = Connected(p)

\* ConnectionsPage: use another one, or remove one.
ChangeConnections(t) ==
    /\ FormSent(t)
    /\ \E i \in DOMAIN connections.items :
         connections' \in {[connections EXCEPT !.active = i], Removed(i)} \ {connections}

\* The selection session belongs to the active Partner.
NewOrder == [partner |-> ActivePartner, state |-> "HELD", attempt |-> 0]

\* EventPage: choose; the buyer chooses and holds in the hosted selector.
Choose(t, o) ==
    /\ tab[t].at = "store" /\ HasConnection
    /\ Begun = 1 .. o - 1
    /\ troubles <= MaxTroubles[o]
    /\ orders' = [orders EXCEPT ![o] = NewOrder]
    /\ tab' = [tab EXCEPT ![t] = At("selector", o)]
    /\ UNCHANGED <<connections, jar, strays, receipts, pairs, cut, troubles>>

\* checkoutReturn: the selector posts the hold, and the server reads it with the
\* credential of the active Partner.  The new session replaces any other.
CheckoutReturn(t) ==
    LET o == tab[t].order
    IN  /\ tab[t].at = "selector"
        /\ IF HasConnection /\ ActivePartner = orders[o].partner
           THEN /\ jar' = [NoSession EXCEPT !.order = o, !.pair = 1]
                /\ pairs' = [pairs EXCEPT ![o] = 1]
                /\ WithinBound(pairs')
                /\ cut' = cut \cup ({jar.order} \ {0})
                /\ tab' = [tab EXCEPT ![t] = Shown("checkout", jar')]
           ELSE /\ tab' = [tab EXCEPT ![t] = StorePage]
                /\ UNCHANGED <<jar, pairs, cut>>
        /\ UNCHANGED <<connections, strays, orders, receipts, troubles>>

\* CheckoutPage: the buttons of the two stages, while the page is not busy.
Buy(t, op) ==
    /\ tab[t].at = "checkout" /\ tab[t].order # 0 /\ tab[t].call = Idle
    /\ IF op = "begin" THEN tab[t].stage = "review" ELSE tab[t].stage = "payment"
    /\ Relayed(op, jar)
    /\ tab' = [tab EXCEPT ![t].call = [op |-> op, sent |-> jar, cookie |-> NoSession]]
    /\ UNCHANGED <<connections, jar, strays, orders, receipts, pairs, cut, troubles>>

\* A cookie that has expired is not read again.
Brought(c) == IF jar = NoSession THEN jar ELSE c.cookie

\* The cookie changed since the request took it, and this answer undoes the change.
Overwrites(c) ==
    /\ jar # c.sent
    /\ [Brought(c) EXCEPT !.confirmed = jar.confirmed] # jar

\* begin, confirm and fail go on to the other stage or to the ticket page.
AnswerArrives(t) ==
    LET c == tab[t].call
        after(s) ==
            CASE c.op = "begin" -> [tab[t] EXCEPT !.stage = "payment", !.call = Idle]
              [] c.op = "fail" -> [tab[t] EXCEPT !.stage = "review", !.call = Idle]
              [] c.op = "confirm" -> Shown("ticket", s)
    IN  /\ Answered(c)
        /\ jar' = Brought(c)
        /\ cut' = IF Overwrites(c) THEN cut \cup {jar.order} ELSE cut
        /\ tab' = [tab EXCEPT ![t] = after(jar')]
        /\ UNCHANGED <<connections, strays, orders, receipts, pairs, troubles>>

\* An error of the network: the page shows it and stays.
AnswerFails(t) ==
    LET c == tab[t].call
    IN  /\ c # Idle
        /\ tab' = [tab EXCEPT ![t].call = Idle]
        /\ Forget(c)
        /\ UNCHANGED <<connections, jar, orders, receipts, pairs, cut>>

\* Thirty minutes after the hold was handed over.
SessionExpires ==
    /\ jar # NoSession
    /\ Trouble
    /\ jar' = NoSession
    /\ cut' = cut \cup {jar.order}
    /\ UNCHANGED <<connections, tab, strays, orders, receipts, pairs>>

-----------------------------------------------------------------------------
StorefrontInit ==
    /\ connections = [items |-> <<>>, active |-> 0]
    /\ jar = NoSession
    /\ tab = [t \in Tabs |-> StorePage]
    /\ strays = {} /\ receipts = {} /\ cut = {}
    /\ orders = [o \in Orders |-> [partner |-> "NONE", state |-> "NONE", attempt |-> 0]]
    /\ pairs = [o \in Orders |-> 0]
    /\ troubles = 0

StorefrontNext ==
    \/ \E t \in Tabs :
         \/ \E page \in {"store", "checkout", "ticket"} : Visit(t, page)
         \/ Connect(t) \/ ChangeConnections(t)
         \/ \E o \in Orders : Choose(t, o)
         \/ CheckoutReturn(t)
         \/ \E op \in {"begin", "confirm", "fail"} : Buy(t, op)
         \/ Relay(t) \/ AnswerArrives(t) \/ AnswerFails(t)
    \/ \E c \in strays : RelayStray(c)
    \/ \E o \in Orders : DeadlinePasses(o)
    \/ SessionExpires

StorefrontSpec == StorefrontInit /\ [][StorefrontNext]_storeVars

-----------------------------------------------------------------------------
\* The attempt that protects an order stays within reach of the browser, whatever answer
\* is lost: the cookie names it, or names the key that brings it back.
AttemptIsReachable ==
    \A o \in Orders \ cut : orders[o].state \in {"COMMITTING", "RECONCILING"} =>
        /\ jar.order = o
        /\ \/ jar.attempt = orders[o].attempt
           \/ StoredAnswer(BeginKey(jar), 0, orders[o].attempt)

\* A sold order can always be fetched: the cookie holds the attempt and the key under
\* which the confirmation is stored, so that asking again brings the tickets.
TicketIsReachable ==
    \A o \in Orders \ cut : orders[o].state = "CONFIRMED" =>
        /\ jar.order = o
        /\ StoredAnswer(ConfirmKey(jar), jar.attempt, orders[o].attempt)
================================================================================
