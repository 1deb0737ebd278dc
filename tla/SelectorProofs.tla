---------------------------- MODULE SelectorProofs ----------------------------
(***************************************************************************)
(* Proofs about the buyer's selector, for any offers, holds, keys and      *)
(* faults: what is chosen was offered, a hold shown as live is not one the *)
(* server released, and a hold that keeps tickets is within reach.         *)
(*                                                                         *)
(* The argument is again the life of an idempotency key: it means one      *)
(* intent wherever it is mentioned, it is kept until an answer has come,   *)
(* and the key of a reservation the page has shown is spent, so no late    *)
(* answer brings that reservation up a second time.                        *)
(***************************************************************************)
EXTENDS SelectorSession, FiniteSetTheorems, TLAPS

Ops == {"reserve", "release"}
Keys == 1 .. MaxKeys
Lines == [Offers -> Nat]
Intents == [op : {"reserve"}, lines : Lines] \cup [op : {"release"}, res : Nat]
Sent == [intent : Intents, key : Keys]
Call == [op : Ops, intent : Intents, key : Keys, answer : Int]
Row == [lines : Lines, state : {"HELD", "RELEASED", "EXPIRED", "CHECKOUT"},
        handed : BOOLEAN, key : Keys]

ServerTypes ==
  /\ linkAlive \in BOOLEAN
  /\ elsewhere \in [Offers -> Int]
  /\ resv \in Seq(Row)
  /\ answers \in [Keys -> Int]
  /\ wire \subseteq Sent

PageTypes ==
  /\ capability \in BOOLEAN
  /\ data.left \in [Offers -> Int]
  /\ selected \subseteq Offers
  /\ gaQuantities \in Lines
  /\ hold \in [res : Nat, expired : BOOLEAN]

KeyTypes ==
  /\ call = NoCall \/ (call \in Call /\ call.op = call.intent.op)
  /\ intentKeys \subseteq Sent
  /\ nextKey \in Nat \ {0}

\* What goes out and what is kept.
Mentions == wire \cup intentKeys

\* A key was drawn for one intent, an intent under way has one key, and the page
\* keeps the key of the command it waits for.
KeysOK ==
  /\ \A m \in Mentions : m.key < nextKey
  /\ \A m, n \in Mentions : m.key = n.key => m = n
  /\ \A m, n \in intentKeys : m.intent = n.intent => m = n
  /\ call # NoCall => [intent |-> call.intent, key |-> call.key] \in intentKeys

\* A stored answer is the reservation its key made, or the one its key released.
AnswersOK ==
  /\ \A k \in Keys : /\ answers[k] \in {Unanswered, Refused} \cup DOMAIN resv
                     /\ k >= nextKey => answers[k] = Unanswered
  /\ \A r \in DOMAIN resv : /\ answers[resv[r].key] = r
                            /\ \A m \in Mentions :
                                 m.key = resv[r].key => m.intent.op = "reserve"
  /\ \A m \in Mentions : answers[m.key] \in DOMAIN resv =>
       IF m.intent.op = "reserve" THEN resv[answers[m.key]].key = m.key
       ELSE /\ answers[m.key] = m.intent.res
            /\ resv[m.intent.res].state = "RELEASED"

\* The answer a command has got is the stored one, unless a gateway gave it or the
\* link was dead.
CallOK ==
  call # NoCall =>
    \/ call.answer = Unanswered
    \/ /\ call.answer = Refused
       /\ call.key \in replaced \/ answers[call.key] = Refused \/ ~linkAlive
    \/ (call.answer \in DOMAIN resv /\ call.answer = answers[call.key])

\* The page does not keep the key that made r any more.
Spent(r) == \A m \in intentKeys : m.key # resv[r].key

\* What was shown, sent for release or released has a spent key.
SpentOK ==
  /\ \A m \in Mentions : m.intent.op = "release" =>
       m.intent.res \in DOMAIN resv /\ Spent(m.intent.res)
  /\ \A r \in DOMAIN resv : resv[r].state = "RELEASED" => Spent(r)
  /\ hold # NoHold => hold.res \in DOMAIN resv /\ Spent(hold.res)

Live(r) == hold # NoHold /\ ~hold.expired /\ hold.res = r

\* One hold at a time, and a live one has no release under way unknown to the page.
HoldOK ==
  /\ hold # NoHold /\ hold.expired => resv[hold.res].state = "EXPIRED"
  /\ call # NoCall => \/ hold = NoHold
                      \/ (call.intent.op = "release" /\ hold.res = call.intent.res)
  /\ \A m \in wire : m.intent.op = "release" /\ Live(m.intent.res) =>
       (call # NoCall /\ call.intent = m.intent) \/ mutationError # ""
  /\ LiveHoldIsReal

IsKept(k) == \E m \in intentKeys : m.key = k

\* A request that may still take tickets has its key kept, or a gateway answered it.
ReachOK ==
  /\ \A m \in wire : capability /\ linkAlive /\ answers[m.key] = Unanswered =>
       IsKept(m.key) \/ m.key \in replaced
  /\ HoldsAreReachable

SelectorTypes == ServerTypes /\ PageTypes /\ KeyTypes
KeyInv == KeysOK /\ AnswersOK /\ CallOK /\ SpentOK /\ HoldOK /\ ReachOK
SelectorInv == SelectorTypes /\ SelectionIsOffered /\ KeyInv

-----------------------------------------------------------------------------
(* The page opens.                                                         *)

\* Nothing is chosen, held or asked for.
LEMMA InitSelector == Init => SelectorInv
<1> SUFFICES ASSUME Init PROVE SelectorInv
  OBVIOUS
<1>1. SelectorTypes
  <2>1. elsewhere \in [Offers -> Int]
    <3>1. elsewhere \in [Offers -> 0 .. 1]
      BY Zenon DEF Init
    <3> QED
      BY <3>1
  <2>2. data.left = Nothing /\ gaQuantities = Nothing
    <3>1. data = NoData /\ gaQuantities = Nothing
      BY Zenon DEF Init
    <3> QED
      BY <3>1 DEF NoData, Nothing
  <2>3. Nothing \in [Offers -> Int] /\ Nothing \in Lines
    BY DEF Nothing, Lines
  <2>4. /\ linkAlive = TRUE /\ resv = <<>> /\ wire = {} /\ capability = TRUE /\ selected = {}
        /\ answers = [k \in 1 .. MaxKeys |-> Unanswered]
        /\ hold = NoHold /\ call = NoCall /\ intentKeys = {} /\ nextKey = 1
    BY Zenon DEF Init
  <2>5. answers \in [Keys -> Int]
    BY <2>4 DEF Keys, Unanswered
  <2>6. ServerTypes
    BY <2>1, <2>4, <2>5 DEF ServerTypes
  <2>7. PageTypes
    <3>1. NoHold \in [res : Nat, expired : BOOLEAN]
      BY DEF NoHold
    <3> QED
      BY <2>2, <2>3, <2>4, <3>1 DEF PageTypes
  <2>8. KeyTypes
    BY <2>4 DEF KeyTypes
  <2> QED
    BY <2>6, <2>7, <2>8 DEF SelectorTypes
<1>2. SelectionIsOffered
  BY DEF Init, SelectionIsOffered
<1>3. KeyInv
  <2>1. wire = {} /\ intentKeys = {} /\ resv = <<>> /\ call = NoCall /\ hold = NoHold
        /\ \A k \in Keys : answers[k] = Unanswered
    BY DEF Init, Keys
  <2>2. DOMAIN resv = {}
    BY <2>1
  <2> QED
    BY <2>1, <2>2 DEF KeyInv, KeysOK, AnswersOK, CallOK, SpentOK, HoldOK, ReachOK, Mentions,
                      LiveHoldIsReal, HoldsAreReachable
<1> QED
  BY <1>1, <1>2, <1>3 DEF SelectorInv

-----------------------------------------------------------------------------
(* What is offered.                                                        *)

\* Tickets are counted in integers.
LEMMA LeftIsInt ==
  ASSUME ServerTypes, NEW o \in Offers
  PROVE  Left(o) \in Int
<1>1. IsFiniteSet(DOMAIN resv)
  <2>1. DOMAIN resv = 1 .. Len(resv) /\ Len(resv) \in Nat
    BY DEF ServerTypes
  <2> QED
    BY <2>1, FS_Interval
<1>2. IsFiniteSet(1 .. Stock[o]) /\ Stock[o] \in Nat
  <2>1. Stock[o] \in Nat
    BY SelectorAssumption
  <2>2. \A n \in Nat : IsFiniteSet(1 .. n)
    BY FS_Interval
  <2> QED
    BY <2>1, <2>2, Zenon
<1>3. IsFiniteSet((DOMAIN resv) \X (1 .. Stock[o]))
  BY <1>1, <1>2, FS_Product, Zenon
<1>4. IsFiniteSet(KeptTickets(o))
  BY <1>3, FS_Subset DEF KeptTickets
<1>5. Cardinality(KeptTickets(o)) \in Nat
  BY <1>4, FS_CardinalityType
<1> QED
  BY <1>2, <1>5 DEF Left, ServerTypes

\* The smaller of two numbers.
LEMMA MinOfTwo ==
  ASSUME NEW a \in Int, NEW b \in Int
  PROVE  Min({a, b}) = IF a <= b THEN a ELSE b
BY DEF Min

\* The effect that follows new offers keeps only what they have.
LEMMA Followed ==
  ASSUME SelectorTypes, SelectionIsOffered, NEW now \in [Offers -> Int], FollowOffers(now)
  PROVE  /\ selected' \subseteq Offers /\ gaQuantities' \in Lines
         /\ \A o \in selected' : /\ now[o] > 0
                                 /\ o \notin Seats => gaQuantities'[o] \in 1 .. now[o]
<1> DEFINE kept == {o \in selected : now[o] > 0}
<1>1. selected' = kept
  BY DEF FollowOffers
<1>2. gaQuantities' = [o \in Offers |->
         IF o \in kept \ Seats THEN Min({gaQuantities[o], now[o]}) ELSE gaQuantities[o]]
  BY DEF FollowOffers
<1>3. \A o \in Offers : gaQuantities[o] \in Nat /\ now[o] \in Int
  BY DEF SelectorTypes, PageTypes, Lines
<1>4. ASSUME NEW o \in selected
      PROVE  o \in Offers /\ (o \notin Seats => gaQuantities[o] >= 1)
  <2>1. o \in Offers /\ data.left[o] \in Int
    BY DEF SelectorTypes, PageTypes
  <2>2. o \notin Seats => selectedLines[o] = gaQuantities[o]
    BY <2>1 DEF selectedLines
  <2>3. selectedLines[o] \in 1 .. data.left[o]
    BY DEF SelectionIsOffered
  <2> QED
    BY <1>3, <2>1, <2>2, <2>3
<1>5. ASSUME NEW o \in Offers
      PROVE  /\ gaQuantities'[o] \in Nat
             /\ o \in kept \ Seats => gaQuantities'[o] \in 1 .. now[o]
  <2>1. CASE o \in kept \ Seats
    <3>1. gaQuantities'[o] = IF gaQuantities[o] <= now[o] THEN gaQuantities[o] ELSE now[o]
      BY <1>2, <1>3, <2>1, MinOfTwo
    <3>2. now[o] > 0 /\ gaQuantities[o] >= 1
      BY <1>4, <2>1
    <3> QED
      BY <1>3, <3>1, <3>2
  <2>2. CASE o \notin kept \ Seats
    <3>1. gaQuantities'[o] = gaQuantities[o]
      BY <1>2, <2>2
    <3> QED
      BY <1>3, <2>2, <3>1
  <2> QED
    BY <2>1, <2>2
<1>6. gaQuantities' \in Lines
  <2>1. DOMAIN gaQuantities' = Offers /\ gaQuantities' = [o \in Offers |-> gaQuantities'[o]]
    BY <1>2
  <2> QED
    BY <1>5, <2>1 DEF Lines
<1> QED
  BY <1>1, <1>4, <1>5, <1>6

-----------------------------------------------------------------------------
(* Commands go out.                                                        *)

\* The request m goes out with the key kept for its intent, or with a new one.
SentOut(m) ==
  /\ call' = [op |-> m.intent.op, intent |-> m.intent, key |-> m.key, answer |-> Unanswered]
  /\ wire' = wire \cup {m}
  /\ intentKeys' = intentKeys \cup {m}
  /\ mutationError' = ""
  /\ nextKey' = IF m.key = nextKey THEN nextKey + 1 ELSE nextKey
  /\ \/ m \in intentKeys
     \/ m.key = nextKey /\ \A e \in intentKeys : e.intent # m.intent

LEMMA SendEffect ==
  ASSUME SelectorTypes, NEW intent \in Intents, Send(intent)
  PROVE  \E m \in Sent : m.intent = intent /\ SentOut(m)
<1> DEFINE m == [intent |-> intent, key |-> KeyOf(intent)]
<1>1. KeyHeld(intent) => KeyOf(intent) \in Keys /\ m \in intentKeys
  <2> SUFFICES ASSUME KeyHeld(intent) PROVE KeyOf(intent) \in Keys /\ m \in intentKeys
    OBVIOUS
  <2> DEFINE e == CHOOSE x \in intentKeys : x.intent = intent
  <2>1. e \in intentKeys /\ e.intent = intent
    BY DEF KeyHeld
  <2>2. KeyOf(intent) = e.key
    BY DEF KeyOf
  <2>3. e \in Sent
    BY <2>1 DEF SelectorTypes, KeyTypes
  <2> HIDE DEF e
  <2>4. e = [intent |-> e.intent, key |-> e.key] /\ e.key \in Keys
    BY <2>3 DEF Sent
  <2> QED
    BY <2>1, <2>2, <2>4
<1>2. ~KeyHeld(intent) => /\ KeyOf(intent) = nextKey /\ nextKey \in Keys
                          /\ \A e \in intentKeys : e.intent # intent
  <2>1. nextKey <= MaxKeys \/ KeyHeld(intent)
    BY DEF Send
  <2>2. nextKey \in Nat \ {0} /\ MaxKeys \in Nat
    BY SelectorAssumption DEF SelectorTypes, KeyTypes
  <2> QED
    BY <2>1, <2>2 DEF KeyHeld, KeyOf, Keys
<1>3. m \in Sent /\ m.intent = intent /\ m.key = KeyOf(intent)
  BY <1>1, <1>2 DEF Sent
<1>4. SentOut(m)
  <2>1. /\ call' = [op |-> intent.op, intent |-> intent, key |-> KeyOf(intent),
                    answer |-> Unanswered]
        /\ wire' = wire \cup {m} /\ intentKeys' = intentKeys \cup {m}
        /\ mutationError' = ""
        /\ nextKey' = IF KeyOf(intent) = nextKey THEN nextKey + 1 ELSE nextKey
    BY DEF Send, WithKey
  <2>2. m \in intentKeys \/ (m.key = nextKey /\ \A e \in intentKeys : e.intent # m.intent)
    BY <1>1, <1>2, <1>3
  <2> HIDE DEF m
  <2> QED
    BY <1>3, <2>1, <2>2 DEF SentOut
<1> QED
  BY <1>3, <1>4

\* A choice is made of numbers of tickets.
LEMMA ChosenLines == ASSUME SelectorTypes PROVE ReserveIntent(selectedLines) \in Intents
<1>1. selectedLines \in Lines
  BY DEF selectedLines, Lines, SelectorTypes, PageTypes
<1> QED
  BY <1>1 DEF ReserveIntent, Intents

\* What a command sends.
LEMMA CommandSends ==
  ASSUME SelectorTypes, Reserve \/ Release
  PROVE  \E m \in Sent :
           /\ SentOut(m)
           /\ \/ m.intent.op = "reserve" /\ hold = NoHold
              \/ m.intent.op = "release" /\ hold # NoHold /\ m.intent.res = hold.res
           /\ call = NoCall
<1>1. CASE Reserve
  <2>1. hold = NoHold /\ call = NoCall
    BY <1>1 DEF Reserve, HoldInSummary, HoldInSheet, Screen, busy
  <2>2. PICK m \in Sent : m.intent = ReserveIntent(selectedLines) /\ SentOut(m)
    BY <1>1, ChosenLines, SendEffect DEF Reserve
  <2> QED
    BY <2>1, <2>2 DEF ReserveIntent
<1>2. CASE Release
  <2>1. hold # NoHold /\ call = NoCall
    BY <1>2 DEF Release, HoldButtons, Screen, busy
  <2>2. ReleaseIntent(hold.res) \in Intents
    BY DEF ReleaseIntent, Intents, SelectorTypes, PageTypes
  <2>3. PICK m \in Sent : m.intent = ReleaseIntent(hold.res) /\ SentOut(m)
    BY <1>2, <2>2, SendEffect DEF Release
  <2> QED
    BY <2>1, <2>3 DEF ReleaseIntent
<1> QED
  BY <1>1, <1>2

-----------------------------------------------------------------------------
(* Steps that touch no key.                                                *)

\* All that the life of a key is about.
keyVars == <<linkAlive, resv, answers, wire, capability, hold, call, intentKeys, nextKey,
             mutationError, replaced>>

LEMMA KeysStay == ASSUME KeyInv, UNCHANGED keyVars PROVE KeyInv'
<1> USE DEF keyVars
<1>1. KeysOK' /\ AnswersOK' /\ CallOK'
  BY DEF KeyInv, KeysOK, AnswersOK, CallOK, Mentions
<1>2. SpentOK' /\ ReachOK'
  BY DEF KeyInv, SpentOK, ReachOK, Mentions, Spent, IsKept, HoldsAreReachable
<1>3. HoldOK'
  BY DEF KeyInv, HoldOK, Live, LiveHoldIsReal, busy
<1> QED
  BY <1>1, <1>2, <1>3 DEF KeyInv

\* What the page shows and what is chosen of it.
shownVars == <<data, selected, gaQuantities>>

LEMMA ChoiceStays ==
  ASSUME SelectionIsOffered, UNCHANGED shownVars PROVE SelectionIsOffered'
BY DEF shownVars, SelectionIsOffered, selectedLines

\* Nothing chosen is nothing wrong.
LEMMA NothingChosen == ASSUME selected' = {} PROVE SelectionIsOffered'
BY DEF SelectionIsOffered

\* The bootstrap query, the realtime stream and the buyer's choice.
LEMMA ShowStep ==
  ASSUME SelectorInv,
         \/ Poll \/ Notified \/ FetchArrives \/ FetchFails
         \/ \E o \in Seats : ToggleReserved(o)
         \/ \E o \in Offers : \E q \in 0 .. Stock[o] : SetGAQuantity(o, q)
  PROVE  SelectorInv'
<1>1. SelectorTypes /\ SelectionIsOffered /\ KeyInv
  BY DEF SelectorInv
<1>2. UNCHANGED keyVars /\ UNCHANGED elsewhere
  BY DEF Poll, Notified, FetchArrives, FetchFails, ToggleReserved, SetGAQuantity, keyVars,
         server, notes, bounds
<1>3. KeyInv'
  BY <1>1, <1>2, KeysStay
<1>4. ServerTypes' /\ KeyTypes'
  BY <1>1, <1>2 DEF SelectorTypes, ServerTypes, KeyTypes, keyVars
<1>5. capability' \in BOOLEAN /\ hold' \in [res : Nat, expired : BOOLEAN]
  BY <1>1, <1>2 DEF SelectorTypes, PageTypes, keyVars
<1>6. /\ data'.left \in [Offers -> Int] /\ selected' \subseteq Offers /\ gaQuantities' \in Lines
      /\ SelectionIsOffered'
  <2>1. CASE UNCHANGED shownVars
    BY <1>1, <2>1, ChoiceStays DEF SelectorTypes, PageTypes, shownVars
  <2>2. CASE /\ data' = [event |-> fetch, left |-> [o \in Offers |-> Left(o)]]
             /\ FollowOffers(data'.left)
    <3> DEFINE now == [o \in Offers |-> Left(o)]
    <3>1. now \in [Offers -> Int]
      BY <1>1, LeftIsInt DEF SelectorTypes
    <3>2. data'.left = now /\ FollowOffers(now)
      BY <2>2
    <3> HIDE DEF now
    <3>3. /\ selected' \subseteq Offers /\ gaQuantities' \in Lines
          /\ \A o \in selected' : /\ now[o] > 0
                                  /\ o \notin Seats => gaQuantities'[o] \in 1 .. now[o]
      BY <1>1, <3>1, <3>2, Followed
    <3>4. ASSUME NEW o \in selected' PROVE selectedLines'[o] \in 1 .. data'.left[o]
      <4>1. selectedLines'[o] = IF o \in Seats THEN 1 ELSE gaQuantities'[o]
        BY <3>3 DEF selectedLines
      <4>2. o \in Offers /\ now[o] \in Int
        BY <3>1, <3>3
      <4> QED
        BY <3>2, <3>3, <4>1, <4>2
    <3> QED
      BY <3>1, <3>2, <3>3, <3>4 DEF SelectionIsOffered
  <2>3. ASSUME NEW o \in Seats, ToggleReserved(o)
        PROVE  /\ data' = data /\ selected' \subseteq Offers /\ gaQuantities' = gaQuantities
               /\ SelectionIsOffered'
    <3>1. data' = data /\ gaQuantities' = gaQuantities
          /\ selected' \in {selected \ {o}, selected \cup {o}}
      BY <2>3 DEF ToggleReserved, query
    <3>2. o \in Offers /\ data.left[o] > 0
      BY <2>3 DEF ToggleReserved, SeatOffered, offers
    <3>3. selected' \subseteq Offers
      BY <1>1, <3>1, <3>2 DEF SelectorTypes, PageTypes
    <3>4. ASSUME NEW x \in selected' PROVE selectedLines'[x] \in 1 .. data.left[x]
      <4>1. selectedLines'[x] = IF x \in Seats THEN 1 ELSE gaQuantities[x]
        BY <3>1, <3>3 DEF selectedLines
      <4>2. CASE x = o
        BY <1>1, <3>2, <4>1, <4>2 DEF SelectorTypes, PageTypes
      <4>3. CASE x # o
        <5>1. x \in selected /\ x \in Offers
          BY <3>1, <3>3, <4>3
        <5>2. selectedLines[x] = IF x \in Seats THEN 1 ELSE gaQuantities[x]
          BY <5>1 DEF selectedLines
        <5> QED
          BY <1>1, <4>1, <5>1, <5>2 DEF SelectionIsOffered
      <4> QED
        BY <4>2, <4>3
    <3> QED
      BY <3>1, <3>3, <3>4 DEF SelectionIsOffered
  <2>4. ASSUME NEW o \in Offers, NEW q \in 0 .. Stock[o], SetGAQuantity(o, q)
        PROVE  /\ data' = data /\ selected' \subseteq Offers /\ gaQuantities' \in Lines
               /\ SelectionIsOffered'
    <3>1. /\ data' = data /\ gaQuantities' = [gaQuantities EXCEPT ![o] = q]
          /\ selected' = IF q > 0 THEN selected \cup {o} ELSE selected \ {o}
      BY <2>4 DEF SetGAQuantity, query
    <3>2. q <= data.left[o] /\ o \notin Seats
      BY <2>4 DEF SetGAQuantity, QuantitiesOffered
    <3>3. q \in Nat /\ gaQuantities' \in Lines
      <4>1. Stock[o] \in Nat
        BY SelectorAssumption
      <4>2. q \in Nat
        BY <4>1
      <4> QED
        BY <1>1, <3>1, <4>2 DEF SelectorTypes, PageTypes, Lines
    <3>4. selected' \subseteq Offers
      BY <1>1, <3>1 DEF SelectorTypes, PageTypes
    <3>5. ASSUME NEW x \in selected' PROVE selectedLines'[x] \in 1 .. data.left[x]
      <4>1. selectedLines'[x] = IF x \in Seats THEN 1 ELSE gaQuantities'[x]
        BY <3>4 DEF selectedLines
      <4>2. CASE x = o
        <5>1. q > 0
          BY <3>1, <4>2
        <5>2. gaQuantities'[o] = q /\ data.left[o] \in Int
          BY <1>1, <3>1 DEF SelectorTypes, PageTypes, Lines
        <5> QED
          BY <3>2, <3>3, <4>1, <4>2, <5>1, <5>2
      <4>3. CASE x # o
        <5>1. x \in selected /\ x \in Offers
          BY <3>1, <3>4, <4>3
        <5>2. selectedLines[x] = IF x \in Seats THEN 1 ELSE gaQuantities[x]
          BY <5>1 DEF selectedLines
        <5>3. gaQuantities'[x] = gaQuantities[x]
          BY <1>1, <3>1, <4>3, <5>1 DEF SelectorTypes, PageTypes, Lines
        <5> QED
          BY <1>1, <4>1, <5>1, <5>2, <5>3 DEF SelectionIsOffered
      <4> QED
        BY <4>2, <4>3
    <3> QED
      BY <3>1, <3>3, <3>4, <3>5 DEF SelectionIsOffered
  <2>5. Poll \/ Notified \/ FetchFails => UNCHANGED shownVars
    BY DEF Poll, Notified, FetchFails, Refetch, choice, shownVars
  <2>6. FetchArrives => \/ UNCHANGED shownVars
                        \/ /\ data' = [event |-> fetch, left |-> [o \in Offers |-> Left(o)]]
                           /\ FollowOffers(data'.left)
    BY DEF FetchArrives, choice, shownVars
  <2>7. data.left \in [Offers -> Int] /\ gaQuantities \in Lines
    BY <1>1 DEF SelectorTypes, PageTypes
  <2> QED
    BY <2>1, <2>2, <2>3, <2>4, <2>5, <2>6, <2>7
<1> QED
  BY <1>3, <1>4, <1>5, <1>6 DEF SelectorInv, SelectorTypes, PageTypes

-----------------------------------------------------------------------------
(* The handoff, the deadline, the Partner, other buyers and operators.     *)

\* Nothing of the page changes.
pageVars == <<capability, shownVars, hold, call, intentKeys, nextKey, mutationError, replaced>>

LEMMA PageStays ==
  ASSUME SelectorTypes, SelectionIsOffered, UNCHANGED pageVars
  PROVE  PageTypes' /\ KeyTypes' /\ SelectionIsOffered'
<1>1. UNCHANGED shownVars
  BY DEF pageVars
<1>2. SelectionIsOffered'
  BY <1>1, ChoiceStays
<1> QED
  BY <1>2 DEF SelectorTypes, PageTypes, KeyTypes, pageVars, shownVars

\* One reservation moves on, keeping its key; its end is no release.
LEMMA RowStep ==
  ASSUME SelectorInv, NEW r \in DOMAIN resv, NEW row \in Row,
         resv' = [resv EXCEPT ![r] = row],
         row.key = resv[r].key,
         \/ row.state = resv[r].state
         \/ resv[r].state = "HELD" /\ row.state \in {"EXPIRED", "CHECKOUT"},
         UNCHANGED pageVars,
         UNCHANGED <<linkAlive, elsewhere, answers, wire>>
  PROVE  SelectorInv'
<1>1. SelectorTypes /\ SelectionIsOffered /\ KeyInv
  BY DEF SelectorInv
<1>2. resv \in Seq(Row)
  BY <1>1 DEF SelectorTypes, ServerTypes
<1>3. resv' \in Seq(Row) /\ DOMAIN resv' = DOMAIN resv
  BY <1>2
<1>4. \A x \in DOMAIN resv : resv'[x] = IF x = r THEN row ELSE resv[x]
  BY <1>2
<1>5. \A x \in DOMAIN resv : /\ resv'[x].key = resv[x].key
                             /\ \/ resv'[x].state = resv[x].state
                                \/ resv[x].state = "HELD" /\ resv'[x].state \in {"EXPIRED", "CHECKOUT"}
  BY <1>4
<1>6. SelectorTypes' /\ SelectionIsOffered'
  BY <1>1, <1>3, PageStays DEF SelectorTypes, ServerTypes
<1>7. /\ UNCHANGED <<linkAlive, answers, wire>>
      /\ UNCHANGED <<capability, hold, call, intentKeys, nextKey, mutationError, replaced>>
  BY DEF pageVars
<1>8. KeysOK' /\ CallOK'
  BY <1>1, <1>3, <1>7 DEF KeyInv, KeysOK, CallOK, Mentions
<1>9. AnswersOK'
  <2>1. ASSUME NEW m \in Mentions, answers[m.key] \in DOMAIN resv
        PROVE  IF m.intent.op = "reserve" THEN resv'[answers[m.key]].key = m.key
               ELSE /\ answers[m.key] = m.intent.res
                    /\ resv'[m.intent.res].state = "RELEASED"
    BY <1>1, <1>5, <2>1 DEF KeyInv, AnswersOK
  <2>2. \A x \in DOMAIN resv : /\ answers[resv'[x].key] = x
                               /\ \A m \in Mentions :
                                    m.key = resv'[x].key => m.intent.op = "reserve"
    BY <1>1, <1>5 DEF KeyInv, AnswersOK
  <2>3. Mentions' = Mentions
    BY <1>7 DEF Mentions
  <2> QED
    BY <1>1, <1>3, <1>7, <2>1, <2>2, <2>3 DEF KeyInv, AnswersOK
<1>10. SpentOK'
  <2>1. \A x \in DOMAIN resv : Spent(x)' <=> Spent(x)
    BY <1>5, <1>7 DEF Spent
  <2>2. Mentions' = Mentions
    BY <1>7 DEF Mentions
  <2> QED
    BY <1>1, <1>3, <1>5, <1>7, <2>1, <2>2 DEF KeyInv, SpentOK
<1>11. HoldOK'
  <2>1. hold # NoHold => hold.res \in DOMAIN resv
    BY <1>1 DEF KeyInv, SpentOK
  <2>2. LiveHoldIsReal'
    BY <1>1, <1>5, <1>7, <2>1 DEF KeyInv, HoldOK, LiveHoldIsReal, busy
  <2>3. hold # NoHold /\ hold.expired => resv'[hold.res].state = "EXPIRED"
    BY <1>1, <1>5, <2>1 DEF KeyInv, HoldOK
  <2> QED
    BY <1>1, <1>7, <2>2, <2>3 DEF KeyInv, HoldOK, Live
<1>12. ReachOK'
  BY <1>1, <1>3, <1>5, <1>7 DEF KeyInv, ReachOK, IsKept, HoldsAreReachable
<1> QED
  BY <1>6, <1>8, <1>9, <1>10, <1>11, <1>12 DEF SelectorInv, KeyInv

LEMMA ReservationMoves ==
  ASSUME SelectorInv, Handoff \/ \E r \in DOMAIN resv : Expire(r) \/ PartnerBegins(r)
  PROVE  SelectorInv'
<1>1. resv \in Seq(Row) /\ KeyInv
  BY DEF SelectorInv, SelectorTypes, ServerTypes
<1>2. CASE Handoff
  <2> DEFINE row == [resv[hold.res] EXCEPT !.handed = TRUE]
  <2>1. hold.res \in DOMAIN resv
    BY <1>1, <1>2 DEF KeyInv, SpentOK, Handoff, HoldButtons, Screen
  <2>2. resv[hold.res] \in Row
    BY <1>1, <2>1
  <2>3. row \in Row /\ row.key = resv[hold.res].key /\ row.state = resv[hold.res].state
    BY <2>2 DEF Row
  <2>4. resv' = [resv EXCEPT ![hold.res] = row]
    BY <1>2, <1>1 DEF Handoff
  <2>5. UNCHANGED pageVars /\ UNCHANGED <<linkAlive, elsewhere, answers, wire>>
    BY <1>2 DEF Handoff, pageVars, shownVars, query, choice, notes, bounds
  <2> HIDE DEF row
  <2> QED
    BY <2>1, <2>3, <2>4, <2>5, RowStep
<1>3. ASSUME NEW r \in DOMAIN resv, Expire(r) \/ PartnerBegins(r) PROVE SelectorInv'
  <2>1. PICK st \in {"EXPIRED", "CHECKOUT"} : resv' = [resv EXCEPT ![r].state = st]
    BY <1>3 DEF Expire, PartnerBegins
  <2> DEFINE row == [resv[r] EXCEPT !.state = st]
  <2>2. resv[r] \in Row /\ resv[r].state = "HELD"
    BY <1>1, <1>3 DEF Expire, PartnerBegins
  <2>3. row \in Row /\ row.key = resv[r].key /\ row.state = st
    BY <2>2 DEF Row
  <2>4. resv' = [resv EXCEPT ![r] = row]
    BY <1>1, <2>1
  <2>5. UNCHANGED pageVars /\ UNCHANGED <<linkAlive, elsewhere, answers, wire>>
    BY <1>3 DEF Expire, PartnerBegins, pageVars, shownVars, query, choice, notes, bounds
  <2> HIDE DEF row
  <2> QED
    BY <2>2, <2>3, <2>4, <2>5, RowStep
<1> QED
  BY <1>2, <1>3

\* What others do leaves reservations, keys and the page alone; a dead link only
\* asks less.
LEMMA OthersStep ==
  ASSUME SelectorInv,
         (\E o \in Offers : OthersTake(o) \/ OthersReturn(o)) \/ PauseOrResume \/ LinkDies
  PROVE  SelectorInv'
<1>1. SelectorTypes /\ SelectionIsOffered /\ KeyInv
  BY DEF SelectorInv
<1>2. /\ UNCHANGED pageVars /\ UNCHANGED <<resv, answers, wire>>
      /\ linkAlive' \in BOOLEAN
      /\ linkAlive' => linkAlive
  <2>1. linkAlive' = linkAlive \/ linkAlive' = FALSE
    BY DEF OthersTake, OthersReturn, PauseOrResume, LinkDies
  <2>2. UNCHANGED pageVars /\ UNCHANGED <<resv, answers, wire>>
    BY DEF OthersTake, OthersReturn, PauseOrResume, LinkDies, Changing, pageVars, shownVars,
           query, choice, notes
  <2>3. linkAlive \in BOOLEAN
    BY <1>1 DEF SelectorTypes, ServerTypes
  <2>4. CASE linkAlive' = FALSE
    BY <2>2, <2>4
  <2>5. CASE linkAlive' = linkAlive
    <3>1. linkAlive' \in BOOLEAN
      BY <2>3, <2>5
    <3>2. linkAlive' => linkAlive
      BY <2>5
    <3> QED
      BY <2>2, <3>1, <3>2
  <2> QED
    BY <2>1, <2>4, <2>5
<1>3. elsewhere' \in [Offers -> Int]
  <2>1. elsewhere \in [Offers -> Int]
    BY <1>1 DEF SelectorTypes, ServerTypes
  <2>2. ASSUME NEW o \in Offers, OthersTake(o) \/ OthersReturn(o)
        PROVE  elsewhere' \in [Offers -> Int]
    <3>1. PICK n \in Int : elsewhere' = [elsewhere EXCEPT ![o] = n]
      BY <2>1, <2>2 DEF OthersTake, OthersReturn
    <3> QED
      BY <2>1, <3>1
  <2> QED
    BY <2>1, <2>2 DEF PauseOrResume, LinkDies
<1>4. SelectorTypes' /\ SelectionIsOffered'
  BY <1>1, <1>2, <1>3, PageStays DEF SelectorTypes, ServerTypes
<1>5. UNCHANGED <<resv, answers, wire>>
      /\ UNCHANGED <<capability, hold, call, intentKeys, nextKey, mutationError, replaced>>
  BY <1>2 DEF pageVars
<1>6. KeysOK' /\ AnswersOK' /\ CallOK'
  BY <1>1, <1>2, <1>5 DEF KeyInv, KeysOK, AnswersOK, CallOK, Mentions
<1>7. SpentOK' /\ ReachOK'
  BY <1>1, <1>2, <1>5 DEF KeyInv, SpentOK, ReachOK, Mentions, Spent, IsKept, HoldsAreReachable
<1>8. HoldOK'
  BY <1>1, <1>5 DEF KeyInv, HoldOK, Live, LiveHoldIsReal, busy
<1> QED
  BY <1>4, <1>6, <1>7, <1>8 DEF SelectorInv, KeyInv

-----------------------------------------------------------------------------
(* The buyer's commands.                                                   *)

\* A new key has no answer and made no reservation.
LEMMA NewKey ==
  ASSUME SelectorInv, NEW m \in Sent, m.key = nextKey
  PROVE  /\ answers[m.key] = Unanswered
         /\ \A r \in DOMAIN resv : resv[r].key # m.key
         /\ \A n \in Mentions : n.key # m.key
<1>1. SelectorTypes /\ KeysOK /\ AnswersOK
  BY DEF SelectorInv, KeyInv
<1>2. m.key \in Keys /\ m.key >= nextKey
  BY <1>1 DEF Sent, Keys, SelectorTypes, KeyTypes
<1>3. answers[m.key] = Unanswered
  BY <1>1, <1>2 DEF AnswersOK
<1>4. \A r \in DOMAIN resv : answers[resv[r].key] = r /\ r # Unanswered
  BY <1>1 DEF AnswersOK, SelectorTypes, ServerTypes, Unanswered
<1>5. \A n \in Mentions : n.key < nextKey /\ n.key \in Keys
  BY <1>1 DEF KeysOK, Mentions, SelectorTypes, ServerTypes, KeyTypes, Sent
<1>6. \A n \in Mentions : n.key # m.key
  BY <1>1, <1>5 DEF Keys
<1> QED
  BY <1>3, <1>4, <1>6

\* Reserve and Release.
LEMMA CommandStep ==
  ASSUME SelectorInv, Reserve \/ Release
  PROVE  SelectorInv'
<1>1. SelectorTypes /\ SelectionIsOffered /\ KeyInv
  BY DEF SelectorInv
<1>2. PICK m \in Sent :
         /\ SentOut(m)
         /\ \/ m.intent.op = "reserve" /\ hold = NoHold
            \/ m.intent.op = "release" /\ hold # NoHold /\ m.intent.res = hold.res
         /\ call = NoCall
  BY <1>1, CommandSends
<1>3. /\ UNCHANGED <<linkAlive, elsewhere, resv, answers, capability, hold, replaced>>
      /\ UNCHANGED shownVars
  BY DEF Reserve, Release, query, choice, bounds, shownVars
<1>4. /\ call' = [op |-> m.intent.op, intent |-> m.intent, key |-> m.key, answer |-> Unanswered]
      /\ wire' = wire \cup {m}
      /\ intentKeys' = intentKeys \cup {m}
      /\ mutationError' = ""
      /\ nextKey' = IF m.key = nextKey THEN nextKey + 1 ELSE nextKey
      /\ \/ m \in intentKeys
         \/ m.key = nextKey /\ \A e \in intentKeys : e.intent # m.intent
  BY <1>2 DEF SentOut
<1>5. /\ m.intent \in Intents /\ m.intent.op \in Ops /\ m.key \in Keys
      /\ m = [intent |-> m.intent, key |-> m.key]
  BY DEF Sent, Intents, Ops
<1>6. call' \in Call /\ call'.intent = m.intent /\ call'.key = m.key /\ call'.answer = Unanswered
      /\ call'.op = call'.intent.op
  <2>1. call' = [op |-> m.intent.op, intent |-> m.intent, key |-> m.key, answer |-> Unanswered]
    BY <1>4
  <2>2. Unanswered \in Int
    BY DEF Unanswered
  <2> QED
    BY <1>5, <2>1, <2>2 DEF Call
<1>7. SelectorTypes'
  <2>1. nextKey' \in Nat \ {0}
    <3>1. nextKey \in Nat \ {0} /\ nextKey' \in {nextKey, nextKey + 1}
      BY <1>1, <1>4 DEF SelectorTypes, KeyTypes
    <3> QED
      BY <3>1
  <2>2. KeyTypes'
    BY <1>1, <1>4, <1>6, <2>1 DEF SelectorTypes, KeyTypes
  <2>3. ServerTypes'
    BY <1>1, <1>3, <1>4 DEF SelectorTypes, ServerTypes
  <2>4. PageTypes'
    BY <1>1, <1>3 DEF SelectorTypes, PageTypes, shownVars
  <2> QED
    BY <2>2, <2>3, <2>4 DEF SelectorTypes
<1>8. SelectionIsOffered'
  BY <1>1, <1>3, ChoiceStays
<1>9. Mentions' = Mentions \cup {m}
  BY <1>4 DEF Mentions
<1>10. m \in Mentions \/ m.key = nextKey
  BY <1>4 DEF Mentions
<1>11. \A n \in Mentions : n.key \in Keys /\ n.key < nextKey
  BY <1>1 DEF KeyInv, KeysOK, Mentions, SelectorTypes, ServerTypes, KeyTypes, Sent
<1>12. nextKey \in Nat /\ nextKey' >= nextKey /\ m.key < nextKey' /\ nextKey' \in Nat
  <2>1. nextKey \in Nat /\ m.key \in Int
    BY <1>1, <1>5 DEF SelectorTypes, KeyTypes, Keys
  <2>2. m.key < nextKey \/ m.key = nextKey
    BY <1>10, <1>11
  <2>3. nextKey' = IF m.key = nextKey THEN nextKey + 1 ELSE nextKey
    BY <1>4
  <2> QED
    BY <2>1, <2>2, <2>3
<1>13. KeysOK'
  <2>1. \A n \in Mentions' : n.key < nextKey'
    BY <1>9, <1>11, <1>12 DEF Keys
  <2>2. \A n, l \in Mentions' : n.key = l.key => n = l
    <3>1. CASE m \in Mentions
      BY <1>1, <1>9, <3>1 DEF KeyInv, KeysOK
    <3>2. CASE m.key = nextKey
      BY <1>1, <1>9, <3>2, NewKey DEF KeyInv, KeysOK
    <3> QED
      BY <1>10, <3>1, <3>2
  <2>3. \A n, l \in intentKeys' : n.intent = l.intent => n = l
    BY <1>1, <1>4 DEF KeyInv, KeysOK
  <2>4. [intent |-> call'.intent, key |-> call'.key] \in intentKeys'
    BY <1>4, <1>5, <1>6
  <2> QED
    BY <2>1, <2>2, <2>3, <2>4 DEF KeysOK
<1>14. AnswersOK'
  <2>1. \A k \in Keys : /\ answers[k] \in {Unanswered, Refused} \cup DOMAIN resv
                        /\ k >= nextKey' => answers[k] = Unanswered
    BY <1>1, <1>12 DEF KeyInv, AnswersOK, Keys
  <2>2. \A r \in DOMAIN resv : /\ answers[resv[r].key] = r
                               /\ \A n \in Mentions' :
                                    n.key = resv[r].key => n.intent.op = "reserve"
    BY <1>1, <1>9, <1>10, NewKey DEF KeyInv, AnswersOK
  <2>3. ~(Unanswered \in DOMAIN resv)
    BY <1>1 DEF SelectorTypes, ServerTypes, Unanswered
  <2>4. ASSUME NEW n \in Mentions', answers[n.key] \in DOMAIN resv
        PROVE  n \in Mentions
    BY <1>9, <1>10, <2>3, <2>4, NewKey
  <2>5. \A n \in Mentions' : answers[n.key] \in DOMAIN resv =>
         IF n.intent.op = "reserve" THEN resv[answers[n.key]].key = n.key
         ELSE /\ answers[n.key] = n.intent.res
              /\ resv[n.intent.res].state = "RELEASED"
    BY <1>1, <2>4 DEF KeyInv, AnswersOK
  <2> QED
    BY <1>3, <2>1, <2>2, <2>5 DEF AnswersOK
<1>15. CallOK'
  BY <1>6 DEF CallOK
<1>16. \A r \in DOMAIN resv : Spent(r) => Spent(r)'
  BY <1>3, <1>4, NewKey DEF Spent
<1>17. SpentOK'
  <2>1. hold # NoHold => hold.res \in DOMAIN resv /\ Spent(hold.res)
    BY <1>1 DEF KeyInv, SpentOK
  <2>2. \A n \in Mentions' : n.intent.op = "release" =>
          n.intent.res \in DOMAIN resv /\ Spent(n.intent.res)
    BY <1>1, <1>2, <1>9, <2>1 DEF KeyInv, SpentOK
  <2>3. \A n \in Mentions' : n.intent.op = "release" =>
          n.intent.res \in DOMAIN resv /\ Spent(n.intent.res)'
    BY <1>16, <2>2
  <2>4. \A r \in DOMAIN resv : resv[r].state = "RELEASED" => Spent(r)'
    BY <1>1, <1>16 DEF KeyInv, SpentOK
  <2>5. hold # NoHold => hold.res \in DOMAIN resv /\ Spent(hold.res)'
    BY <1>3, <1>16, <2>1 DEF Spent
  <2> QED
    BY <1>3, <2>3, <2>4, <2>5 DEF SpentOK
<1>18. HoldOK'
  <2>1. call' # NoCall
    BY <1>6 DEF Call, Ops, NoCall
  <2>2. ASSUME NEW n \in wire', n.intent.op = "release", Live(n.intent.res)
        PROVE  call'.intent = n.intent
    <3>1. m.intent.op = "release" /\ m.intent.res = n.intent.res
      BY <1>2, <2>2 DEF Live
    <3>2. n \in Sent
      BY <1>4, <1>1 DEF SelectorTypes, ServerTypes
    <3>3. n.intent = m.intent
      BY <1>5, <2>2, <3>1, <3>2 DEF Sent, Intents
    <3> QED
      BY <1>6, <3>3
  <2>3. \A n \in wire' : n.intent.op = "release" /\ Live(n.intent.res)' =>
          (call' # NoCall /\ call'.intent = n.intent) \/ mutationError' # ""
    BY <1>3, <2>1, <2>2 DEF Live
  <2>4. hold # NoHold => ReleaseIntent(hold.res) = m.intent
    BY <1>2, <1>5 DEF Intents, ReleaseIntent
  <2>5. LiveHoldIsReal'
    BY <1>3, <1>6, <2>1, <2>4 DEF LiveHoldIsReal, busy, ReleaseIntent
  <2>6. hold = NoHold \/ (call'.intent.op = "release" /\ hold.res = call'.intent.res)
    BY <1>2, <1>6
  <2> QED
    BY <1>1, <1>3, <2>1, <2>3, <2>5, <2>6 DEF KeyInv, HoldOK
<1>19. ReachOK'
  <2>1. \A k : IsKept(k) => IsKept(k)'
    BY <1>4 DEF IsKept
  <2>2. IsKept(m.key)'
    BY <1>4 DEF IsKept
  <2>3. \A n \in wire' : capability /\ linkAlive /\ answers[n.key] = Unanswered =>
          IsKept(n.key)' \/ n.key \in replaced
    BY <1>1, <1>4, <2>1, <2>2 DEF KeyInv, ReachOK
  <2>4. HoldsAreReachable'
    BY <1>1, <1>3, <1>4 DEF KeyInv, ReachOK, HoldsAreReachable
  <2> QED
    BY <1>3, <2>3, <2>4 DEF ReachOK
<1> QED
  BY <1>7, <1>8, <1>13, <1>14, <1>15, <1>17, <1>18, <1>19 DEF SelectorInv, KeyInv

-----------------------------------------------------------------------------
(* Steps that forget keys, or none.                                        *)

\* The server sees nothing of these steps.
serverVars == <<linkAlive, elsewhere, resv, answers, wire, nextKey>>

\* A page that forgets keys, and waits for no other answer than before.
LEMMA KeysLeave ==
  ASSUME SelectorInv, UNCHANGED serverVars, intentKeys' \subseteq intentKeys,
         \/ call' = NoCall
         \/ /\ call # NoCall /\ intentKeys' = intentKeys
            /\ call'.intent = call.intent /\ call'.key = call.key
  PROVE  /\ ServerTypes' /\ KeysOK' /\ AnswersOK'
         /\ \A r \in DOMAIN resv : Spent(r) => Spent(r)'
         /\ hold' \in {hold, NoHold} => SpentOK'
<1>1. SelectorTypes /\ KeyInv
  BY DEF SelectorInv
<1>2. UNCHANGED <<linkAlive, elsewhere, resv, answers, wire, nextKey>>
  BY DEF serverVars
<1>3. Mentions' \subseteq Mentions
  BY <1>2 DEF Mentions
<1>4. ServerTypes'
  BY <1>1, <1>2 DEF SelectorTypes, ServerTypes
<1>5. KeysOK'
  <2>1. call' # NoCall => [intent |-> call'.intent, key |-> call'.key] \in intentKeys'
    BY <1>1 DEF KeyInv, KeysOK
  <2> QED
    BY <1>1, <1>2, <1>3, <2>1 DEF KeyInv, KeysOK
<1>6. AnswersOK'
  BY <1>1, <1>2, <1>3 DEF KeyInv, AnswersOK
<1>7. \A r \in DOMAIN resv : Spent(r) => Spent(r)'
  BY <1>2 DEF Spent
<1>8. SpentOK' \/ hold' \notin {hold, NoHold}
  <2> SUFFICES ASSUME hold' \in {hold, NoHold} PROVE SpentOK'
    OBVIOUS
  <2>1. hold' # NoHold => hold'.res \in DOMAIN resv /\ Spent(hold'.res)
    BY <1>1 DEF KeyInv, SpentOK
  <2>2. hold' # NoHold => hold'.res \in DOMAIN resv' /\ Spent(hold.res)'
    BY <1>2, <2>1 DEF Spent
  <2>3. \A m \in Mentions' : m.intent.op = "release" =>
           m.intent.res \in DOMAIN resv /\ Spent(m.intent.res)'
    BY <1>1, <1>3, <1>7 DEF KeyInv, SpentOK
  <2>4. \A r \in DOMAIN resv : resv[r].state = "RELEASED" => Spent(r)'
    BY <1>1, <1>7 DEF KeyInv, SpentOK
  <2> QED
    BY <1>2, <2>2, <2>3, <2>4 DEF SpentOK
<1> QED
  BY <1>4, <1>5, <1>6, <1>7, <1>8

\* The buyer starts again, or sees that the deadline has passed.
LEMMA ExpiredStep ==
  ASSUME SelectorInv, ChooseAgain \/ NoticeExpiry
  PROVE  SelectorInv'
<1>1. SelectorTypes /\ SelectionIsOffered /\ KeyInv
  BY DEF SelectorInv
<1>2. /\ UNCHANGED serverVars
      /\ UNCHANGED <<capability, data, call, intentKeys, replaced>>
  BY DEF ChooseAgain, Refetch, NoticeExpiry, server, query, bounds, serverVars
<1>3. UNCHANGED <<linkAlive, elsewhere, resv, answers, wire, nextKey>>
  BY <1>2 DEF serverVars
<1>4. ServerTypes' /\ KeysOK' /\ AnswersOK' /\ (hold' \in {hold, NoHold} => SpentOK')
  BY <1>2, KeysLeave
<1>5. KeyTypes' /\ CallOK'
  BY <1>1, <1>2, <1>3 DEF SelectorTypes, KeyTypes, KeyInv, CallOK
<1>6. hold # NoHold /\ resv[hold.res].state = "EXPIRED"
  BY <1>1 DEF KeyInv, HoldOK, ChooseAgain, HoldButtons, Screen, NoticeExpiry
<1>7. hold \in [res : Nat, expired : BOOLEAN] /\ NoHold \in [res : Nat, expired : BOOLEAN]
  BY <1>1 DEF SelectorTypes, PageTypes, NoHold
<1>8. \A m \in wire : capability /\ linkAlive /\ answers[m.key] = Unanswered =>
        IsKept(m.key)' \/ m.key \in replaced
  BY <1>1, <1>2 DEF KeyInv, ReachOK, IsKept
<1>9. ASSUME NEW r \in DOMAIN resv, capability, linkAlive, resv[r].state = "HELD"
      PROVE  \/ \E e \in intentKeys : e.key = resv[r].key
             \/ resv[r].key \in replaced
  BY <1>1, <1>6, <1>9 DEF KeyInv, ReachOK, HoldsAreReachable
<1>10. ReachOK'
  BY <1>2, <1>3, <1>8, <1>9 DEF ReachOK, HoldsAreReachable
<1>11. CASE ChooseAgain
  <2>1. hold' = NoHold /\ selected' = {} /\ gaQuantities' = Nothing
    BY <1>11 DEF ChooseAgain, ClearSelection
  <2>2. PageTypes'
    BY <1>1, <1>2, <1>7, <2>1 DEF SelectorTypes, PageTypes, Nothing, Lines
  <2>3. HoldOK'
    BY <2>1 DEF HoldOK, Live, LiveHoldIsReal
  <2> QED
    BY <1>4, <1>5, <1>10, <2>1, <2>2, <2>3, NothingChosen DEF SelectorInv, SelectorTypes, KeyInv
<1>12. CASE NoticeExpiry
  <2>1. hold' = [hold EXCEPT !.expired = TRUE] /\ UNCHANGED shownVars
        /\ mutationError' = mutationError
    BY <1>12 DEF NoticeExpiry, query, choice, notes, shownVars
  <2>2. /\ hold' = [res |-> hold.res, expired |-> TRUE]
        /\ hold' \in [res : Nat, expired : BOOLEAN]
    BY <1>7, <2>1
  <2>3. hold'.res = hold.res /\ hold'.expired
    BY <2>2
  <2>4. PageTypes'
    BY <1>1, <1>2, <2>1, <2>2 DEF SelectorTypes, PageTypes, shownVars
  <2>5. SpentOK'
    <3>1. hold.res \in DOMAIN resv /\ Spent(hold.res)
      BY <1>1, <1>6 DEF KeyInv, SpentOK
    <3>2. Mentions' = Mentions /\ \A r : Spent(r)' <=> Spent(r)
      BY <1>2, <1>3 DEF Mentions, Spent
    <3>3. hold'.res \in DOMAIN resv' /\ Spent(hold.res)'
      BY <1>2, <1>3, <2>3, <3>1 DEF Spent
    <3> QED
      BY <1>1, <1>3, <3>2, <3>3 DEF KeyInv, SpentOK
  <2>6. HoldOK'
    BY <1>1, <1>2, <1>3, <1>6, <2>3 DEF KeyInv, HoldOK, Live, LiveHoldIsReal
  <2> QED
    BY <1>1, <1>4, <1>5, <1>10, <2>1, <2>4, <2>5, <2>6, ChoiceStays
       DEF SelectorInv, SelectorTypes, KeyInv
<1> QED
  BY <1>11, <1>12

\* The page is gone.
LEMMA ReloadStep == ASSUME SelectorInv, Reload PROVE SelectorInv'
<1>1. SelectorTypes
  BY DEF SelectorInv
<1>2. /\ capability' = FALSE /\ data' = NoData /\ selected' = {} /\ gaQuantities' = Nothing
      /\ hold' = NoHold /\ call' = NoCall /\ intentKeys' = {}
  BY DEF Reload
<1>3. UNCHANGED serverVars
  BY DEF Reload, server, serverVars
<1>4. ServerTypes' /\ KeysOK' /\ AnswersOK' /\ SpentOK'
  BY <1>2, <1>3, KeysLeave
<1>5. KeyTypes'
  BY <1>1, <1>2, <1>3 DEF SelectorTypes, KeyTypes, serverVars
<1>6. PageTypes'
  <2>1. NoHold \in [res : Nat, expired : BOOLEAN] /\ Nothing \in Lines
        /\ NoData.left \in [Offers -> Int]
    BY DEF NoHold, Nothing, Lines, NoData
  <2> QED
    BY <1>2, <2>1 DEF PageTypes
<1>7. CallOK' /\ HoldOK' /\ ReachOK'
  BY <1>2 DEF CallOK, HoldOK, Live, LiveHoldIsReal, ReachOK, HoldsAreReachable
<1> QED
  BY <1>2, <1>4, <1>5, <1>6, <1>7, NothingChosen DEF SelectorInv, SelectorTypes, KeyInv

-----------------------------------------------------------------------------
(* Answers reach the page.                                                 *)

\* A command under way, and the request it sent.
LEMMA CallIsSent ==
  ASSUME SelectorInv, call # NoCall
  PROVE  /\ call \in Call /\ call.op = call.intent.op
         /\ [intent |-> call.intent, key |-> call.key] \in intentKeys
         /\ [intent |-> call.intent, key |-> call.key] \in Mentions
BY DEF SelectorInv, SelectorTypes, KeyTypes, KeyInv, KeysOK, Mentions

\* clearIntentKey forgets the key of the command, and no other.
LEMMA KeyForgotten ==
  ASSUME SelectorInv, call # NoCall, intentKeys' = WithoutKey(call.intent)
  PROVE  /\ intentKeys' \subseteq intentKeys
         /\ \A e \in intentKeys' : e.key # call.key
         /\ \A k : IsKept(k) /\ k # call.key => IsKept(k)'
<1> DEFINE sent == [intent |-> call.intent, key |-> call.key]
<1>1. sent \in intentKeys /\ sent \in Mentions /\ sent.key = call.key /\ sent.intent = call.intent
  BY CallIsSent
<1>2. intentKeys' = {e \in intentKeys : e.intent # call.intent}
  BY DEF WithoutKey
<1>3. KeysOK
  BY DEF SelectorInv, KeyInv
<1> HIDE DEF sent
<1>4. \A e \in intentKeys : e.key = call.key => e = sent
  BY <1>1, <1>3 DEF KeysOK, Mentions
<1>5. \A e \in intentKeys : e.intent = call.intent => e = sent
  BY <1>1, <1>3 DEF KeysOK
<1>6. \A e \in intentKeys' : e.key # call.key
  BY <1>1, <1>2, <1>4
<1> QED
  BY <1>1, <1>2, <1>5, <1>6 DEF IsKept

\* A page that gives no hold away and has forgotten the key of no live reservation.
LEMMA ReachAfter ==
  ASSUME SelectorInv, UNCHANGED serverVars, capability' = capability, replaced \subseteq replaced',
         NEW k0, \A k : IsKept(k) /\ k # k0 => IsKept(k)',
         \A m \in wire : m.key = k0 /\ capability /\ linkAlive /\ answers[k0] = Unanswered =>
           k0 \in replaced,
         \A r \in DOMAIN resv :
           capability /\ linkAlive /\ resv[r].state = "HELD" /\ (resv[r].key = k0 \/ hold.res = r)
             => hold'.res = r \/ resv[r].key \in replaced
  PROVE  ReachOK'
<1>1. UNCHANGED <<linkAlive, resv, answers, wire>>
  BY DEF serverVars
<1>2. ReachOK
  BY DEF SelectorInv, KeyInv
<1>3. \A m \in wire : capability /\ linkAlive /\ answers[m.key] = Unanswered =>
         IsKept(m.key)' \/ m.key \in replaced'
  BY <1>2 DEF ReachOK
<1>4. ASSUME NEW r \in DOMAIN resv, capability, linkAlive, resv[r].state = "HELD"
      PROVE  \/ hold'.res = r
             \/ \E e \in intentKeys' : e.key = resv[r].key
             \/ resv[r].key \in replaced'
  <2>1. CASE resv[r].key = k0 \/ hold.res = r
    BY <1>4, <2>1
  <2>2. CASE ~(resv[r].key = k0 \/ hold.res = r)
    <3>1. IsKept(resv[r].key) \/ resv[r].key \in replaced
      BY <1>2, <1>4, <2>2 DEF ReachOK, HoldsAreReachable, IsKept
    <3>2. PICK k : k = resv[r].key
      OBVIOUS
    <3>3. IsKept(k)' => \E e \in intentKeys' : e.key = k
      BY DEF IsKept
    <3> QED
      BY <2>2, <3>1, <3>2, <3>3
  <2> QED
    BY <2>1, <2>2
<1> QED
  BY <1>1, <1>3, <1>4 DEF ReachOK, HoldsAreReachable

\* The answer to Reserve brings up a hold that no release was ever sent for.
LEMMA HeldStep == ASSUME SelectorInv, ReserveHeld PROVE SelectorInv'
<1>1. SelectorTypes /\ SelectionIsOffered /\ KeyInv
  BY DEF SelectorInv
<1>2. call.op = "reserve" /\ call.answer \in DOMAIN resv /\ call # NoCall
  BY DEF ReserveHeld, NoCall
<1> DEFINE a == call.answer
           k0 == call.key
           sent == [intent |-> call.intent, key |-> call.key]
<1>3. /\ call' = NoCall /\ UNCHANGED serverVars /\ UNCHANGED <<capability, replaced>>
      /\ UNCHANGED shownVars /\ mutationError' = mutationError
      /\ intentKeys' = WithoutKey(call.intent)
      /\ hold' = [res |-> a, expired |-> FALSE]
  BY DEF ReserveHeld, Settle, Refetch, server, choice, notes, serverVars, shownVars
<1>4. UNCHANGED <<linkAlive, elsewhere, resv, answers, wire, nextKey>>
  BY <1>3 DEF serverVars
<1>5. sent \in intentKeys /\ sent \in Mentions /\ call.intent.op = "reserve"
  BY <1>2, CallIsSent
<1>6. a \in Nat \ {0} /\ a # Unanswered /\ a # Refused
  BY <1>1, <1>2 DEF SelectorTypes, ServerTypes, Unanswered, Refused
<1>7. answers[k0] = a
  BY <1>1, <1>2, <1>6 DEF KeyInv, CallOK
<1>8. resv[a].key = k0
  BY <1>1, <1>2, <1>5, <1>7 DEF KeyInv, AnswersOK
<1>9. ~Spent(a)
  BY <1>5, <1>8 DEF Spent
<1>10. hold = NoHold
  BY <1>1, <1>2, <1>5 DEF KeyInv, HoldOK
<1>11. /\ intentKeys' \subseteq intentKeys
       /\ \A e \in intentKeys' : e.key # k0
       /\ \A k : IsKept(k) /\ k # k0 => IsKept(k)'
  BY <1>2, <1>3, KeyForgotten
<1>12. hold'.res = a /\ ~hold'.expired /\ hold' # NoHold
       /\ hold' \in [res : Nat, expired : BOOLEAN]
  BY <1>3, <1>6 DEF NoHold
<1>13. /\ ServerTypes' /\ KeysOK' /\ AnswersOK'
       /\ \A r \in DOMAIN resv : Spent(r) => Spent(r)'
  BY <1>3, <1>11, KeysLeave
<1>14. KeyTypes' /\ PageTypes'
  BY <1>1, <1>3, <1>4, <1>11, <1>12 DEF SelectorTypes, KeyTypes, PageTypes, shownVars
<1>15. CallOK'
  BY <1>3 DEF CallOK
<1> HIDE DEF a, k0, sent
<1>16. SpentOK'
  <2>1. Mentions' \subseteq Mentions
    BY <1>4, <1>11 DEF Mentions
  <2>2. \A m \in Mentions' : m.intent.op = "release" =>
           m.intent.res \in DOMAIN resv /\ Spent(m.intent.res)'
    BY <1>1, <1>13, <2>1 DEF KeyInv, SpentOK
  <2>3. \A r \in DOMAIN resv : resv[r].state = "RELEASED" => Spent(r)'
    BY <1>1, <1>13 DEF KeyInv, SpentOK
  <2>4. \A m \in intentKeys' : m.key # resv'[hold'.res].key
    BY <1>4, <1>8, <1>11, <1>12
  <2>5. hold'.res \in DOMAIN resv'
    BY <1>2, <1>4, <1>12 DEF a
  <2> QED
    BY <1>4, <2>2, <2>3, <2>4, <2>5 DEF SpentOK, Spent
<1>17. HoldOK'
  <2>1. \A m \in wire : m.intent.op = "release" => m.intent.res # a
    BY <1>1, <1>9 DEF KeyInv, SpentOK, Mentions
  <2>2. resv[a].state # "RELEASED"
    BY <1>1, <1>2, <1>9 DEF KeyInv, SpentOK, a
  <2> QED
    BY <1>3, <1>4, <1>12, <2>1, <2>2 DEF HoldOK, Live, LiveHoldIsReal
<1>18. ReachOK'
  <2>1. \A r \in DOMAIN resv : resv[r].key = k0 => r = a
    BY <1>1, <1>7 DEF KeyInv, AnswersOK
  <2>2. \A r \in DOMAIN resv : hold.res # r
    BY <1>1, <1>10 DEF NoHold, SelectorTypes, ServerTypes
  <2> QED
    BY <1>3, <1>6, <1>7, <1>11, <1>12, <2>1, <2>2, ReachAfter
<1> QED
  BY <1>1, <1>3, <1>13, <1>14, <1>15, <1>16, <1>17, <1>18, ChoiceStays
     DEF SelectorInv, SelectorTypes, KeyInv

\* A refusal: the reservation was not made, or a gateway said so, or the link is dead.
LEMMA RefusedStep == ASSUME SelectorInv, ReserveRefused \/ ReleaseRefused PROVE SelectorInv'
<1>1. SelectorTypes /\ SelectionIsOffered /\ KeyInv
  BY DEF SelectorInv
<1>2. call.answer = Refused /\ call # NoCall
  BY DEF ReserveRefused, ReleaseRefused, NoCall
<1> DEFINE k0 == call.key
<1>3. /\ call' = NoCall /\ UNCHANGED serverVars /\ UNCHANGED <<capability, replaced, hold>>
      /\ UNCHANGED shownVars /\ mutationError' = "refused"
      /\ intentKeys' = WithoutKey(call.intent)
  BY DEF ReserveRefused, ReleaseRefused, Settle, Refetch, server, choice, query, serverVars, shownVars
<1>4. UNCHANGED <<linkAlive, elsewhere, resv, answers, wire, nextKey>>
  BY <1>3 DEF serverVars
<1>5. k0 \in replaced \/ answers[k0] = Refused \/ ~linkAlive
  BY <1>1, <1>2 DEF KeyInv, CallOK, Unanswered, Refused, SelectorTypes, ServerTypes
<1>6. /\ intentKeys' \subseteq intentKeys
      /\ \A k : IsKept(k) /\ k # k0 => IsKept(k)'
  BY <1>2, <1>3, KeyForgotten
<1>7. ServerTypes' /\ KeysOK' /\ AnswersOK' /\ SpentOK'
  BY <1>3, <1>6, KeysLeave
<1>8. KeyTypes' /\ PageTypes'
  BY <1>1, <1>3, <1>4, <1>6 DEF SelectorTypes, KeyTypes, PageTypes, shownVars
<1>9. CallOK'
  BY <1>3 DEF CallOK
<1> HIDE DEF k0
<1>10. HoldOK'
  BY <1>1, <1>3, <1>4 DEF KeyInv, HoldOK, Live, LiveHoldIsReal
<1>11. ReachOK'
  <2>1. \A r \in DOMAIN resv : resv[r].key = k0 => answers[k0] # Refused
    BY <1>1 DEF KeyInv, AnswersOK, Refused, SelectorTypes, ServerTypes
  <2> QED
    BY <1>3, <1>5, <1>6, <2>1, ReachAfter DEF Refused, Unanswered
<1> QED
  BY <1>1, <1>3, <1>7, <1>8, <1>9, <1>10, <1>11, ChoiceStays
     DEF SelectorInv, SelectorTypes, KeyInv

\* The answer to Release: the hold it was sent for is released.
LEMMA ReleasedStep == ASSUME SelectorInv, ReleaseDone PROVE SelectorInv'
<1>1. SelectorTypes /\ SelectionIsOffered /\ KeyInv
  BY DEF SelectorInv
<1>2. call.op = "release" /\ call.answer \in DOMAIN resv /\ call # NoCall
  BY DEF ReleaseDone, NoCall
<1> DEFINE k0 == call.key
           sent == [intent |-> call.intent, key |-> call.key]
<1>3. /\ call' = NoCall /\ UNCHANGED serverVars /\ UNCHANGED <<capability, replaced>>
      /\ hold' = NoHold /\ selected' = {} /\ gaQuantities' = Nothing /\ data' = data
      /\ intentKeys' = WithoutKey(call.intent)
  BY DEF ReleaseDone, Settle, Refetch, ClearSelection, server, serverVars
<1>4. UNCHANGED <<linkAlive, elsewhere, resv, answers, wire, nextKey>>
  BY <1>3 DEF serverVars
<1>5. sent \in Mentions /\ call.intent.op = "release"
  BY <1>2, CallIsSent
<1>6. call.answer # Unanswered /\ call.answer # Refused
  BY <1>1, <1>2 DEF SelectorTypes, ServerTypes, Unanswered, Refused
<1>7. answers[k0] = call.answer
  BY <1>1, <1>2, <1>6 DEF KeyInv, CallOK
<1>8. resv[call.intent.res].state = "RELEASED"
  BY <1>1, <1>2, <1>5, <1>7 DEF KeyInv, AnswersOK
<1>9. \A r \in DOMAIN resv : resv[r].key # k0
  BY <1>1, <1>5 DEF KeyInv, AnswersOK
<1>10. \A r \in DOMAIN resv : hold.res = r => resv[r].state # "HELD"
  <2>1. hold = NoHold \/ hold.res = call.intent.res
    BY <1>1, <1>2 DEF KeyInv, HoldOK
  <2>2. ~(NoHold.res \in DOMAIN resv)
    BY <1>1 DEF NoHold, SelectorTypes, ServerTypes
  <2> QED
    BY <1>8, <2>1, <2>2
<1>11. /\ intentKeys' \subseteq intentKeys
       /\ \A k : IsKept(k) /\ k # k0 => IsKept(k)'
  BY <1>2, <1>3, KeyForgotten
<1>12. ServerTypes' /\ KeysOK' /\ AnswersOK' /\ SpentOK'
  BY <1>3, <1>11, KeysLeave
<1>13. KeyTypes'
  BY <1>1, <1>3, <1>4, <1>11 DEF SelectorTypes, KeyTypes
<1>14. PageTypes'
  BY <1>1, <1>3 DEF SelectorTypes, PageTypes, NoHold, Nothing, Lines
<1>15. CallOK' /\ HoldOK'
  BY <1>3 DEF CallOK, HoldOK, Live, LiveHoldIsReal
<1> HIDE DEF k0, sent
<1>16. ReachOK'
  BY <1>3, <1>6, <1>7, <1>9, <1>10, <1>11, ReachAfter
<1> QED
  BY <1>3, <1>12, <1>13, <1>14, <1>15, <1>16, NothingChosen
     DEF SelectorInv, SelectorTypes, KeyInv

\* An answer is lost, or a gateway takes its place.
LEMMA FaultStep == ASSUME SelectorInv, CallThrows \/ GatewayAnswers PROVE SelectorInv'
<1>1. SelectorTypes /\ SelectionIsOffered /\ KeyInv
  BY DEF SelectorInv
<1>2. call # NoCall
  BY DEF CallThrows, GatewayAnswers, busy
<1>3. /\ UNCHANGED serverVars /\ UNCHANGED <<capability, hold, intentKeys>> /\ UNCHANGED shownVars
      /\ replaced \subseteq replaced'
  BY DEF CallThrows, GatewayAnswers, Settle, server, choice, query, serverVars, shownVars
<1>4. UNCHANGED <<linkAlive, elsewhere, resv, answers, wire, nextKey>>
  BY <1>3 DEF serverVars
<1>5. call \in Call /\ call.op = call.intent.op
  BY <1>2, CallIsSent
<1>6. \/ call' = NoCall /\ mutationError' # ""
      \/ /\ call' = [call EXCEPT !.answer = Refused] /\ mutationError' = mutationError
         /\ replaced' = replaced \cup {call.key}
  BY DEF CallThrows, GatewayAnswers, Settle, notes
<1>7. call' # NoCall =>
        /\ call' \in Call /\ call'.intent = call.intent /\ call'.key = call.key
        /\ call'.op = call'.intent.op /\ call'.answer = Refused /\ call'.key \in replaced'
  <2>1. [call EXCEPT !.answer = Refused]
          = [op |-> call.op, intent |-> call.intent, key |-> call.key, answer |-> Refused]
    BY <1>5 DEF Call
  <2>2. [op |-> call.op, intent |-> call.intent, key |-> call.key, answer |-> Refused] \in Call
    BY <1>5 DEF Call, Refused
  <2> QED
    BY <1>5, <1>6, <2>1, <2>2
<1>8. ServerTypes' /\ KeysOK' /\ AnswersOK' /\ SpentOK'
  BY <1>2, <1>3, <1>7, KeysLeave
<1>9. KeyTypes' /\ PageTypes'
  BY <1>1, <1>3, <1>4, <1>7 DEF SelectorTypes, KeyTypes, PageTypes, shownVars
<1>10. CallOK'
  BY <1>7 DEF CallOK
<1>11. HoldOK'
  <2>1. call' # NoCall => mutationError' = mutationError
    BY <1>6
  <2>2. call' = NoCall => mutationError' # ""
    <3>1. [call EXCEPT !.answer = Refused] # NoCall
      BY <1>5 DEF Call, Ops, NoCall
    <3> QED
      BY <1>6, <3>1
  <2> QED
    BY <1>1, <1>2, <1>3, <1>4, <1>7, <2>1, <2>2 DEF KeyInv, HoldOK, Live, LiveHoldIsReal, busy
<1>12. ReachOK'
  BY <1>1, <1>3, <1>4 DEF KeyInv, ReachOK, IsKept, HoldsAreReachable
<1> QED
  BY <1>1, <1>3, <1>8, <1>9, <1>10, <1>11, <1>12, ChoiceStays
     DEF SelectorInv, SelectorTypes, KeyInv

-----------------------------------------------------------------------------
(* The Selection API performs a request, or answers it again.              *)

\* What a request may do to the reservations and to the stored answers.
Performed(q) ==
  /\ resv' \in Seq(Row) /\ DOMAIN resv \subseteq DOMAIN resv'
  /\ answers' \in [Keys -> Int]
  /\ \A r \in DOMAIN resv :
       /\ resv'[r].key = resv[r].key
       /\ \/ resv'[r].state = resv[r].state
          \/ /\ resv[r].state = "HELD" /\ resv'[r].state = "RELEASED"
             /\ q.intent.op = "release" /\ q.intent.res = r
  /\ \A r \in (DOMAIN resv') \ (DOMAIN resv) :
       /\ linkAlive /\ answers[q.key] = Unanswered /\ answers'[q.key] = r
       /\ q.intent.op = "reserve"
       /\ resv'[r].key = q.key /\ resv'[r].state = "HELD"
  /\ \A k \in Keys : k # q.key => answers'[k] = answers[k]
  /\ \/ answers'[q.key] = answers[q.key]
     \/ /\ answers[q.key] = Unanswered
        /\ answers'[q.key] \in {Refused} \cup DOMAIN resv'
        /\ answers'[q.key] \in DOMAIN resv' =>
             IF q.intent.op = "reserve" THEN resv'[answers'[q.key]].key = q.key
             ELSE /\ answers'[q.key] = q.intent.res
                  /\ resv'[q.intent.res].state = "RELEASED"

LEMMA ServeReserve ==
  ASSUME SelectorInv, NEW q \in wire, PerformReserve(q), linkAlive, ~Answered(q.key)
  PROVE  Performed(q)
<1>1. SelectorTypes
  BY DEF SelectorInv
<1>2. /\ resv \in Seq(Row) /\ answers \in [Keys -> Int] /\ q \in Sent /\ q.key \in Keys
      /\ q.intent.op = "reserve" /\ answers[q.key] = Unanswered
  BY <1>1 DEF SelectorTypes, ServerTypes, Sent, PerformReserve, Answered
<1>3. CASE CanReserve(q.intent.lines)
  <2> DEFINE row == Reservation(q.intent.lines, q.key)
             n == Len(resv) + 1
  <2>1. resv' = Append(resv, row) /\ answers' = [answers EXCEPT ![q.key] = n]
    BY <1>3 DEF PerformReserve
  <2>2. row \in Row /\ row.key = q.key /\ row.state = "HELD"
    <3>1. q.intent.lines \in Lines
      BY <1>2 DEF Sent, Intents
    <3> QED
      BY <1>2, <3>1 DEF Reservation, Row
  <2> HIDE DEF row
  <2>3. /\ Len(resv) \in Nat /\ DOMAIN resv = 1 .. Len(resv)
        /\ resv' \in Seq(Row) /\ DOMAIN resv' = 1 .. n /\ n \in DOMAIN resv'
        /\ resv'[n] = row /\ \A r \in DOMAIN resv : resv'[r] = resv[r]
    BY <1>2, <2>1, <2>2
  <2>4. \A r \in (DOMAIN resv') \ (DOMAIN resv) : r = n
    BY <2>3
  <2>5. /\ answers' \in [Keys -> Int] /\ answers'[q.key] = n
        /\ \A k \in Keys : k # q.key => answers'[k] = answers[k]
    BY <1>2, <2>1, <2>3
  <2> HIDE DEF n
  <2>6. DOMAIN resv \subseteq DOMAIN resv'
    BY <2>3 DEF n
  <2> QED
    BY <1>2, <2>2, <2>3, <2>4, <2>5, <2>6 DEF Performed
<1>4. CASE ~CanReserve(q.intent.lines)
  <2>1. resv' = resv /\ answers' = [answers EXCEPT ![q.key] = Refused]
    BY <1>4 DEF PerformReserve
  <2>2. answers' \in [Keys -> Int] /\ answers'[q.key] = Refused
        /\ \A k \in Keys : k # q.key => answers'[k] = answers[k]
    BY <1>2, <2>1 DEF Refused
  <2>3. ~(Refused \in DOMAIN resv)
    BY <1>2 DEF Refused
  <2> QED
    BY <1>2, <2>1, <2>2, <2>3 DEF Performed
<1> QED
  BY <1>3, <1>4

LEMMA ServeRelease ==
  ASSUME SelectorInv, NEW q \in wire, PerformRelease(q), linkAlive, ~Answered(q.key)
  PROVE  Performed(q)
<1>1. SelectorTypes /\ SpentOK
  BY DEF SelectorInv, KeyInv
<1>2. /\ resv \in Seq(Row) /\ answers \in [Keys -> Int] /\ q \in Sent /\ q.key \in Keys
      /\ q.intent.op = "release" /\ answers[q.key] = Unanswered
  BY <1>1 DEF SelectorTypes, ServerTypes, Sent, PerformRelease, Answered
<1> DEFINE r == q.intent.res
<1>3. r \in DOMAIN resv /\ r \in Int /\ resv[r] \in Row
  BY <1>1, <1>2 DEF SpentOK, Mentions
<1>4. \/ /\ resv[r].state = "HELD"
         /\ resv' = [resv EXCEPT ![r].state = "RELEASED"]
         /\ answers' = [answers EXCEPT ![q.key] = r]
      \/ /\ resv[r].state = "RELEASED" /\ resv' = resv
         /\ answers' = [answers EXCEPT ![q.key] = r]
      \/ resv' = resv /\ answers' = [answers EXCEPT ![q.key] = Refused]
  BY DEF PerformRelease
<1>5. CASE /\ resv[r].state = "HELD"
           /\ resv' = [resv EXCEPT ![r].state = "RELEASED"]
           /\ answers' = [answers EXCEPT ![q.key] = r]
  <2> DEFINE row == [resv[r] EXCEPT !.state = "RELEASED"]
  <2>1. row \in Row /\ row.key = resv[r].key /\ row.state = "RELEASED"
    BY <1>3 DEF Row
  <2>2. resv' = [resv EXCEPT ![r] = row]
    BY <1>2, <1>5
  <2> HIDE DEF row, r
  <2>3. resv' \in Seq(Row) /\ DOMAIN resv' = DOMAIN resv
        /\ \A x \in DOMAIN resv : resv'[x] = IF x = r THEN row ELSE resv[x]
    BY <1>2, <1>3, <2>1, <2>2
  <2>4. answers' \in [Keys -> Int] /\ answers'[q.key] = r
        /\ \A k \in Keys : k # q.key => answers'[k] = answers[k]
    BY <1>2, <1>3, <1>5
  <2> QED
    BY <1>2, <1>3, <1>5, <2>1, <2>3, <2>4 DEF Performed, r
<1>6. CASE /\ resv[r].state = "RELEASED" /\ resv' = resv
           /\ answers' = [answers EXCEPT ![q.key] = r]
  <2> HIDE DEF r
  <2>1. answers' \in [Keys -> Int] /\ answers'[q.key] = r
        /\ \A k \in Keys : k # q.key => answers'[k] = answers[k]
    BY <1>2, <1>3, <1>6
  <2> QED
    BY <1>2, <1>3, <1>6, <2>1 DEF Performed, r
<1>7. CASE resv' = resv /\ answers' = [answers EXCEPT ![q.key] = Refused]
  <2>1. answers' \in [Keys -> Int] /\ answers'[q.key] = Refused
        /\ \A k \in Keys : k # q.key => answers'[k] = answers[k]
    BY <1>2, <1>7 DEF Refused
  <2>2. ~(Refused \in DOMAIN resv)
    BY <1>2 DEF Refused
  <2> QED
    BY <1>2, <1>7, <2>1, <2>2 DEF Performed
<1> QED
  BY <1>4, <1>5, <1>6, <1>7

\* What the page gets of it.
LEMMA ServeEffect ==
  ASSUME SelectorInv, NEW q \in wire, Serve(q)
  PROVE  /\ Performed(q) /\ wire' = wire \ {q}
         /\ UNCHANGED pageVars \/ /\ UNCHANGED <<capability, shownVars, hold, intentKeys, nextKey>>
                                  /\ UNCHANGED <<mutationError, replaced>>
                                  /\ call # NoCall /\ call.key = q.key
                                  /\ \E x \in Int : /\ call' = [call EXCEPT !.answer = x]
                                                    /\ \/ x = Refused /\ ~linkAlive
                                                       \/ x = answers'[call.key]
         /\ UNCHANGED <<linkAlive, elsewhere>>
<1>1. SelectorTypes
  BY DEF SelectorInv
<1>2. resv \in Seq(Row) /\ answers \in [Keys -> Int] /\ q \in Sent /\ q.key \in Keys
  BY <1>1 DEF SelectorTypes, ServerTypes, Sent
<1>3. /\ wire' = wire \ {q} /\ UNCHANGED <<linkAlive, elsewhere>>
      /\ UNCHANGED <<capability, shownVars, hold, intentKeys, nextKey, mutationError, replaced>>
  BY DEF Serve, query, choice, notes, bounds, shownVars
<1>4. resv' = resv /\ answers' = answers => Performed(q)
  BY <1>2 DEF Performed
<1>5. Performed(q)
  BY <1>4, ServeReserve, ServeRelease DEF Serve
<1>6. (AnswerWith(q, Refused) /\ ~linkAlive) \/ AnswerWith(q, answers'[q.key])
  BY DEF Serve
<1>7. answers'[q.key] \in Int /\ Refused \in Int
  BY <1>2, <1>5 DEF Performed, Refused
<1>8. \/ call' = call
      \/ /\ call # NoCall /\ call.key = q.key
         /\ \E x \in Int : /\ call' = [call EXCEPT !.answer = x]
                           /\ \/ x = Refused /\ ~linkAlive
                              \/ x = answers'[call.key]
  BY <1>6, <1>7 DEF AnswerWith, busy
<1> QED
  BY <1>3, <1>5, <1>8 DEF pageVars

LEMMA ServeStep ==
  ASSUME SelectorInv, NEW q \in wire, Serve(q)
  PROVE  SelectorInv'
<1>1. SelectorTypes /\ SelectionIsOffered /\ KeyInv
  BY DEF SelectorInv
<1>2. /\ resv \in Seq(Row) /\ answers \in [Keys -> Int] /\ q \in Sent /\ q.key \in Keys
      /\ q \in Mentions
  BY <1>1 DEF SelectorTypes, ServerTypes, Sent, Mentions
<1>3. Performed(q) /\ wire' = wire \ {q} /\ UNCHANGED <<linkAlive, elsewhere>>
      /\ UNCHANGED <<capability, shownVars, hold, intentKeys, nextKey, mutationError, replaced>>
  BY ServeEffect DEF pageVars
<1>4. \/ call' = call
      \/ /\ call # NoCall /\ call.key = q.key
         /\ \E x \in Int : /\ call' = [call EXCEPT !.answer = x]
                           /\ \/ x = Refused /\ ~linkAlive
                              \/ x = answers'[call.key]
  BY ServeEffect DEF pageVars
<1>5. /\ resv' \in Seq(Row) /\ DOMAIN resv \subseteq DOMAIN resv'
      /\ answers' \in [Keys -> Int]
      /\ \A k \in Keys : k # q.key => answers'[k] = answers[k]
  BY <1>3 DEF Performed
<1>6. \A r \in DOMAIN resv :
        /\ resv'[r].key = resv[r].key
        /\ \/ resv'[r].state = resv[r].state
           \/ /\ resv[r].state = "HELD" /\ resv'[r].state = "RELEASED"
              /\ q.intent.op = "release" /\ q.intent.res = r
  BY <1>3 DEF Performed
<1>7. \A r \in (DOMAIN resv') \ (DOMAIN resv) :
        /\ linkAlive /\ answers[q.key] = Unanswered /\ answers'[q.key] = r
        /\ q.intent.op = "reserve"
        /\ resv'[r].key = q.key /\ resv'[r].state = "HELD"
  BY <1>3 DEF Performed
<1>8. \/ answers'[q.key] = answers[q.key]
      \/ /\ answers[q.key] = Unanswered
         /\ answers'[q.key] \in {Refused} \cup DOMAIN resv'
         /\ answers'[q.key] \in DOMAIN resv' =>
              IF q.intent.op = "reserve" THEN resv'[answers'[q.key]].key = q.key
              ELSE /\ answers'[q.key] = q.intent.res
                   /\ resv'[q.intent.res].state = "RELEASED"
  BY <1>3 DEF Performed
<1>9. ~(Unanswered \in DOMAIN resv') /\ ~(Refused \in DOMAIN resv')
  BY <1>5 DEF Unanswered, Refused
<1>10. Mentions' \subseteq Mentions
  BY <1>3 DEF Mentions
<1>11. \A m, n \in Mentions : m.key = n.key => m = n
  BY <1>1 DEF KeyInv, KeysOK
<1>12. \A m \in Mentions : m.key \in Keys
  BY <1>1 DEF Mentions, SelectorTypes, ServerTypes, KeyTypes, Sent
<1>13. \A r \in DOMAIN resv : resv[r].key \in Keys /\ answers[resv[r].key] = r
  <2>1. \A r \in DOMAIN resv : resv[r] \in Row
    BY <1>2
  <2>2. \A r \in DOMAIN resv : resv[r].key \in Keys
    BY <2>1 DEF Row
  <2> QED
    BY <1>1, <2>2 DEF KeyInv, AnswersOK
\* Only a key without an answer gets one.
<1>14. \A k \in Keys : answers[k] # Unanswered => answers'[k] = answers[k]
  BY <1>5, <1>8
<1>15. \A k \in Keys : answers'[k] # answers[k] => k = q.key /\ answers[k] = Unanswered
  BY <1>5, <1>8
<1>16. /\ call' # NoCall <=> call # NoCall
       /\ call # NoCall => /\ call' \in Call /\ call'.intent = call.intent /\ call'.key = call.key
                           /\ call'.op = call'.intent.op
  <2>1. CASE call' = call
    BY <1>1, <2>1 DEF SelectorTypes, KeyTypes
  <2>2. CASE call # NoCall /\ \E x \in Int : call' = [call EXCEPT !.answer = x]
    <3>1. PICK x \in Int : call' = [call EXCEPT !.answer = x]
      BY <2>2
    <3>2. call \in Call /\ call.op = call.intent.op
      BY <2>2, CallIsSent
    <3>3. call' = [op |-> call.op, intent |-> call.intent, key |-> call.key, answer |-> x]
      BY <3>1, <3>2 DEF Call
    <3>4. call' \in Call
      BY <3>2, <3>3 DEF Call
    <3>5. call'.op \in Ops /\ NoCall.op \notin Ops
      BY <3>4 DEF Call, Ops, NoCall
    <3>6. call' # NoCall
      BY <3>5
    <3> QED
      BY <2>2, <3>2, <3>3, <3>4, <3>6
  <2> QED
    BY <1>4, <2>1, <2>2
<1>17. SelectorTypes'
  <2>1. ServerTypes'
    BY <1>1, <1>3, <1>5 DEF SelectorTypes, ServerTypes
  <2>2. PageTypes'
    BY <1>1, <1>3 DEF SelectorTypes, PageTypes, shownVars
  <2>3. KeyTypes'
    BY <1>1, <1>3, <1>16 DEF SelectorTypes, KeyTypes
  <2> QED
    BY <2>1, <2>2, <2>3 DEF SelectorTypes
<1>18. SelectionIsOffered'
  BY <1>1, <1>3, ChoiceStays
<1>19. KeysOK'
  BY <1>1, <1>3, <1>10, <1>16 DEF KeyInv, KeysOK
<1>20. AnswersOK'
  <2>1. \A k \in Keys : answers[k] \in {Unanswered, Refused} \cup DOMAIN resv
    BY <1>1 DEF KeyInv, AnswersOK
  <2>2. \A k \in Keys : answers'[k] \in {Unanswered, Refused} \cup DOMAIN resv'
    BY <1>5, <1>8, <2>1
  <2>3. ASSUME NEW k \in Keys, k >= nextKey PROVE answers'[k] = Unanswered
    <3>1. q.key < nextKey
      BY <1>1, <1>2 DEF KeyInv, KeysOK
    <3>2. k # q.key
      BY <1>1, <1>2, <2>3, <3>1 DEF Keys, SelectorTypes, KeyTypes
    <3> QED
      BY <1>1, <1>5, <2>3, <3>2 DEF KeyInv, AnswersOK
  <2>4. ASSUME NEW r \in DOMAIN resv'
        PROVE  /\ answers'[resv'[r].key] = r
               /\ \A m \in Mentions' : m.key = resv'[r].key => m.intent.op = "reserve"
    <3>1. CASE r \in DOMAIN resv
      <4>1. resv'[r].key = resv[r].key /\ r # Unanswered
        BY <1>6, <1>9, <2>4, <3>1
      <4>2. answers'[resv[r].key] = r
        BY <1>13, <1>14, <3>1, <4>1
      <4> QED
        BY <1>1, <1>10, <3>1, <4>1, <4>2 DEF KeyInv, AnswersOK
    <3>2. CASE r \notin DOMAIN resv
      BY <1>2, <1>7, <1>10, <1>11, <2>4, <3>2
    <3> QED
      BY <3>1, <3>2
  <2>5. ASSUME NEW m \in Mentions', answers'[m.key] \in DOMAIN resv'
        PROVE  IF m.intent.op = "reserve" THEN resv'[answers'[m.key]].key = m.key
               ELSE /\ answers'[m.key] = m.intent.res
                    /\ resv'[m.intent.res].state = "RELEASED"
    <3>1. m \in Mentions /\ m.key \in Keys
      BY <1>10, <1>12
    <3>2. CASE answers'[m.key] # answers[m.key]
      <4>1. m.key = q.key
        BY <1>15, <3>1, <3>2
      <4>2. m = q
        BY <1>2, <1>11, <3>1, <4>1
      <4> QED
        BY <1>8, <2>5, <3>2, <4>2
    <3>3. CASE answers'[m.key] = answers[m.key]
      <4>1. answers[m.key] \in DOMAIN resv
        BY <1>9, <2>1, <2>5, <3>1, <3>3
      <4>2. IF m.intent.op = "reserve" THEN resv[answers[m.key]].key = m.key
            ELSE /\ answers[m.key] = m.intent.res
                 /\ resv[m.intent.res].state = "RELEASED"
        BY <1>1, <3>1, <4>1 DEF KeyInv, AnswersOK
      <4> QED
        BY <1>6, <3>3, <4>1, <4>2
    <3> QED
      BY <3>2, <3>3
  <2> QED
    BY <1>3, <2>2, <2>3, <2>4, <2>5 DEF AnswersOK
<1>21. CallOK'
  <2> SUFFICES ASSUME call' # NoCall PROVE CallOK'
    BY DEF CallOK
  <2>1. call # NoCall /\ call'.key = call.key /\ call.key \in Keys
    BY <1>16, CallIsSent DEF Call
  <2>2. CASE call' = call
    <3>1. \/ call.answer = Unanswered
          \/ /\ call.answer = Refused
             /\ call.key \in replaced \/ answers[call.key] = Refused \/ ~linkAlive
          \/ (call.answer \in DOMAIN resv /\ call.answer = answers[call.key])
      BY <1>1, <2>1 DEF KeyInv, CallOK
    <3>2. answers[call.key] # Unanswered => answers'[call.key] = answers[call.key]
      BY <1>14, <2>1
    <3>3. Refused # Unanswered
      BY DEF Refused, Unanswered
    <3> QED
      BY <1>3, <1>5, <1>9, <2>2, <3>1, <3>2, <3>3 DEF CallOK
  <2>3. ASSUME NEW x \in Int, call' = [call EXCEPT !.answer = x],
               \/ x = Refused /\ ~linkAlive
               \/ x = answers'[call.key]
        PROVE  CallOK'
    <3>1. call'.answer = x
      BY <2>1, <2>3, CallIsSent DEF Call
    <3>2. answers'[call.key] \in {Unanswered, Refused} \cup DOMAIN resv'
      BY <1>20, <2>1 DEF AnswersOK
    <3> QED
      BY <1>3, <2>1, <2>3, <3>1, <3>2 DEF CallOK
  <2> QED
    BY <1>4, <2>2, <2>3
<1>22. \A r \in DOMAIN resv : Spent(r) <=> Spent(r)'
  BY <1>3, <1>6 DEF Spent
<1>23. SpentOK'
  <2>1. \A m \in Mentions : m.intent.op = "release" =>
           m.intent.res \in DOMAIN resv /\ Spent(m.intent.res)
    BY <1>1 DEF KeyInv, SpentOK
  <2>2. \A m \in Mentions' : m.intent.op = "release" =>
           m.intent.res \in DOMAIN resv' /\ Spent(m.intent.res)'
    BY <1>5, <1>10, <1>22, <2>1
  <2>3. ASSUME NEW r \in DOMAIN resv', resv'[r].state = "RELEASED" PROVE Spent(r)'
    <3>1. r \in DOMAIN resv
      BY <1>7, <2>3
    <3>2. CASE resv[r].state = "RELEASED"
      BY <1>1, <1>22, <3>1, <3>2 DEF KeyInv, SpentOK
    <3>3. CASE q.intent.op = "release" /\ q.intent.res = r
      BY <1>2, <1>22, <2>1, <3>1, <3>3
    <3> QED
      BY <1>6, <2>3, <3>1, <3>2, <3>3
  <2>4. hold # NoHold => hold.res \in DOMAIN resv /\ Spent(hold.res)
    BY <1>1 DEF KeyInv, SpentOK
  <2>5. hold' # NoHold => hold'.res \in DOMAIN resv' /\ Spent(hold.res)'
    BY <1>3, <1>5, <1>6, <2>4 DEF Spent
  <2> QED
    BY <1>3, <2>2, <2>3, <2>5 DEF SpentOK
<1>24. HoldOK'
  <2>1. hold # NoHold => hold.res \in DOMAIN resv
    BY <1>1 DEF KeyInv, SpentOK
  <2>2. hold # NoHold /\ hold.expired => resv'[hold.res].state = "EXPIRED"
    BY <1>1, <1>6, <2>1 DEF KeyInv, HoldOK
  <2>3. ASSUME NEW m \in wire, m.intent.op = "release", Live(m.intent.res)
        PROVE  (call' # NoCall /\ call'.intent = m.intent) \/ mutationError # ""
    BY <1>1, <1>16, <2>3 DEF KeyInv, HoldOK
  <2>4. ASSUME hold # NoHold, ~hold.expired, resv'[hold.res].state = "RELEASED"
        PROVE  (call' # NoCall /\ call'.intent = ReleaseIntent(hold.res)) \/ mutationError # ""
    <3>1. CASE resv[hold.res].state = "RELEASED"
      BY <1>1, <1>16, <2>4, <3>1 DEF KeyInv, HoldOK, LiveHoldIsReal, busy
    <3>2. CASE q.intent.op = "release" /\ q.intent.res = hold.res
      <4>1. Live(q.intent.res)
        BY <2>4, <3>2 DEF Live
      <4>2. q.intent = ReleaseIntent(hold.res)
        BY <1>2, <3>2 DEF Sent, Intents, ReleaseIntent
      <4> QED
        BY <2>3, <3>2, <4>1, <4>2
    <3> QED
      BY <1>6, <2>1, <2>4, <3>1, <3>2
  <2>5. call' # NoCall => \/ hold = NoHold
                          \/ (call'.intent.op = "release" /\ hold.res = call'.intent.res)
    BY <1>1, <1>16 DEF KeyInv, HoldOK
  <2>6. LiveHoldIsReal'
    <3>1. ReleaseIntent(hold.res)' = ReleaseIntent(hold.res)
      BY <1>3 DEF ReleaseIntent
    <3> QED
      BY <1>3, <2>4, <3>1 DEF LiveHoldIsReal, busy
  <2>7. \A m \in wire' : m.intent.op = "release" /\ Live(m.intent.res)' =>
          (call' # NoCall /\ call'.intent = m.intent) \/ mutationError' # ""
    BY <1>3, <2>3 DEF Live
  <2> QED
    BY <1>3, <2>2, <2>5, <2>6, <2>7 DEF HoldOK
<1>25. ReachOK'
  <2>1. ASSUME NEW m \in wire', capability, linkAlive, answers'[m.key] = Unanswered
        PROVE  IsKept(m.key) \/ m.key \in replaced
    <3>1. m \in wire /\ m \in Mentions /\ m.key \in Keys
      BY <1>3, <1>12 DEF Mentions
    <3>2. answers[m.key] = Unanswered
      BY <1>14, <2>1, <3>1
    <3> QED
      BY <1>1, <2>1, <3>1, <3>2 DEF KeyInv, ReachOK
  <2>2. ASSUME NEW r \in DOMAIN resv', capability, linkAlive, resv'[r].state = "HELD"
        PROVE  hold.res = r \/ IsKept(resv'[r].key) \/ resv'[r].key \in replaced
    <3>1. CASE r \in DOMAIN resv
      <4>1. resv[r].state = "HELD" /\ resv'[r].key = resv[r].key
        BY <1>6, <2>2, <3>1
      <4> QED
        BY <1>1, <2>2, <3>1, <4>1 DEF KeyInv, ReachOK, HoldsAreReachable, IsKept
    <3>2. CASE r \notin DOMAIN resv
      <4>1. answers[q.key] = Unanswered /\ resv'[r].key = q.key
        BY <1>7, <2>2, <3>2
      <4> QED
        BY <1>1, <2>2, <4>1 DEF KeyInv, ReachOK
    <3> QED
      BY <3>1, <3>2
  <2>3. HoldsAreReachable'
    BY <1>3, <2>2 DEF HoldsAreReachable, IsKept
  <2>4. \A m \in wire' : capability' /\ linkAlive' /\ answers'[m.key] = Unanswered =>
          IsKept(m.key)' \/ m.key \in replaced'
    BY <1>3, <2>1 DEF IsKept
  <2> QED
    BY <2>3, <2>4 DEF ReachOK
<1> QED
  BY <1>17, <1>18, <1>19, <1>20, <1>21, <1>23, <1>24, <1>25 DEF SelectorInv, KeyInv

-----------------------------------------------------------------------------
(* The invariant, and what the page promises.                              *)

\* One step of anybody.
LEMMA StepSelector == SelectorInv /\ [Next]_vars => SelectorInv'
<1> SUFFICES ASSUME SelectorInv, [Next]_vars PROVE SelectorInv'
  OBVIOUS
<1>1. CASE Buyer
  BY <1>1, ShowStep, CommandStep, ExpiredStep, ReservationMoves, ReloadStep DEF Buyer
<1>2. CASE Server
  BY <1>2, ServeStep, ReservationMoves, OthersStep DEF Server
<1>3. CASE Network
  BY <1>3, ShowStep, FaultStep, HeldStep, RefusedStep, ReleasedStep DEF Network, Arrivals
<1>4. CASE NoticeExpiry
  BY <1>4, ExpiredStep
<1>5. CASE UNCHANGED vars
  <2>1. UNCHANGED keyVars /\ UNCHANGED shownVars /\ UNCHANGED elsewhere
    BY <1>5 DEF vars, server, query, choice, notes, bounds, keyVars, shownVars
  <2>2. KeyInv' /\ SelectionIsOffered'
    BY <2>1, KeysStay, ChoiceStays DEF SelectorInv
  <2>3. SelectorTypes'
    BY <2>1 DEF SelectorInv, SelectorTypes, ServerTypes, PageTypes, KeyTypes, keyVars, shownVars
  <2> QED
    BY <2>2, <2>3 DEF SelectorInv
<1> QED
  BY <1>1, <1>2, <1>3, <1>4, <1>5 DEF Next

\* Everything below follows from it.
THEOREM SelectorInvariant == Spec => []SelectorInv
BY InitSelector, StepSelector, PTL DEF Spec

\* Nothing that vanished can be asked for, whatever answers, other buyers and clicks do.
THEOREM ChoicesAreOffered == Spec => []SelectionIsOffered
<1>1. SelectorInv => SelectionIsOffered
  BY DEF SelectorInv
<1> QED
  BY <1>1, SelectorInvariant, PTL

\* The page never shows as live a hold that a late release has ended, unwarned.
THEOREM LiveHoldsAreReal == Spec => []LiveHoldIsReal
<1>1. SelectorInv => LiveHoldIsReal
  BY DEF SelectorInv, KeyInv, HoldOK
<1> QED
  BY <1>1, SelectorInvariant, PTL

\* A reservation that keeps tickets from others is on the page, or its key brings it
\* back; only a reload, a dead link or a gateway's answer loses it.
THEOREM EveryHoldIsReachable == Spec => []HoldsAreReachable
<1>1. SelectorInv => HoldsAreReachable
  BY DEF SelectorInv, KeyInv, ReachOK
<1> QED
  BY <1>1, SelectorInvariant, PTL
=============================================================================
