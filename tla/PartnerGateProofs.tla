--------------------------- MODULE PartnerGateProofs ---------------------------
(***************************************************************************)
(* Proofs about the two applications beside the administration.            *)
(*                                                                         *)
(* The gate, for any operators, events, tickets, codes and bounds: a       *)
(* ticket has one active admission at most, an admission brings up one     *)
(* green screen at most, a decision shown is one that is stored, and       *)
(* nobody is turned away for an admission whose answer was lost.  The      *)
(* heart of it is the life of an idempotency key: it belongs to one scan,  *)
(* stays with it until the page shows an answer, and is forgotten with     *)
(* that answer.                                                            *)
(*                                                                         *)
(* The demonstration storefront, for any number of tabs, selections and    *)
(* pairs of keys: while the cookie of an order is its own, it leads to the *)
(* attempt that protects the order, and to the tickets of a sold one.  The *)
(* invariant follows the pair of keys.  A pair begins one attempt, and an  *)
(* order holds an attempt only while the pair of its cookie is the one     *)
(* that began it: a pair is left behind only by an answer of fail, which   *)
(* the API gave because the order was waiting for another payment, and the *)
(* pair that takes its place is nobody's until then.                       *)
(***************************************************************************)
EXTENDS GateScanner, Storefront, TLAPS

-----------------------------------------------------------------------------
(* The gate.                                                               *)


Writer == [user : Operators \cup {"ELSEWHERE"}, key : Nat, code : Codes \cup {"NONE"}]
AdmissionRow == [ticket : Tickets, status : {"ACTIVE", "REVERSED"}, by : Writer]
Scan == [user : Operators, event : Events, code : Codes, key : Nat \ {0}]
ScanResults == {"TICKET_INVALID", "WRONG_EVENT", "EVENT_CANCELLED", "TICKET_VOID",
            "CREDENTIAL_REVOKED", "CREDENTIAL_SUPERSEDED", "ADMISSION_NOT_OPEN",
            "TICKET_ALREADY_ADMITTED", "ADMITTED"}
Decided == [result : ScanResults, adm : Nat]
AnswerRow == [user : Operators, key : Nat, answer : Decided]
KeptKey == [intent : [event : Events, code : Codes], key : Nat \ {0}]

AdmissionTypes ==
  /\ admissions \in Seq(AdmissionRow)
  /\ Len(admissions) <= MaxAdmissions

PageTypes ==
  /\ user \in Operators \cup {Nobody}
  /\ event \in Events \cup {NoEvent}
  /\ frame \in [user : Operators \cup {Nobody}, event : Events \cup {NoEvent}]
  /\ call \in Scan \cup {NoCall}
  /\ intentKeys \subseteq KeptKey
  /\ nextKey \in Nat \ {0}
  /\ greeted \in [1 .. MaxAdmissions -> Nat]

WireTypes ==
  /\ \A w \in wire : w.scan \in Scan /\ w.scan.key < nextKey
  /\ \A s \in answers : s \in AnswerRow /\ s.key < nextKey

\* A key belongs to one intent, an intent has one key.
KeysDiffer ==
  /\ \A i \in intentKeys : i.key < nextKey
  /\ \A i, j \in intentKeys : i.key = j.key \/ i.intent = j.intent => i = j

\* The page keeps the key of the scan it waits for.
CallIsKept ==
  call # NoCall => [intent |-> Intent(call.event, call.code), key |-> call.key] \in intentKeys

\* A scan under way has taken the error of an earlier one off the screen.
CallIsOpen == call # NoCall => cannotVerify = FALSE

\* An admission was written by one scan at most.
AnswersDiffer ==
  /\ \A s \in answers : s.answer.result = "ADMITTED" => s.answer.adm \in 1 .. Len(admissions)
  /\ \A s, t \in answers :
       /\ s.answer.result = "ADMITTED" /\ t.answer.result = "ADMITTED"
       /\ s.answer.adm = t.answer.adm
       => s = t

\* No screen was green for an admission still to come.
GreetedIsAdmitted == \A a \in 1 .. MaxAdmissions : a > Len(admissions) => greeted[a] = 0

\* The key of an admission that was shown is forgotten.
GreetedIsForgotten ==
  \A s \in answers :
    s.answer.result = "ADMITTED" /\ greeted[s.answer.adm] > 0
      => \A i \in intentKeys : i.key # s.key

GateInv ==
  /\ AdmissionTypes /\ PageTypes /\ WireTypes
  /\ OneActiveAdmission
  /\ KeysDiffer /\ CallIsKept /\ CallIsOpen /\ AnswersDiffer
  /\ GreetedIsAdmitted /\ GreetedIsForgotten /\ AdmitShownOnce /\ ShownIsStored

-----------------------------------------------------------------------------
\* Nobody has signed in and nobody has been admitted.
LEMMA InitGate == ScannerInit => GateInv
  BY AdmissionAssumption
  DEF ScannerInit, GateInit, GateInv, AdmissionTypes, PageTypes, WireTypes, OneActiveAdmission,
      KeysDiffer, CallIsKept, CallIsOpen, AnswersDiffer, GreetedIsAdmitted, GreetedIsForgotten,
      AdmitShownOnce, ShownIsStored, NoFrame, NoDecision

-----------------------------------------------------------------------------
\* What the gate's own invariant says of the rows of admissions.
LEMMA ActiveRows ==
  ASSUME AdmissionTypes
  PROVE  /\ Len(admissions) \in Nat /\ DOMAIN admissions = 1 .. Len(admissions)
         /\ \A a \in DOMAIN admissions : admissions[a] \in AdmissionRow
         /\ \A t : Active(t) \subseteq 1 .. Len(admissions)
  BY DEF AdmissionTypes, Active

\* A ticket without an active admission gets one.
LEMMA AppendOne ==
  ASSUME AdmissionTypes, OneActiveAdmission, NEW t \in Tickets, NEW by \in Writer,
         Active(t) = {}, Len(admissions) < MaxAdmissions,
         admissions' = Append(admissions, Admission(t, by))
  PROVE  AdmissionTypes' /\ OneActiveAdmission' /\ Len(admissions') = Len(admissions) + 1
<1>1. Admission(t, by) \in AdmissionRow
  BY DEF Admission, AdmissionRow
<1>2. /\ admissions' \in Seq(AdmissionRow) /\ Len(admissions') = Len(admissions) + 1
      /\ DOMAIN admissions' = 1 .. Len(admissions) + 1
      /\ \A a \in DOMAIN admissions : admissions'[a] = admissions[a]
      /\ admissions'[Len(admissions) + 1].ticket = t
  BY <1>1 DEF AdmissionTypes, Admission
<1>3. \A a \in DOMAIN admissions :
        ~(admissions[a].ticket = t /\ admissions[a].status = "ACTIVE")
  BY DEF Active
<1>4. OneActiveAdmission'
  BY <1>2, <1>3, ActiveRows DEF OneActiveAdmission
<1> QED
  BY <1>2, <1>4, AdmissionAssumption DEF AdmissionTypes

\* A reversed admission is active no longer.
LEMMA ReverseOne ==
  ASSUME AdmissionTypes, OneActiveAdmission, NEW a \in DOMAIN admissions,
         admissions' = [admissions EXCEPT ![a].status = "REVERSED"]
  PROVE  AdmissionTypes' /\ OneActiveAdmission' /\ Len(admissions') = Len(admissions)
<1>1. [admissions[a] EXCEPT !.status = "REVERSED"] \in AdmissionRow
  BY ActiveRows DEF AdmissionRow
<1>2. /\ admissions' \in Seq(AdmissionRow) /\ Len(admissions') = Len(admissions)
      /\ DOMAIN admissions' = DOMAIN admissions
  BY <1>1 DEF AdmissionTypes
<1>3. \A b \in DOMAIN admissions :
        /\ admissions'[b].ticket = admissions[b].ticket
        /\ admissions'[b].status = "ACTIVE" => admissions[b].status = "ACTIVE"
  BY ActiveRows DEF AdmissionRow
<1>4. OneActiveAdmission'
  BY <1>2, <1>3 DEF OneActiveAdmission
<1> QED
  BY <1>2, <1>4 DEF AdmissionTypes

\* A decision to admit is one about a ticket that is not inside.
LEMMA AdmittedIsNew ==
  ASSUME NEW e, NEW seen, NEW c, Decision(e, seen, c) = "ADMITTED"
  PROVE  c \in Codes /\ TicketOf[c] \in Tickets /\ Active(TicketOf[c]) = {}
  BY AdmissionAssumption DEF Decision

\* Other gates, supervisors and administrators write admissions of their own, and
\* the page knows nothing of it.
LEMMA OthersStep ==
  ASSUME GateInv, Others
  PROVE  GateInv'
<1>1. AdmissionTypes' /\ OneActiveAdmission' /\ Len(admissions') >= Len(admissions)
  <2>0. AdmissionTypes /\ OneActiveAdmission /\ Elsewhere \in Writer
    BY DEF GateInv, Elsewhere, Writer
  <2>1. CASE \E c \in Codes : OtherScan(c)
    <3>1. PICK c \in Codes : OtherScan(c)
      BY <2>1
    <3>2. /\ TicketOf[c] \in Tickets /\ Active(TicketOf[c]) = {}
          /\ Len(admissions) < MaxAdmissions
          /\ admissions' = Append(admissions, Admission(TicketOf[c], Elsewhere))
      BY <3>1, AdmittedIsNew DEF OtherScan, ValidateAndAdmit
    <3> QED
      BY <2>0, <3>2, AppendOne, ActiveRows
  <2>2. CASE \E t \in Tickets : ManualOverride(t)
    BY <2>0, <2>2, AppendOne, ActiveRows DEF ManualOverride
  <2>3. CASE \E a \in DOMAIN admissions : Reverse(a)
    <3>1. PICK a \in DOMAIN admissions : Reverse(a)
      BY <2>3
    <3>2. admissions' = [admissions EXCEPT ![a].status = "REVERSED"]
      BY <3>1 DEF Reverse
    <3>3. AdmissionTypes' /\ OneActiveAdmission' /\ Len(admissions') = Len(admissions)
      BY <2>0, <3>2, ReverseOne
    <3> QED
      BY <2>0, <3>3, ActiveRows
  <2>4. CASE UNCHANGED admissions
    BY <2>0, <2>4, ActiveRows DEF AdmissionTypes, OneActiveAdmission
  <2> QED
    BY <2>1, <2>2, <2>3, <2>4 DEF Others, GateOthers, VoidTicket, ReissueCredential, EntranceCloses
<1>2. UNCHANGED <<user, event, frame, call, intentKeys, nextKey, greeted, wire, answers,
                  shown, cannotVerify>>
  BY DEF Others, session, optics, outcome, keys
<1>3. (PageTypes /\ WireTypes /\ KeysDiffer /\ CallIsKept /\ CallIsOpen /\ GreetedIsForgotten
        /\ AdmitShownOnce /\ ShownIsStored)'
  BY <1>2 DEF GateInv, PageTypes, WireTypes, KeysDiffer, CallIsKept, CallIsOpen,
      GreetedIsForgotten, AdmitShownOnce, ShownIsStored
<1>4. Len(admissions) \in Nat /\ Len(admissions') \in Nat
  BY <1>1 DEF GateInv, AdmissionTypes
<1>5. AnswersDiffer' /\ GreetedIsAdmitted'
  BY <1>1, <1>2, <1>4 DEF GateInv, AnswersDiffer, GreetedIsAdmitted
<1> QED
  BY <1>1, <1>3, <1>5 DEF GateInv

\* What happens to session, camera and picture alone, and calls that are given up.
LEMMA PageStep ==
  ASSUME GateInv, UNCHANGED <<admissions, greeted, nextKey, answers>>, wire' \subseteq wire,
         user' \in Operators \cup {Nobody}, event' \in Events \cup {NoEvent},
         frame' \in [user : Operators \cup {Nobody}, event : Events \cup {NoEvent}],
         intentKeys' \subseteq intentKeys,
         call' = NoCall \/ (call' = call /\ intentKeys' = intentKeys),
         shown' = NoDecision \/ UNCHANGED shown,
         call' = NoCall \/ cannotVerify' = FALSE \/ UNCHANGED cannotVerify,
         shown' = NoDecision \/ UNCHANGED cannotVerify
  PROVE  GateInv'
<1>1. AdmissionTypes' /\ OneActiveAdmission' /\ AnswersDiffer' /\ GreetedIsAdmitted' /\ AdmitShownOnce'
  BY DEF GateInv, AdmissionTypes, OneActiveAdmission, AnswersDiffer, GreetedIsAdmitted,
      AdmitShownOnce
<1>2. PageTypes' /\ WireTypes'
  BY DEF GateInv, PageTypes, WireTypes
<1>3. KeysDiffer' /\ CallIsKept' /\ CallIsOpen' /\ GreetedIsForgotten'
  BY DEF GateInv, KeysDiffer, CallIsKept, CallIsOpen, GreetedIsForgotten, Intent
<1>4. ShownIsStored'
  BY DEF GateInv, ShownIsStored
<1> QED
  BY <1>1, <1>2, <1>3, <1>4 DEF GateInv

-----------------------------------------------------------------------------
\* The key of a scan that is sent: the intent's, or a new one.
LEMMA KeyOfIntent ==
  ASSUME PageTypes, KeysDiffer, NEW e \in Events, NEW c \in Codes
  PROVE  LET kept == [intent |-> Intent(e, c), key |-> KeyOf(e, c)] IN
         /\ KeyOf(e, c) \in Nat
         /\ Kept(e, c) # {} => kept \in intentKeys
         /\ Kept(e, c) = {} => KeyOf(e, c) = nextKey
         /\ Kept(e, c) = {} => \A i \in intentKeys : i.intent # Intent(e, c)
<1>1. CASE Kept(e, c) = {}
  BY <1>1 DEF KeyOf, Kept, PageTypes
<1>2. CASE Kept(e, c) # {}
  <2>1. PICK i \in Kept(e, c) : KeyOf(e, c) = i.key
    BY <1>2 DEF KeyOf
  <2>2. i \in intentKeys /\ i \in KeptKey /\ i.intent = Intent(e, c)
    BY <2>1 DEF Kept, PageTypes
  <2>3. i = [intent |-> Intent(e, c), key |-> KeyOf(e, c)]
    BY <2>1, <2>2 DEF KeptKey
  <2> QED
    BY <1>2, <2>1, <2>2, <2>3 DEF KeptKey
<1> QED
  BY <1>1, <1>2

\* A scan goes out under the key kept for its intent, or under a new one.
LEMMA SubmitStep ==
  ASSUME GateInv, NEW u \in Operators \cup {Nobody}, NEW e \in Events \cup {NoEvent},
         NEW c \in Codes, Submit(u, e, c),
         frame' \in [user : Operators \cup {Nobody}, event : Events \cup {NoEvent}]
  PROVE  GateInv'
<1> DEFINE q == [user |-> u, event |-> e, code |-> c, key |-> KeyOf(e, c)]
           kept == [intent |-> Intent(e, c), key |-> KeyOf(e, c)]
<1>0. u \in Operators /\ e \in Events /\ ~busy
  BY DEF Submit
<1>1. /\ UNCHANGED <<admissions, user, event, greeted, answers, shown>>
      /\ call' = q /\ cannotVerify' = FALSE
      /\ wire' = wire \cup {[scan |-> q, seen |-> entry[e]]}
      /\ intentKeys' = intentKeys \cup {kept}
      /\ nextKey' = IF KeyOf(e, c) = nextKey THEN nextKey + 1 ELSE nextKey
  BY DEF Submit, gate, session
<1>2. PageTypes /\ KeysDiffer /\ WireTypes
  BY DEF GateInv
<1>3. /\ KeyOf(e, c) \in Nat \ {0} /\ KeyOf(e, c) < nextKey'
      /\ nextKey' \in Nat \ {0} /\ nextKey' >= nextKey
      /\ kept \in intentKeys \/ (KeyOf(e, c) = nextKey /\ \A i \in intentKeys : i.intent # Intent(e, c))
  <2>1. nextKey \in Nat \ {0} /\ KeyOf(e, c) \in Nat
    BY <1>0, <1>2, KeyOfIntent DEF PageTypes
  <2>2. CASE Kept(e, c) = {}
    BY <1>0, <1>1, <1>2, <2>1, <2>2, KeyOfIntent
  <2>3. CASE Kept(e, c) # {}
    <3>1. kept \in intentKeys
      BY <1>0, <1>2, <2>3, KeyOfIntent
    <3>2. KeyOf(e, c) < nextKey
      BY <1>2, <3>1 DEF KeysDiffer
    <3>3. KeyOf(e, c) # 0
      BY <1>2, <3>1 DEF PageTypes, KeptKey
    <3> QED
      BY <1>1, <2>1, <3>1, <3>2, <3>3
  <2> QED
    BY <2>2, <2>3
<1>4. q \in Scan /\ kept \in KeptKey
  BY <1>0, <1>3 DEF Scan, KeptKey, Intent
<1>5. AdmissionTypes' /\ OneActiveAdmission' /\ AnswersDiffer' /\ GreetedIsAdmitted'
      /\ AdmitShownOnce' /\ ShownIsStored'
  BY <1>1 DEF GateInv, AdmissionTypes, OneActiveAdmission, AnswersDiffer, GreetedIsAdmitted,
      AdmitShownOnce, ShownIsStored
<1>6. PageTypes'
  BY <1>1, <1>2, <1>3, <1>4 DEF PageTypes
<1>7. WireTypes'
  <2>1. nextKey \in Nat
    BY <1>2 DEF PageTypes
  <2>2. \A w \in wire : w.scan \in Scan /\ w.scan.key < nextKey'
    BY <1>2, <1>3, <2>1 DEF WireTypes, Scan
  <2>3. \A s \in answers : s \in AnswerRow /\ s.key < nextKey'
    BY <1>2, <1>3, <2>1 DEF WireTypes, AnswerRow
  <2> QED
    BY <1>1, <1>3, <1>4, <2>2, <2>3 DEF WireTypes
<1>8. KeysDiffer'
  <2>1. \A i \in intentKeys : i.key \in Nat /\ i.key < nextKey
    BY <1>2 DEF PageTypes, KeysDiffer, KeptKey
  <2>2. nextKey \in Nat
    BY <1>2 DEF PageTypes
  <2>3. kept.key = KeyOf(e, c) /\ kept.intent = Intent(e, c)
    OBVIOUS
  <2> HIDE DEF kept
  <2> QED
    BY <1>1, <1>2, <1>3, <2>1, <2>2, <2>3 DEF KeysDiffer
<1>9. CallIsKept' /\ CallIsOpen'
  BY <1>1 DEF CallIsKept, CallIsOpen
<1>10. GreetedIsForgotten'
  <2>1. \A s \in answers : s.key # KeyOf(e, c) \/ kept \in intentKeys
    BY <1>2, <1>3 DEF WireTypes
  <2> QED
    BY <1>1, <2>1 DEF GateInv, GreetedIsForgotten
<1> QED
  BY <1>5, <1>6, <1>7, <1>8, <1>9, <1>10 DEF GateInv

-----------------------------------------------------------------------------
\* A call the page waits for has a key of its own among those it keeps, which an
\* answer makes it forget.
LEMMA KeyIsForgotten ==
  ASSUME PageTypes, KeysDiffer, CallIsKept, NEW q \in Scan, call = q
  PROVE  /\ \E i \in intentKeys : i.key = q.key
         /\ \A i \in KeysAfter(q) : i.key # q.key
<1> DEFINE kept == [intent |-> Intent(q.event, q.code), key |-> q.key]
<1>1. q # NoCall
  BY DEF Scan, NoCall
<1>2. kept \in intentKeys
  BY <1>1 DEF CallIsKept
<1>3. kept \in Kept(q.event, q.code)
  BY <1>2 DEF Kept
<1>4. \A i \in intentKeys : i.key = q.key => i = kept
  BY <1>2 DEF KeysDiffer
<1> QED
  BY <1>2, <1>3, <1>4 DEF KeysAfter

\* The server's answer comes up if the page still waits for it: from a key that has
\* an answer again, or with the admission just written.
LEMMA DecisionShown ==
  ASSUME GateInv, NEW s \in AnswerRow, NEW q \in Scan, s.key = q.key,
         ShowDecision(q, s.answer),
         AdmissionTypes', OneActiveAdmission', AnswersDiffer', WireTypes',
         Len(admissions') >= Len(admissions),
         s \in answers', answers \subseteq answers',
         \A t \in answers' \ answers : t.answer.result = "ADMITTED" => t.answer.adm > Len(admissions),
         UNCHANGED <<user, event, frame, nextKey>>
  PROVE  GateInv'
<1>1. /\ PageTypes /\ KeysDiffer /\ CallIsKept /\ CallIsOpen /\ GreetedIsAdmitted
      /\ GreetedIsForgotten /\ AdmitShownOnce /\ ShownIsStored /\ AdmissionTypes
  BY DEF GateInv
<1>2. /\ Len(admissions) \in Nat /\ Len(admissions') \in Nat /\ Len(admissions') <= MaxAdmissions
      /\ MaxAdmissions \in Nat
  BY <1>1, AdmissionAssumption DEF AdmissionTypes
<1>3. \A t \in answers' : t.answer.result = "ADMITTED" => t.answer.adm \in 1 .. MaxAdmissions
  BY <1>2 DEF AnswersDiffer
\* What was shown before was among the answers already.
<1>4. \A t \in answers' : t.answer.result = "ADMITTED" /\ greeted[t.answer.adm] > 0 =>
        t \in answers /\ \A i \in intentKeys : i.key # t.key
  <2> SUFFICES ASSUME NEW t \in answers', t.answer.result = "ADMITTED",
                      greeted[t.answer.adm] > 0
               PROVE  t \in answers
    BY <1>1 DEF GreetedIsForgotten
  <2>1. t.answer.adm \in 1 .. MaxAdmissions
    BY <1>3
  <2>2. ~(t.answer.adm > Len(admissions))
    BY <1>1, <2>1 DEF GreetedIsAdmitted
  <2> QED
    BY <2>2
<1>5. CASE call # q
  <2>1. UNCHANGED <<call, intentKeys, shown, cannotVerify, greeted>>
    BY <1>5 DEF ShowDecision, outcome
  <2>2. PageTypes' /\ KeysDiffer' /\ CallIsKept' /\ CallIsOpen' /\ AdmitShownOnce'
    BY <1>1, <2>1 DEF PageTypes, KeysDiffer, CallIsKept, CallIsOpen, AdmitShownOnce
  <2>3. GreetedIsAdmitted'
    BY <1>1, <1>2, <2>1 DEF GreetedIsAdmitted
  <2>4. GreetedIsForgotten' /\ ShownIsStored'
    BY <1>1, <1>4, <2>1 DEF GreetedIsForgotten, ShownIsStored
  <2> QED
    BY <2>2, <2>3, <2>4 DEF GateInv
<1>6. CASE call = q
  <2>1. /\ call' = NoCall /\ shown' = s.answer /\ intentKeys' = KeysAfter(q)
        /\ UNCHANGED cannotVerify
        /\ greeted' = IF s.answer.result = "ADMITTED"
                      THEN [greeted EXCEPT ![s.answer.adm] = @ + 1] ELSE greeted
    BY <1>6 DEF ShowDecision
  <2>2. intentKeys' \subseteq intentKeys /\ \A i \in intentKeys' : i.key # s.key
    BY <1>1, <1>6, <2>1, KeyIsForgotten DEF KeysAfter
  <2>3. s.answer.result = "ADMITTED" =>
          s.answer.adm \in 1 .. MaxAdmissions /\ greeted[s.answer.adm] = 0
    <3>1. \E i \in intentKeys : i.key = s.key
      BY <1>1, <1>6, KeyIsForgotten
    <3>2. \A a \in 1 .. MaxAdmissions : greeted[a] \in Nat
      BY <1>1 DEF PageTypes
    <3> QED
      BY <1>3, <1>4, <3>1, <3>2
  <2>4. \A a \in 1 .. MaxAdmissions :
          \/ greeted'[a] = greeted[a]
          \/ s.answer.result = "ADMITTED" /\ a = s.answer.adm /\ greeted'[a] = 1
    BY <1>1, <2>1, <2>3 DEF PageTypes
  <2>5. PageTypes' /\ KeysDiffer' /\ CallIsKept' /\ CallIsOpen'
    <3>1. greeted' \in [1 .. MaxAdmissions -> Nat]
      BY <1>1, <2>1, <2>3 DEF PageTypes
    <3> QED
      BY <1>1, <2>1, <2>2, <3>1 DEF PageTypes, KeysDiffer, CallIsKept, CallIsOpen
  <2>6. AdmitShownOnce'
    BY <1>1, <2>4 DEF AdmitShownOnce
  <2>7. GreetedIsAdmitted'
    <3>1. s.answer.result = "ADMITTED" => s.answer.adm <= Len(admissions')
      BY <1>2 DEF AnswersDiffer
    <3> QED
      BY <1>1, <1>2, <2>4, <3>1 DEF GreetedIsAdmitted
  <2>8. GreetedIsForgotten'
    <3> SUFFICES ASSUME NEW t \in answers', t.answer.result = "ADMITTED",
                        greeted'[t.answer.adm] > 0
                 PROVE  \A i \in intentKeys' : i.key # t.key
      BY DEF GreetedIsForgotten
    <3>1. CASE greeted[t.answer.adm] > 0
      BY <1>4, <2>2, <3>1
    <3>2. CASE s.answer.result = "ADMITTED" /\ t.answer.adm = s.answer.adm
      BY <2>2, <3>2 DEF AnswersDiffer
    <3> QED
      BY <1>3, <2>4, <3>1, <3>2
  <2>9. ShownIsStored'
    <3>1. q # NoCall
      BY DEF Scan, NoCall
    <3>2. cannotVerify = FALSE
      BY <1>1, <1>6, <3>1 DEF CallIsOpen
    <3> QED
      BY <2>1, <3>2 DEF ShownIsStored
  <2> QED
    BY <2>5, <2>6, <2>7, <2>8, <2>9 DEF GateInv
<1> QED
  BY <1>5, <1>6

-----------------------------------------------------------------------------
\* A request is served: replayed under a key that has an answer, performed otherwise.
LEMMA ServeStep ==
  ASSUME GateInv, NEW w \in wire, Serve(w)
  PROVE  GateInv'
<1> DEFINE q == w.scan
<1>1. /\ AdmissionTypes /\ OneActiveAdmission /\ PageTypes /\ WireTypes /\ AnswersDiffer
      /\ q \in Scan /\ q.key < nextKey
      /\ Len(admissions) \in Nat
  BY ActiveRows DEF GateInv, WireTypes
<1>2. UNCHANGED <<user, event, frame, nextKey>> /\ wire' \subseteq wire
  BY DEF Serve, session, optics
<1>3. CASE Replay(q)
  <2>1. PICK s \in answers : s.user = q.user /\ s.key = q.key /\ ShowDecision(q, s.answer)
    BY <1>3 DEF Replay, Stored
  <2>2. UNCHANGED <<admissions, answers>>
    BY <1>3 DEF Replay
  <2>3. s \in AnswerRow /\ s \in answers' /\ answers \subseteq answers'
    BY <1>1, <2>2 DEF WireTypes
  <2>4. AdmissionTypes' /\ OneActiveAdmission' /\ AnswersDiffer' /\ WireTypes'
    BY <1>1, <1>2, <2>2 DEF AdmissionTypes, OneActiveAdmission, AnswersDiffer, WireTypes
  <2>5. Len(admissions') >= Len(admissions) /\ answers' \ answers = {}
    BY <1>1, <2>2
  <2> QED
    BY <1>1, <1>2, <2>1, <2>3, <2>4, <2>5, DecisionShown
<1>4. CASE \E seen \in {w.seen, entry[q.event]} : Perform(q, seen)
  <2>1. PICK seen : Perform(q, seen)
    BY <1>4
  <2> DEFINE decision == Decision(q.event, seen, q.code)
             s == [user |-> q.user, key |-> q.key, answer |-> Answer(decision, q.code)]
             by == [user |-> q.user, key |-> q.key, code |-> q.code]
  <2>2. /\ ValidateAndAdmit(q.event, seen, q.code, by)
        /\ answers' = answers \cup {s} /\ ShowDecision(q, s.answer)
    BY <2>1 DEF Perform
  <2>3. decision \in ScanResults /\ s.answer.result = decision
    <3>1. decision \in ScanResults
      BY DEF Decision, ScanResults
    <3>2. s.answer.result = decision
      BY DEF Answer
    <3> QED
      BY <3>1, <3>2
  <2>4. s \in AnswerRow
    <3>1. Answer(decision, q.code).adm \in Nat
      <4>1. CASE decision = "ADMITTED"
        BY <1>1, <4>1 DEF Answer
      <4>2. CASE decision = "TICKET_ALREADY_ADMITTED"
        <5>1. Active(TicketOf[q.code]) # {}
          BY <4>2 DEF Decision
        <5>2. Active(TicketOf[q.code]) \subseteq 1 .. Len(admissions)
          BY <1>1, ActiveRows
        <5>3. (CHOOSE a \in Active(TicketOf[q.code]) : TRUE) \in Nat
          BY <1>1, <5>1, <5>2
        <5> HIDE DEF decision
        <5> QED
          BY <4>2, <5>3 DEF Answer
      <4>3. CASE decision \notin {"ADMITTED", "TICKET_ALREADY_ADMITTED"}
        <5> HIDE DEF decision
        <5> QED
          BY <4>3 DEF Answer
      <4> QED
        BY <4>1, <4>2, <4>3
    <3>2. Answer(decision, q.code) \in Decided
      BY <2>3, <3>1 DEF Answer, Decided
    <3> QED
      BY <1>1, <3>2 DEF AnswerRow, Scan
  <2>5. /\ AdmissionTypes' /\ OneActiveAdmission' /\ Len(admissions') >= Len(admissions)
        /\ decision = "ADMITTED" =>
             s.answer.adm = Len(admissions) + 1 /\ Len(admissions') = Len(admissions) + 1
    <3>1. by \in Writer
      BY <1>1 DEF Scan, Writer
    <3>2. CASE decision = "ADMITTED"
      <4>1. /\ TicketOf[q.code] \in Tickets /\ Active(TicketOf[q.code]) = {}
            /\ Len(admissions) < MaxAdmissions
            /\ admissions' = Append(admissions, Admission(TicketOf[q.code], by))
        BY <2>2, <3>2, AdmittedIsNew DEF ValidateAndAdmit
      <4>2. AdmissionTypes' /\ OneActiveAdmission' /\ Len(admissions') = Len(admissions) + 1
        BY <1>1, <3>1, <4>1, AppendOne
      <4> QED
        BY <1>1, <3>2, <4>2 DEF Answer
    <3>3. CASE decision # "ADMITTED"
      <4>1. UNCHANGED admissions
        BY <2>2, <3>3 DEF ValidateAndAdmit
      <4> QED
        BY <1>1, <3>3, <4>1 DEF AdmissionTypes, OneActiveAdmission
    <3> QED
      BY <3>2, <3>3
  <2>6. WireTypes'
    BY <1>1, <1>2, <2>2, <2>4 DEF WireTypes
  <2>7. /\ Len(admissions') \in Nat
        /\ \A t \in answers : t.answer.result = "ADMITTED" =>
             t.answer.adm \in 1 .. Len(admissions)
    BY <1>1, <2>5 DEF AdmissionTypes, AnswersDiffer
  <2> HIDE DEF s, decision
  <2>8. AnswersDiffer'
    BY <1>1, <2>2, <2>3, <2>5, <2>7 DEF AnswersDiffer
  <2>9. /\ s \in answers' /\ answers \subseteq answers' /\ s.key = q.key
        /\ \A t \in answers' \ answers :
             t.answer.result = "ADMITTED" => t.answer.adm > Len(admissions)
    BY <1>1, <2>2, <2>3, <2>5 DEF s
  <2> QED
    BY <1>1, <1>2, <2>2, <2>4, <2>5, <2>6, <2>8, <2>9, DecisionShown
<1> QED
  BY <1>3, <1>4 DEF Serve

\* A request is refused: an error comes up if the page still waits for it.
LEMMA RefuseStep ==
  ASSUME GateInv, NEW w \in wire, Refuse(w)
  PROVE  GateInv'
<1>1. /\ PageTypes /\ WireTypes /\ AdmissionTypes /\ OneActiveAdmission
      /\ UNCHANGED <<admissions, greeted, nextKey, answers, user, event, frame>>
      /\ wire' \subseteq wire
  BY DEF GateInv, Refuse, gate, session, optics, ShowError, CannotVerify, outcome
<1>2. intentKeys' \subseteq intentKeys
  BY DEF Refuse, ShowError, KeysAfter
<1>3. \/ call' = NoCall /\ shown' = NoDecision
      \/ UNCHANGED <<call, intentKeys, shown, cannotVerify>>
  BY DEF Refuse, ShowError, CannotVerify, outcome
<1> QED
  BY <1>1, <1>2, <1>3, PageStep DEF GateInv, PageTypes

-----------------------------------------------------------------------------
\* Every step of operators, browser, server and the others keeps the invariant.
LEMMA GateStep ==
  ASSUME GateInv, [Next]_vars
  PROVE  GateInv'
<1>0. PageTypes
  BY DEF GateInv
<1>1. CASE Others
  BY <1>1, OthersStep
<1>2. CASE \E w \in wire : Serve(w)
  BY <1>2, ServeStep
<1>3. CASE \E w \in wire : Refuse(w)
  BY <1>3, RefuseStep
<1>4. CASE \E c \in Codes : ManualScan(c)
  BY <1>0, <1>4, SubmitStep DEF ManualScan, optics, PageTypes
<1>5. CASE \E c \in Codes : DetectedCode(c)
  <2>1. PICK c \in Codes : DetectedCode(c)
    BY <1>5
  <2>2. /\ frame.user \in Operators \cup {Nobody} /\ frame.event \in Events \cup {NoEvent}
        /\ Submit(frame.user, frame.event, c)
        /\ frame' \in [user : Operators \cup {Nobody}, event : Events \cup {NoEvent}]
    BY <1>0, <2>1 DEF DetectedCode, PageTypes, NoFrame
  <2> QED
    BY <2>2, SubmitStep
<1>6. CASE \E u \in Operators : SignIn(u)
  BY <1>0, <1>6, PageStep DEF SignIn, gate, optics, outcome, keys, PageTypes
<1>7. CASE \E e \in Events : ChooseEvent(e)
  BY <1>0, <1>7, PageStep DEF ChooseEvent, EventsOffered, gate, optics, outcome, keys, PageTypes
<1>8. CASE ChangeEvent \/ SignOut \/ SessionEnds \/ ScanNext
  BY <1>0, <1>8, PageStep
  DEF ChangeEvent, SignOut, SessionEnds, ScanNext, StopCamera, gate, optics, outcome, session,
      keys, PageTypes
<1>9. CASE Reload \/ CallThrows
  <2>1. /\ call' = NoCall /\ shown' = NoDecision /\ intentKeys' \subseteq intentKeys
        /\ UNCHANGED <<admissions, greeted, nextKey, wire, answers, user, event>>
        /\ frame' = NoFrame \/ frame' = frame
    BY <1>9 DEF Reload, CallThrows, CannotVerify, gate, optics, session, keys
  <2> QED
    BY <1>0, <2>1, PageStep DEF PageTypes, NoFrame
<1>10. CASE GatewayAnswers
  <2>1. intentKeys' \subseteq intentKeys /\ call' = NoCall /\ shown' = NoDecision
        /\ UNCHANGED <<admissions, greeted, nextKey, wire, answers, user, event, frame>>
    BY <1>10 DEF GatewayAnswers, ShowError, KeysAfter, CannotVerify, gate, optics, session
  <2> QED
    BY <1>0, <2>1, PageStep DEF PageTypes
<1>11. CASE StartCamera \/ CameraGranted \/ CameraRefused \/ NoDetector \/ DetectFrame
              \/ DetectedNothing \/ UNCHANGED vars
  <2>1. /\ UNCHANGED <<admissions, greeted, nextKey, wire, answers, user, event, call,
                       intentKeys, shown, cannotVerify>>
        /\ frame' \in {frame, NoFrame, [user |-> user, event |-> event]}
    BY <1>11
    DEF StartCamera, CameraGranted, CameraRefused, NoDetector, DetectFrame, DetectedNothing,
        vars, gate, optics, session, outcome, keys
  <2> QED
    BY <1>0, <2>1, PageStep DEF PageTypes, NoFrame
<1> QED
  BY <1>1, <1>2, <1>3, <1>4, <1>5, <1>6, <1>7, <1>8, <1>9, <1>10, <1>11
  DEF Next, Operator, Browser, Server

\* The invariant holds in every reachable state of the gate.
THEOREM GateInvariant == Spec => []GateInv
<1>1. GateInv /\ [Next]_vars => GateInv'
  BY GateStep
<1> QED
  BY InitGate, <1>1, PTL DEF Spec

\* Nobody enters twice on one ticket, for any gates, codes, overrides and reversals
\* (OneActiveAdmission).
THEOREM OneGuestPerTicket == Spec => []OneActiveAdmission
<1>1. GateInv => OneActiveAdmission
  BY DEF GateInv
<1> QED
  BY GateInvariant, <1>1, PTL

\* An admission brings up one green screen at most, for any operators, retries, lost
\* and late answers (AdmitShownOnce).
THEOREM OneGreenScreen == Spec => []AdmitShownOnce
<1>1. GateInv => AdmitShownOnce
  BY DEF GateInv
<1> QED
  BY GateInvariant, <1>1, PTL

\* A decision on the screen is one the server stored (ShownIsStored).
THEOREM ScreenIsBacked == Spec => []ShownIsStored
<1>1. GateInv => ShownIsStored
  BY DEF GateInv
<1> QED
  BY GateInvariant, <1>1, PTL

-----------------------------------------------------------------------------
(* Turned away for cause.  The life of a key beyond its answer: what it was  *)
(* drawn for, what the server stored under it, and where an admission that  *)
(* nobody has seen can still be found.                                      *)

\* Key k was drawn for a scan of code c at event e: the page keeps it for that, or a
\* request carries it.
Means(k, e, c) ==
  \/ [intent |-> Intent(e, c), key |-> k] \in intentKeys
  \/ \E w \in wire : w.scan.key = k /\ w.scan.event = e /\ w.scan.code = c

OneMeaning ==
  \A k \in Nat, e, f \in Events, c, d \in Codes :
    Means(k, e, c) /\ Means(k, f, d) => e = f /\ c = d

IsKept(k) == \E i \in intentKeys : i.key = k

\* A request on its way is one the page can repeat, unless its key was answered, or
\* the page was made to forget it.
WireIsKnown ==
  \A w \in wire :
    IsKept(w.scan.key) \/ w.scan.key \in abandoned \/ \E s \in answers : s.key = w.scan.key

\* One answer for an operator and a key; one that speaks of an admission is about an
\* existing one, of the event the scan was for.
AnswersAreSound ==
  /\ \A s, t \in answers : s.user = t.user /\ s.key = t.key => s = t
  /\ \A s \in answers : s.answer.result \in {"ADMITTED", "TICKET_ALREADY_ADMITTED"} =>
       /\ s.answer.adm \in 1 .. Len(admissions)
       /\ \A e \in Events, c \in Codes : Means(s.key, e, c) => e = EventOf[TicketOf[c]]

\* The green screen of admission a has come up, or can still: unless another operator
\* was answered under the same key, or the page was made to forget it.
Accounted(a) ==
  LET by == admissions[a].by IN
  \/ greeted[a] > 0
  \/ by.key \in abandoned
  \/ IsKept(by.key)
  \/ \E s \in answers : s.key = by.key /\ s.user # by.user

\* What is known of admission a if this page asked for it.
Traced(a) ==
  LET by == admissions[a].by IN
  /\ \E s \in answers : /\ s.user = by.user /\ s.key = by.key
                        /\ s.answer.result = "ADMITTED" /\ s.answer.adm = a
  /\ \A e \in Events, c \in Codes : Means(by.key, e, c) => c = by.code
  /\ Accounted(a)

TraceInv ==
  /\ OneMeaning /\ WireIsKnown /\ AnswersAreSound
  /\ \A a \in 1 .. Len(admissions) : admissions[a].by # Elsewhere => Traced(a)

LEMMA InitTrace == ScannerInit => TraceInv
  BY DEF ScannerInit, GateInit, TraceInv, OneMeaning, WireIsKnown, AnswersAreSound, Means

\* What others write is theirs, and leaves what is known of this page's admissions.
LEMMA OthersTrace ==
  ASSUME GateInv, TraceInv, Others
  PROVE  TraceInv'
<1>1. UNCHANGED <<intentKeys, wire, abandoned, answers, greeted>>
  BY DEF Others, outcome, keys
<1>2. /\ Len(admissions) \in Nat /\ Len(admissions') \in Nat
      /\ Len(admissions') >= Len(admissions)
      /\ \A a \in 1 .. Len(admissions') :
           \/ a \in 1 .. Len(admissions) /\ admissions'[a].by = admissions[a].by
           \/ admissions'[a].by = Elsewhere
  <2>0. admissions \in Seq(AdmissionRow) /\ Len(admissions) \in Nat
        /\ DOMAIN admissions = 1 .. Len(admissions)
    BY ActiveRows DEF GateInv, AdmissionTypes
  <2>1. ASSUME NEW t, admissions' = Append(admissions, Admission(t, Elsewhere))
        PROVE  <1>2
    BY <2>0, <2>1 DEF Admission
  <2>2. CASE \E a \in DOMAIN admissions : Reverse(a)
    BY <2>0, <2>2 DEF Reverse, AdmissionRow
  <2>3. CASE UNCHANGED admissions
    BY <2>0, <2>3
  <2> QED
    BY <2>1, <2>2, <2>3
    DEF Others, GateOthers, OtherScan, ValidateAndAdmit, ManualOverride, VoidTicket,
        ReissueCredential, EntranceCloses
<1>3. \A k, e, c : Means(k, e, c)' = Means(k, e, c)
  BY <1>1 DEF Means
<1>4. OneMeaning' /\ WireIsKnown'
  BY <1>1, <1>3 DEF TraceInv, OneMeaning, WireIsKnown, IsKept
<1>5. AnswersAreSound'
  BY <1>1, <1>2, <1>3 DEF TraceInv, AnswersAreSound
<1>6. ASSUME NEW a \in 1 .. Len(admissions'), admissions'[a].by # Elsewhere
      PROVE  Traced(a)'
  <2>1. a \in 1 .. Len(admissions) /\ admissions'[a].by = admissions[a].by /\ Traced(a)
    BY <1>2, <1>6 DEF TraceInv
  <2> QED
    BY <1>1, <1>3, <2>1 DEF Traced, Accounted, IsKept
<1> QED
  BY <1>4, <1>5, <1>6 DEF TraceInv

\* Keys that go are given up.
LEMMA PageTrace ==
  ASSUME TraceInv, UNCHANGED <<admissions, answers, greeted>>, wire' \subseteq wire,
         intentKeys' \subseteq intentKeys, abandoned \subseteq abandoned',
         \A i \in intentKeys : i \in intentKeys' \/ i.key \in abandoned'
  PROVE  TraceInv'
<1>1. \A k, e, c : Means(k, e, c)' => Means(k, e, c)
  BY DEF Means
<1>2. \A k : IsKept(k) => IsKept(k)' \/ k \in abandoned'
  BY DEF IsKept
<1>3. OneMeaning' /\ WireIsKnown' /\ AnswersAreSound'
  BY <1>1, <1>2 DEF TraceInv, OneMeaning, WireIsKnown, AnswersAreSound
<1>4. ASSUME NEW a \in 1 .. Len(admissions), Traced(a)
      PROVE  Traced(a)'
  BY <1>1, <1>2, <1>4 DEF Traced, Accounted
<1> QED
  BY <1>3, <1>4 DEF TraceInv

\* A scan that is sent is what its key means.
LEMMA SubmitTrace ==
  ASSUME GateInv, TraceInv, NEW u \in Operators \cup {Nobody}, NEW e \in Events \cup {NoEvent},
         NEW c \in Codes, Submit(u, e, c)
  PROVE  TraceInv'
<1> DEFINE q == [user |-> u, event |-> e, code |-> c, key |-> KeyOf(e, c)]
           kept == [intent |-> Intent(e, c), key |-> KeyOf(e, c)]
           sent == [scan |-> q, seen |-> entry[e]]
<1>1. /\ e \in Events
      /\ UNCHANGED <<admissions, answers, greeted, abandoned>>
      /\ wire' = wire \cup {sent} /\ intentKeys' = intentKeys \cup {kept}
  BY DEF Submit, gate
<1>2. /\ PageTypes /\ KeysDiffer /\ WireTypes
      /\ KeyOf(e, c) \in Nat /\ nextKey \in Nat
      /\ kept \in intentKeys \/ KeyOf(e, c) = nextKey
  BY <1>1, KeyOfIntent DEF GateInv, PageTypes
<1>3. sent.scan.key = KeyOf(e, c) /\ sent.scan.event = e /\ sent.scan.code = c
  OBVIOUS
<1>4. ASSUME NEW k, NEW f, NEW d, Means(k, f, d)'
      PROVE  Means(k, f, d) \/ (k = KeyOf(e, c) /\ f = e /\ d = c)
  BY <1>1, <1>3, <1>4 DEF Means, Intent
<1>5. ASSUME NEW f \in Events, NEW d \in Codes, Means(KeyOf(e, c), f, d)
      PROVE  Means(KeyOf(e, c), e, c) /\ f = e /\ d = c
  <2>1. KeyOf(e, c) < nextKey
    BY <1>2, <1>5 DEF Means, WireTypes, KeysDiffer
  <2>2. Means(KeyOf(e, c), e, c)
    BY <1>2, <2>1 DEF Means
  <2> QED
    BY <1>1, <1>2, <1>5, <2>2 DEF TraceInv, OneMeaning
<1>6. OneMeaning'
  BY <1>4, <1>5 DEF TraceInv, OneMeaning
<1>7. intentKeys \subseteq intentKeys'
  BY <1>1
<1>8. \E i \in intentKeys' : i.key = KeyOf(e, c)
  <2>1. kept.key = KeyOf(e, c)
    OBVIOUS
  <2> HIDE DEF kept
  <2>2. kept \in intentKeys'
    BY <1>1
  <2> QED
    BY <2>1, <2>2
<1> HIDE DEF sent, kept, q
<1>9. WireIsKnown'
  BY <1>1, <1>3, <1>7, <1>8 DEF TraceInv, WireIsKnown, IsKept
\* A new key has no answer yet; an old one meant this scan already.
<1>10. ASSUME NEW k, NEW f \in Events, NEW d \in Codes, Means(k, f, d)',
              \E s \in answers : s.key = k
       PROVE  Means(k, f, d)
  <2>1. k < nextKey
    BY <1>2, <1>10 DEF WireTypes
  <2>2. CASE k = KeyOf(e, c) /\ f = e /\ d = c
    BY <1>2, <2>1, <2>2 DEF Means, kept
  <2> QED
    BY <1>4, <1>10, <2>2
<1>11. AnswersAreSound'
  BY <1>1, <1>10 DEF TraceInv, AnswersAreSound
<1>12. ASSUME NEW a \in 1 .. Len(admissions), Traced(a)
       PROVE  Traced(a)'
  BY <1>1, <1>7, <1>10, <1>12 DEF Traced, Accounted, IsKept
<1> QED
  BY <1>1, <1>6, <1>9, <1>11, <1>12 DEF TraceInv

\* The request that is served: the answer is stored, the page takes it if it waits,
\* and an admission that is written is this scan's.
LEMMA AnswerTrace ==
  ASSUME GateInv, TraceInv, NEW w \in wire, NEW s \in AnswerRow,
         s.user = w.scan.user, s.key = w.scan.key, s \in answers',
         ShowDecision(w.scan, s.answer), wire' \subseteq wire, abandoned' = abandoned,
         AdmissionTypes', Len(admissions') >= Len(admissions),
         \A a \in 1 .. Len(admissions) : admissions'[a] = admissions[a],
         s.answer.result = "ADMITTED" => s.answer.adm \in 1 .. MaxAdmissions,
         \/ s \in answers /\ answers' = answers /\ admissions' = admissions
         \/ /\ answers' = answers \cup {s}
            /\ \A t \in answers : ~(t.user = s.user /\ t.key = s.key)
            /\ s.answer.result \in {"ADMITTED", "TICKET_ALREADY_ADMITTED"} =>
                 /\ s.answer.adm \in 1 .. Len(admissions')
                 /\ w.scan.event = EventOf[TicketOf[w.scan.code]]
            /\ \A a \in 1 .. Len(admissions') : a \notin 1 .. Len(admissions) =>
                 /\ s.answer.result = "ADMITTED" /\ s.answer.adm = a
                 /\ admissions'[a].by = [user |-> s.user, key |-> s.key, code |-> w.scan.code]
  PROVE  TraceInv'
<1>1. /\ PageTypes /\ KeysDiffer /\ CallIsKept /\ WireTypes /\ AdmissionTypes
      /\ w.scan \in Scan /\ s.key \in Nat
      /\ Len(admissions) \in Nat /\ Len(admissions') \in Nat
  BY DEF GateInv, WireTypes, AdmissionTypes, AnswerRow
<1>2. /\ intentKeys' \subseteq intentKeys
      /\ \A a \in 1 .. MaxAdmissions : greeted[a] > 0 => greeted'[a] > 0
      /\ s.answer.result = "ADMITTED" /\ call = w.scan => greeted'[s.answer.adm] > 0
  <2>1. CASE call # w.scan
    BY <2>1 DEF ShowDecision, outcome
  <2>2. CASE call = w.scan
    <3>1. /\ intentKeys' = KeysAfter(w.scan)
          /\ greeted' = IF s.answer.result = "ADMITTED"
                        THEN [greeted EXCEPT ![s.answer.adm] = @ + 1] ELSE greeted
      BY <2>2 DEF ShowDecision
    <3>2. greeted \in [1 .. MaxAdmissions -> Nat]
      BY <1>1 DEF PageTypes
    <3>3. CASE s.answer.result = "ADMITTED"
      <4>1. /\ greeted[s.answer.adm] \in Nat
            /\ greeted'[s.answer.adm] = greeted[s.answer.adm] + 1
            /\ \A a \in 1 .. MaxAdmissions : a # s.answer.adm => greeted'[a] = greeted[a]
        BY <3>1, <3>2, <3>3
      <4> QED
        BY <3>1, <4>1 DEF KeysAfter
    <3> QED
      BY <3>1, <3>3 DEF KeysAfter
  <2> QED
    BY <2>1, <2>2
<1>3. \A k : IsKept(k) => IsKept(k)' \/ (k = s.key /\ call = w.scan)
  <2>1. CASE call # w.scan
    BY <2>1 DEF ShowDecision, IsKept
  <2>2. CASE call = w.scan
    <3> DEFINE kept == [intent |-> Intent(call.event, call.code), key |-> call.key]
    <3>1. kept \in intentKeys
      BY <1>1, <2>2 DEF CallIsKept, Scan, NoCall
    <3>2. \A i \in intentKeys : i.intent = Intent(call.event, call.code) => i = kept
      BY <1>1, <3>1 DEF KeysDiffer
    <3>3. intentKeys' = intentKeys \ {i \in intentKeys : i.intent = Intent(call.event, call.code)}
      BY <2>2 DEF ShowDecision, KeysAfter, Kept
    <3>4. kept.key = s.key
      BY <2>2
    <3> HIDE DEF kept
    <3> QED
      BY <2>2, <3>2, <3>3, <3>4 DEF IsKept
  <2> QED
    BY <2>1, <2>2
<1>4. /\ \A k, e, c : Means(k, e, c)' => Means(k, e, c)
      /\ Means(s.key, w.scan.event, w.scan.code)
  BY <1>2 DEF Means
<1>5. w.scan.event \in Events /\ w.scan.code \in Codes
  BY <1>1 DEF Scan
<1>6. \A e \in Events, c \in Codes : Means(s.key, e, c) => e = w.scan.event /\ c = w.scan.code
  BY <1>1, <1>4, <1>5 DEF TraceInv, OneMeaning
<1>7. OneMeaning' /\ WireIsKnown'
  BY <1>3, <1>4 DEF TraceInv, OneMeaning, WireIsKnown
<1>8. AnswersAreSound'
  BY <1>1, <1>4, <1>6 DEF TraceInv, AnswersAreSound
\* An admission written before: if its key goes now, it was shown, or somebody else was
\* answered under it.
<1>9. ASSUME NEW a \in 1 .. Len(admissions), admissions[a].by # Elsewhere
      PROVE  Traced(a)'
  <2> DEFINE by == admissions[a].by
  <2>1. Traced(a) /\ admissions'[a].by = by /\ a \in 1 .. MaxAdmissions
    BY <1>1, <1>9, AdmissionAssumption DEF TraceInv, AdmissionTypes
  <2>2. PICK t \in answers : /\ t.user = by.user /\ t.key = by.key
                             /\ t.answer.result = "ADMITTED" /\ t.answer.adm = a
    BY <2>1 DEF Traced
  <2>3. answers \subseteq answers'
    OBVIOUS
  <2>4. by.key = s.key /\ by.user = s.user => t = s
    BY <2>2 DEF TraceInv, AnswersAreSound
  <2> HIDE DEF by
  <2>5. CASE by.key = s.key /\ call = w.scan
    <3>1. \/ by.user = s.user /\ greeted'[a] > 0
          \/ by.user # s.user
      BY <1>2, <2>2, <2>4, <2>5
    <3> QED
      BY <1>4, <2>1, <2>2, <2>3, <2>5, <3>1 DEF Traced, Accounted, IsKept, by
  <2>6. CASE ~(by.key = s.key /\ call = w.scan)
    <3>1. IsKept(by.key) => \E i \in intentKeys' : i.key = by.key
      BY <1>3, <2>6 DEF IsKept
    <3> QED
      BY <1>2, <1>4, <2>1, <2>2, <2>3, <3>1 DEF Traced, Accounted, IsKept, by
  <2> QED
    BY <2>5, <2>6
\* The admission written now: it is shown, or its scan was known.
<1>10. ASSUME NEW a \in 1 .. Len(admissions'), a \notin 1 .. Len(admissions)
       PROVE  Traced(a)'
  <2> DEFINE by == admissions'[a].by
  <2>1. /\ s.answer.result = "ADMITTED" /\ s.answer.adm = a
        /\ by.user = s.user /\ by.key = s.key /\ by.code = w.scan.code
        /\ answers' = answers \cup {s}
        /\ \A t \in answers : ~(t.user = s.user /\ t.key = s.key)
    BY <1>10
  <2>2. IsKept(s.key) \/ s.key \in abandoned \/ \E t \in answers : t.key = s.key
    BY DEF TraceInv, WireIsKnown
  <2> HIDE DEF by
  <2>3. \/ greeted'[a] > 0 \/ s.key \in abandoned \/ IsKept(s.key)'
        \/ \E t \in answers' : t.key = s.key /\ t.user # s.user
    BY <1>2, <1>3, <2>1, <2>2
  <2>4. \A e \in Events, c \in Codes : Means(s.key, e, c)' => c = by.code
    BY <1>4, <1>6, <2>1
  <2> QED
    BY <2>1, <2>3, <2>4 DEF Traced, Accounted, by
<1> QED
  BY <1>7, <1>8, <1>9, <1>10 DEF TraceInv

\* What serving a request does: its answer is one stored before, or is stored now.
LEMMA ServeTrace ==
  ASSUME GateInv, GateInv', TraceInv, NEW w \in wire, Serve(w)
  PROVE  TraceInv'
<1> DEFINE q == w.scan
<1>1. /\ AdmissionTypes /\ WireTypes /\ AnswersDiffer /\ AdmissionTypes' /\ WireTypes' /\ AnswersDiffer'
      /\ q \in Scan /\ Len(admissions) \in Nat /\ Len(admissions) <= MaxAdmissions
      /\ Len(admissions') \in Nat /\ Len(admissions') <= MaxAdmissions /\ MaxAdmissions \in Nat
  BY AdmissionAssumption DEF GateInv, WireTypes, AdmissionTypes
<1>2. wire' \subseteq wire /\ abandoned' = abandoned
  BY DEF Serve
<1>3. CASE Replay(q)
  <2>1. PICK s \in answers : s.user = q.user /\ s.key = q.key /\ ShowDecision(q, s.answer)
    BY <1>3 DEF Replay, Stored
  <2>2. UNCHANGED <<admissions, answers>>
    BY <1>3 DEF Replay
  <2>3. s \in AnswerRow /\ s \in answers'
    BY <1>1, <2>2 DEF WireTypes
  <2>4. s.answer.result = "ADMITTED" => s.answer.adm \in 1 .. MaxAdmissions
    BY <1>1 DEF AnswersDiffer
  <2>5. /\ Len(admissions') >= Len(admissions)
        /\ \A a \in 1 .. Len(admissions) : admissions'[a] = admissions[a]
        /\ answers' = answers /\ admissions' = admissions
    BY <1>1, <2>2
  <2> QED
    BY <1>1, <1>2, <2>1, <2>3, <2>4, <2>5, AnswerTrace
<1>4. ASSUME NEW seen, Perform(q, seen)
      PROVE  TraceInv'
  <2> DEFINE decision == Decision(q.event, seen, q.code)
             s == [user |-> q.user, key |-> q.key, answer |-> Answer(decision, q.code)]
             by == [user |-> q.user, key |-> q.key, code |-> q.code]
  <2>1. /\ ValidateAndAdmit(q.event, seen, q.code, by)
        /\ answers' = answers \cup {s} /\ ShowDecision(q, s.answer)
        /\ \A t \in answers : ~(t.user = q.user /\ t.key = q.key)
    BY <1>4 DEF Perform, Stored
  <2>2. s \in AnswerRow /\ s \in answers' /\ s.user = q.user /\ s.key = q.key
    BY <1>1, <2>1 DEF WireTypes
  <2>3. s.answer.result = decision
    BY DEF Answer
  <2>4. decision = "ADMITTED" =>
          /\ s.answer.adm = Len(admissions) + 1
          /\ admissions' = Append(admissions, Admission(TicketOf[q.code], by))
    BY <2>1 DEF Answer, ValidateAndAdmit
  <2>5. decision # "ADMITTED" => admissions' = admissions
    BY <2>1 DEF ValidateAndAdmit
  <2>6. decision \in {"ADMITTED", "TICKET_ALREADY_ADMITTED"} => q.event = EventOf[TicketOf[q.code]]
    BY DEF Decision
  <2>7. decision = "TICKET_ALREADY_ADMITTED" => s.answer.adm \in 1 .. Len(admissions)
    <3> SUFFICES ASSUME decision = "TICKET_ALREADY_ADMITTED"
                 PROVE  s.answer.adm \in 1 .. Len(admissions)
      OBVIOUS
    <3>1. Active(TicketOf[q.code]) # {}
      BY DEF Decision
    <3>2. Active(TicketOf[q.code]) \subseteq 1 .. Len(admissions)
      BY <1>1, ActiveRows
    <3>3. s.answer.adm = CHOOSE a \in Active(TicketOf[q.code]) : TRUE
      BY DEF Answer
    <3> HIDE DEF s
    <3> QED
      BY <3>1, <3>2, <3>3
  <2>8. Admission(TicketOf[q.code], by).by = by
    BY DEF Admission
  <2> HIDE DEF s, decision
  <2>9. /\ Len(admissions') >= Len(admissions)
        /\ \A a \in 1 .. Len(admissions) : admissions'[a] = admissions[a]
        /\ \A a \in 1 .. Len(admissions') : a \notin 1 .. Len(admissions) =>
             /\ s.answer.result = "ADMITTED" /\ s.answer.adm = a
             /\ admissions'[a].by = by
        /\ decision = "ADMITTED" => s.answer.adm \in 1 .. Len(admissions')
    <3> HIDE DEF by
    <3>1. CASE decision = "ADMITTED"
      <4>1. admissions \in Seq(AdmissionRow)
        BY <1>1 DEF AdmissionTypes
      <4> QED
        BY <1>1, <2>3, <2>4, <2>8, <3>1, <4>1
    <3>2. CASE decision # "ADMITTED"
      BY <1>1, <2>5, <3>2
    <3> QED
      BY <3>1, <3>2
  <2>10. /\ s.answer.result = "ADMITTED" => s.answer.adm \in 1 .. MaxAdmissions
         /\ s.answer.result \in {"ADMITTED", "TICKET_ALREADY_ADMITTED"} =>
              /\ s.answer.adm \in 1 .. Len(admissions')
              /\ q.event = EventOf[TicketOf[q.code]]
    BY <1>1, <2>3, <2>6, <2>7, <2>9
  <2> QED
    BY <1>1, <1>2, <2>1, <2>2, <2>9, <2>10, AnswerTrace
<1> QED
  BY <1>3, <1>4 DEF Serve

\* A page that forgets a key has given it up, or has its answer.
LEMMA TraceStep ==
  ASSUME GateInv, GateInv', TraceInv, [Next]_vars
  PROVE  TraceInv'
<1>0. PageTypes /\ KeysDiffer /\ CallIsKept
  BY DEF GateInv
\* Forgetting the key of the scan under way.
<1>1. ASSUME busy, intentKeys' = KeysAfter(call), NEW i \in intentKeys, i \notin intentKeys'
      PROVE  i.key = call.key
  BY <1>0, <1>1 DEF busy, KeysDiffer, CallIsKept, KeysAfter, Kept
<1>2. CASE Others
  BY <1>2, OthersTrace
<1>3. CASE \E w \in wire : Serve(w)
  BY <1>3, ServeTrace
<1>4. ASSUME NEW w \in wire, Refuse(w)
      PROVE  TraceInv'
  <2>1. /\ UNCHANGED <<admissions, answers, greeted>> /\ wire' \subseteq wire
        /\ intentKeys' \subseteq intentKeys /\ abandoned \subseteq abandoned'
    BY <1>4 DEF Refuse, gate, ShowError, CannotVerify, outcome, KeysAfter
  <2>2. CASE call # w.scan
    BY <1>4, <2>1, <2>2, PageTrace DEF Refuse, ShowError
  <2>3. CASE call = w.scan
    <3>1. busy /\ intentKeys' = KeysAfter(call) /\ call.key \in abandoned'
      BY <1>4, <2>3 DEF Refuse, ShowError, busy, GateInv, WireTypes, Scan, NoCall
    <3> QED
      BY <1>1, <2>1, <3>1, PageTrace
  <2> QED
    BY <2>2, <2>3
<1>5. CASE GatewayAnswers
  <2>1. /\ UNCHANGED <<admissions, answers, greeted, wire>> /\ intentKeys' \subseteq intentKeys
        /\ busy /\ intentKeys' = KeysAfter(call) /\ abandoned' = abandoned \cup {call.key}
    BY <1>5 DEF GatewayAnswers, ShowError, CannotVerify, KeysAfter, gate
  <2> QED
    BY <1>1, <2>1, PageTrace
<1>6. CASE Reload
  <2>1. /\ UNCHANGED <<admissions, answers, greeted, wire>> /\ intentKeys' = {}
        /\ abandoned' = abandoned \cup {i.key : i \in intentKeys}
    BY <1>6 DEF Reload, gate
  <2> QED
    BY <2>1, PageTrace
<1>7. CASE \E c \in Codes : ManualScan(c) \/ DetectedCode(c)
  <2>1. \E u \in Operators \cup {Nobody}, e \in Events \cup {NoEvent}, c \in Codes :
          Submit(u, e, c)
    BY <1>0, <1>7 DEF ManualScan, DetectedCode, PageTypes
  <2> QED
    BY <2>1, SubmitTrace
<1>8. CASE \/ \E u \in Operators : SignIn(u)
           \/ \E e \in Events : ChooseEvent(e)
           \/ ChangeEvent \/ SignOut \/ SessionEnds \/ ScanNext \/ CallThrows
           \/ StartCamera \/ CameraGranted \/ CameraRefused \/ NoDetector \/ DetectFrame
           \/ DetectedNothing \/ UNCHANGED vars
  <2>1. UNCHANGED <<admissions, answers, greeted, wire, intentKeys, abandoned>>
    BY <1>8
    DEF SignIn, ChooseEvent, ChangeEvent, SignOut, SessionEnds, ScanNext, CallThrows,
        CannotVerify, StartCamera, CameraGranted, CameraRefused, NoDetector, DetectFrame,
        DetectedNothing, vars, gate, outcome, keys
  <2> QED
    BY <2>1, PageTrace
<1> QED
  BY <1>2, <1>3, <1>4, <1>5, <1>6, <1>7, <1>8 DEF Next, Operator, Browser, Server

\* In every reachable state the server's answers and this page's admissions are traced
\* to what the page keeps.
THEOREM AdmissionsAreTraced == Spec => []TraceInv
<1>1. GateInv /\ GateInv' /\ TraceInv /\ [Next]_vars => TraceInv'
  BY TraceStep
<1> QED
  BY GateInvariant, InitTrace, <1>1, PTL DEF Spec

-----------------------------------------------------------------------------
\* A scan answered "already checked in" for an admission of this operator and code
\* that no screen has shown.
LEMMA TurnedAwayStep ==
  ASSUME GateInv, TraceInv, NEW w \in wire, Serve(w), busy, call' = NoCall,
         shown'.result = "TICKET_ALREADY_ADMITTED", OwnScan(shown'.adm)
  PROVE  \/ greeted[shown'.adm] > 0
         \/ admissions[shown'.adm].by.key \in abandoned'
         \/ \E s \in answers : s.key = admissions[shown'.adm].by.key /\ s.user # call.user
<1> DEFINE q == w.scan
           a == shown'.adm
           by == admissions[a].by
<1>1. call = q
  BY DEF busy, Serve, Replay, Perform, ShowDecision
<1>2. /\ AdmissionTypes /\ PageTypes /\ KeysDiffer /\ CallIsKept /\ q \in Scan
      /\ Means(q.key, q.event, q.code) /\ abandoned' = abandoned
  BY DEF GateInv, WireTypes, Means, Serve
\* The admission exists, at this event, and the scan itself never was answered
\* with "Admit guest".
<1>3. /\ a \in 1 .. Len(admissions) /\ q.event = EventOf[TicketOf[q.code]]
      /\ \A s \in answers : s.user = q.user /\ s.key = q.key => s.answer.result # "ADMITTED"
  <2>1. CASE Replay(q)
    <3>1. PICK s \in answers : s.user = q.user /\ s.key = q.key /\ shown' = s.answer
      BY <1>1, <2>1 DEF Replay, Stored, ShowDecision
    <3>2. s.answer.result = "TICKET_ALREADY_ADMITTED" /\ a = s.answer.adm
      BY <3>1
    <3>3. \A t \in answers : t.user = q.user /\ t.key = q.key => t = s
      BY <3>1 DEF TraceInv, AnswersAreSound
    <3>4. q.event \in Events /\ q.code \in Codes
      BY <1>2 DEF Scan
    <3>5. s.answer.adm \in 1 .. Len(admissions) /\ q.event = EventOf[TicketOf[q.code]]
      BY <1>2, <3>1, <3>2, <3>4 DEF TraceInv, AnswersAreSound
    <3> QED
      BY <3>2, <3>3, <3>5
  <2>2. ASSUME NEW seen, Perform(q, seen)
        PROVE  <1>3
    <3> DEFINE decision == Decision(q.event, seen, q.code)
    <3>1. shown' = Answer(decision, q.code) /\ Stored(q) = {}
      BY <1>1, <2>2 DEF Perform, ShowDecision
    <3>2. decision = "TICKET_ALREADY_ADMITTED"
      BY <3>1 DEF Answer
    <3>3. Active(TicketOf[q.code]) # {} /\ q.event = EventOf[TicketOf[q.code]]
      BY <3>2 DEF Decision
    <3>4. a = CHOOSE b \in Active(TicketOf[q.code]) : TRUE
      BY <3>1, <3>2 DEF Answer
    <3>5. Active(TicketOf[q.code]) \subseteq 1 .. Len(admissions)
      BY <1>2, ActiveRows
    <3> HIDE DEF a, decision
    <3>6. a \in 1 .. Len(admissions)
      BY <3>3, <3>4, <3>5
    <3> QED
      BY <3>1, <3>3, <3>6 DEF Stored
  <2> QED
    BY <2>1, <2>2 DEF Serve
<1>4. by.user = q.user /\ by.code = q.code /\ by # Elsewhere
  BY <1>1, <1>2, ScannerAssumption DEF OwnScan, Scan
<1>5. Traced(a)
  BY <1>3, <1>4 DEF TraceInv
<1>6. PICK t \in answers : /\ t.user = by.user /\ t.key = by.key
                           /\ t.answer.result = "ADMITTED" /\ t.answer.adm = a
  BY <1>5 DEF Traced
\* If the page still kept the admission's key, it would have repeated that scan.
<1>7. ~IsKept(by.key)
  <2> SUFFICES ASSUME NEW i \in intentKeys, i.key = by.key
               PROVE  FALSE
    BY DEF IsKept
  <2>1. PICK e \in Events, c \in Codes : i.intent = Intent(e, c)
    BY <1>2 DEF PageTypes, KeptKey, Intent
  <2>2. Means(by.key, e, c)
    <3>1. i = [intent |-> Intent(e, c), key |-> by.key]
      BY <1>2, <2>1 DEF PageTypes, KeptKey
    <3> QED
      BY <3>1 DEF Means
  <2>3. c = by.code
    BY <1>5, <2>2 DEF Traced
  <2>4. e = EventOf[TicketOf[c]]
    BY <1>6, <2>2 DEF TraceInv, AnswersAreSound
  <2>5. i.intent = Intent(q.event, q.code)
    BY <1>3, <1>4, <2>1, <2>3, <2>4
  <2>6. [intent |-> Intent(q.event, q.code), key |-> q.key] \in intentKeys
    BY <1>1, <1>2 DEF CallIsKept, busy
  <2>7. by.key = q.key
    BY <1>2, <2>5, <2>6 DEF KeysDiffer
  <2> QED
    BY <1>3, <1>4, <1>6, <2>7
<1>8. \/ greeted[a] > 0 \/ by.key \in abandoned
      \/ \E s \in answers : s.key = by.key /\ s.user # by.user
  BY <1>5, <1>7 DEF Traced, Accounted
<1> QED
  BY <1>1, <1>2, <1>4, <1>8

\* Where an operator is told "already checked in" of an admission that the same
\* operator asked for with the same code and never saw, the page had been made to
\* forget that request, or somebody else had been answered in its place, for any
\* operators, scans, lost and late answers (TurnedAwayForCause).
THEOREM NobodyTurnedAwayUnseen == Spec => TurnedAwayForCause
<1>1. ASSUME GateInv, TraceInv, [Next]_vars, busy, call' = NoCall,
             shown'.result = "TICKET_ALREADY_ADMITTED", OwnScan(shown'.adm)
      PROVE  \/ greeted[shown'.adm] > 0
             \/ admissions[shown'.adm].by.key \in abandoned'
             \/ \E s \in answers : s.key = admissions[shown'.adm].by.key /\ s.user # call.user
  <2>1. NoDecision.result # "TICKET_ALREADY_ADMITTED"
    BY DEF NoDecision
  <2>2. CASE \E w \in wire : Serve(w)
    BY <1>1, <2>2, TurnedAwayStep
  <2>3. CASE (\E w \in wire : Refuse(w)) \/ Reload \/ CallThrows \/ GatewayAnswers
    BY <1>1, <2>1, <2>3
    DEF busy, Refuse, Reload, CallThrows, GatewayAnswers, ShowError, CannotVerify
  <2>4. CASE \/ \E u \in Operators : SignIn(u)
             \/ \E e \in Events : ChooseEvent(e)
             \/ ChangeEvent \/ SignOut \/ StartCamera \/ ScanNext
             \/ CameraGranted \/ CameraRefused \/ NoDetector \/ DetectFrame
             \/ DetectedNothing \/ SessionEnds \/ Others \/ UNCHANGED vars
    <3>1. call' = call
      BY <2>4
      DEF SignIn, ChooseEvent, ChangeEvent, SignOut, StartCamera, ScanNext, CameraGranted,
          CameraRefused, NoDetector, DetectFrame, DetectedNothing, SessionEnds, Others, vars
    <3> QED
      BY <1>1, <3>1 DEF busy
  <2>5. CASE \E c \in Codes : ManualScan(c) \/ DetectedCode(c)
    BY <1>1, <2>5 DEF ManualScan, DetectedCode, Submit
  <2> QED
    BY <1>1, <2>2, <2>3, <2>4, <2>5 DEF Next, Operator, Browser, Server
<1>2. GateInv /\ TraceInv /\ [Next]_vars
        => [busy /\ call' = NoCall /\ shown'.result = "TICKET_ALREADY_ADMITTED"
             => \/ ~OwnScan(shown'.adm)
                \/ greeted[shown'.adm] > 0
                \/ admissions[shown'.adm].by.key \in abandoned'
                \/ \E s \in answers : s.key = admissions[shown'.adm].by.key
                                      /\ s.user # call.user]_vars
  BY <1>1
<1> QED
  BY GateInvariant, AdmissionsAreTraced, <1>2, PTL DEF Spec, TurnedAwayForCause

-----------------------------------------------------------------------------
(* The storefront.                                                         *)


Ops == {"begin", "fail", "confirm"}
OrderStates == {"NONE", "HELD", "COMMITTING", "RECONCILING", "PAYMENT_RETRY", "CONFIRMED", "ENDED"}

Session == [order : 0 .. MaxOrders, pair : Nat, attempt : Nat, confirmed : BOOLEAN]
Call == [op : Ops, sent : Session, cookie : Session]
Tab == [at : {"store", "selector", "checkout", "ticket"}, order : 0 .. MaxOrders,
        stage : {"review", "payment"}, call : Call \cup {Idle}]
Receipt == [key : Ops \X Orders \X Nat, body : Nat, result : Nat]

\* Connections and troubles are free.
StoreTypes ==
  /\ jar \in Session
  /\ tab \in [Tabs -> Tab]
  /\ strays \subseteq [op : Ops, sent : Session]
  /\ receipts \subseteq Receipt
  /\ pairs \in [Orders -> Nat]
  /\ orders = [o \in Orders |-> orders[o]]
  /\ \A o \in Orders :
       /\ orders[o] = [partner |-> orders[o].partner, state |-> orders[o].state,
                       attempt |-> orders[o].attempt]
       /\ orders[o].state \in OrderStates /\ orders[o].attempt \in Nat

\* A tab waits for the answer to op, sent with the cookie s, or waits no longer.
IsSent(op, s) ==
  /\ op \in Ops
  /\ \/ \E t \in Tabs : tab[t].call.op = op /\ tab[t].call.sent = s
     \/ [op |-> op, sent |-> s] \in strays

\* The Partner API stored an answer under k.
IsAnswered(k) == \E a \in receipts : a.key = k

OneReceipt == \A a, b \in receipts : a.key = b.key => a = b

\* The order of s was handed over, and the keys of s were drawn for it.
Drawn(s) == s.order \in Orders /\ s.pair \in 1 .. pairs[s.order]

PairsAreDrawn ==
  /\ jar # NoSession => Drawn(jar)
  /\ \A op, s : IsSent(op, s) => Drawn(s)
  /\ \A a \in receipts : a.key[3] <= pairs[a.key[2]] /\ pairs[a.key[2]] >= 1

\* An order is handed over once, by the one tab that chose it, and sells only after that.
NewOrders ==
  /\ \A o \in Orders : pairs[o] = 0 => orders[o].state \in {"NONE", "HELD", "ENDED"}
  /\ \A o \in Orders : pairs[o] > 0 => orders[o].state # "NONE"
  /\ \A t \in Tabs : tab[t].at = "selector" =>
       tab[t].order \in Orders /\ pairs[tab[t].order] = 0 /\ orders[tab[t].order].state # "NONE"
  /\ \A t, u \in Tabs :
       tab[t].at = "selector" /\ tab[u].at = "selector" /\ tab[t].order = tab[u].order => t = u
  /\ \A t \in Tabs : tab[t].call # Idle => tab[t].at = "checkout"

\* Every begin that is accepted begins another attempt.
AttemptsGrow ==
  /\ \A o \in Orders :
       orders[o].state \in {"COMMITTING", "RECONCILING", "PAYMENT_RETRY", "CONFIRMED"}
         => orders[o].attempt > 0
  /\ \A a \in receipts : a.key[1] = "begin" => a.result <= orders[a.key[2]].attempt
  /\ \A a, b \in receipts :
       a.key[1] = "begin" /\ b.key[1] = "begin" /\ a.key[2] = b.key[2]
         /\ a.result = b.result /\ a.result # 0 => a = b

\* The attempt that s names is the one its keys began.
Begins(s) == s.attempt # 0 => StoredAnswer(BeginKey(s), 0, s.attempt)

\* So with every cookie; and the keys of a fail have begun an attempt.
AttemptsAreStored ==
  /\ Begins(jar)
  /\ \A op, s : IsSent(op, s) =>
       Begins(s) /\ (op # "begin" => s.attempt # 0)
  /\ \A a \in receipts : a.key[1] = "fail" => IsAnswered(<<"begin", a.key[2], a.key[3]>>)

\* The cookie an answer brings says what the API stored.
CookieIsAnswer(c) ==
  /\ c.op = "begin" => /\ c.cookie = [c.sent EXCEPT !.attempt = c.cookie.attempt]
                       /\ c.cookie.attempt # 0
                       /\ StoredAnswer(BeginKey(c.sent), 0, c.cookie.attempt)
  /\ c.op = "confirm" => c.cookie = [c.sent EXCEPT !.confirmed = TRUE]
  /\ c.op = "fail" =>
       /\ c.cookie = [c.sent EXCEPT !.attempt = 0, !.pair = c.cookie.pair]
       /\ \E a \in receipts : a.key = FailureKey(c.sent) /\ a.result # 0
       /\ c.cookie.pair \in 1 .. pairs[c.sent.order]

CookiesAreAnswers == \A t \in Tabs : Answered(tab[t].call) => CookieIsAnswer(tab[t].call)

\* The pair that the answer of t brings is nobody's yet.
Bringing(t) == Answered(tab[t].call) /\ tab[t].call.op = "fail"

\* No cookie and no command of the order o has the pair p.
PairIsNew(o, p) ==
  /\ \A op, s : IsSent(op, s) /\ s.order = o => s.pair # p
  /\ ~(jar.order = o /\ jar.pair = p)
  /\ ~IsAnswered(<<"begin", o, p>>) /\ ~IsAnswered(<<"fail", o, p>>)

NewPairsAreNew ==
  /\ \A t \in Tabs : Bringing(t) => PairIsNew(tab[t].call.sent.order, tab[t].call.cookie.pair)
  /\ \A t, u \in Tabs :
       /\ Bringing(t) /\ Bringing(u)
       /\ tab[t].call.sent.order = tab[u].call.sent.order
       /\ tab[t].call.cookie.pair = tab[u].call.cookie.pair
       => t = u

\* A cookie on its way has the pair of the cookie kept, and then the same attempt if any,
\* or a pair that has done its work.
SentIsLinked(s) ==
  /\ s.pair = jar.pair \/ IsAnswered(BeginKey(s))
  /\ s.pair = jar.pair /\ s.attempt # 0 => jar.attempt = s.attempt

\* The cookie of o leads to its attempt, and to its tickets once sold.
Linked(o) ==
  /\ jar.order = o
  /\ \A op, s : IsSent(op, s) /\ s.order = o => SentIsLinked(s)
  /\ orders[o].state \in {"COMMITTING", "RECONCILING", "CONFIRMED"} =>
       StoredAnswer(BeginKey(jar), 0, orders[o].attempt)
  /\ (\E a \in receipts : a.key = FailureKey(jar) /\ a.result # 0) =>
       orders[o].state \in {"PAYMENT_RETRY", "ENDED"}
  /\ orders[o].state = "CONFIRMED" =>
       /\ jar.attempt = orders[o].attempt
       /\ StoredAnswer(ConfirmKey(jar), jar.attempt, orders[o].attempt)

OrdersAreLinked == \A o \in Orders \ cut : pairs[o] > 0 => Linked(o)

StoreInv ==
  /\ StoreTypes /\ OneReceipt /\ PairsAreDrawn /\ NewOrders /\ AttemptsGrow
  /\ AttemptsAreStored /\ CookiesAreAnswers /\ NewPairsAreNew /\ OrdersAreLinked

-----------------------------------------------------------------------------
\* Nothing is chosen, sent or answered at first.
LEMMA InitStore == StorefrontInit => StoreInv
<1> SUFFICES ASSUME StorefrontInit PROVE StoreInv
  OBVIOUS
<1>1. StoreTypes
  BY StorefrontAssumption
  DEF StorefrontInit, StoreTypes, Session, NoSession, Tab, StorePage, At, OrderStates
<1>2. \A op, s : ~IsSent(op, s)
  BY DEF StorefrontInit, IsSent, StorePage, At, Idle, Ops
<1>3. \A t \in Tabs : tab[t].at = "store" /\ tab[t].call = Idle /\ ~Answered(tab[t].call)
  BY DEF StorefrontInit, StorePage, At, Idle, Answered
<1>4. OneReceipt /\ PairsAreDrawn /\ AttemptsGrow /\ AttemptsAreStored
  BY <1>2
  DEF StorefrontInit, OneReceipt, PairsAreDrawn, AttemptsGrow, AttemptsAreStored, Begins, NoSession
<1>5. NewOrders /\ CookiesAreAnswers /\ NewPairsAreNew /\ OrdersAreLinked
  BY <1>3 DEF StorefrontInit, NewOrders, CookiesAreAnswers, NewPairsAreNew, Bringing, OrdersAreLinked
<1> QED
  BY <1>1, <1>4, <1>5 DEF StoreInv

\* What is on its way, and what it says.
LEMMA SentTypes ==
  ASSUME StoreTypes, NEW op, NEW s, IsSent(op, s)
  PROVE  op \in Ops /\ s \in Session
BY DEF StoreTypes, IsSent, Tab, Call, Idle, Ops

\* The keys of a fail under way were drawn.
LEMMA FailingPair ==
  ASSUME StoreTypes, PairsAreDrawn, NEW t \in Tabs, tab[t].call.op = "fail"
  PROVE  Drawn(tab[t].call.sent) /\ pairs[tab[t].call.sent.order] \in Nat
BY DEF StoreTypes, PairsAreDrawn, Drawn, IsSent, Ops

\* Answers are stored for good, and pairs only grow: a cookie keeps saying what was stored.
LEMMA CookieStays ==
  ASSUME NEW t \in Tabs, tab'[t] = tab[t], CookieIsAnswer(tab[t].call),
         receipts \subseteq receipts',
         tab[t].call.op = "fail" =>
           /\ pairs[tab[t].call.sent.order] \in Nat /\ pairs'[tab[t].call.sent.order] \in Nat
           /\ pairs[tab[t].call.sent.order] <= pairs'[tab[t].call.sent.order]
  PROVE  CookieIsAnswer(tab[t].call)'
<1> DEFINE c == tab[t].call
<1>1. /\ c.op = "begin" => StoredAnswer(BeginKey(c.sent), 0, c.cookie.attempt)
      /\ c.op = "fail" => /\ \E a \in receipts : a.key = FailureKey(c.sent) /\ a.result # 0
                         /\ c.cookie.pair \in 1 .. pairs[c.sent.order]
  BY DEF CookieIsAnswer
<1>2. c.op = "begin" => StoredAnswer(BeginKey(c.sent), 0, c.cookie.attempt)'
  BY <1>1 DEF StoredAnswer, BeginKey
<1>3. c.op = "fail" => \E a \in receipts' : a.key = FailureKey(c.sent) /\ a.result # 0
  BY <1>1
<1>4. c.op = "fail" => c.cookie.pair \in 1 .. pairs'[c.sent.order]
  BY <1>1
<1> QED
  BY <1>2, <1>3, <1>4 DEF CookieIsAnswer, FailureKey

\* A tab goes to another page, or waits no longer.
LEMMA PagesStep ==
  ASSUME StoreInv, StoreTypes', UNCHANGED <<jar, receipts, pairs, cut, orders>>,
         \A op, s : IsSent(op, s)' => IsSent(op, s),
         \A t \in Tabs : tab'[t] = tab[t] \/ (tab'[t].at # "selector" /\ tab'[t].call = Idle)
  PROVE  StoreInv'
<1>1. (OneReceipt /\ PairsAreDrawn /\ AttemptsGrow /\ AttemptsAreStored)'
  BY DEF StoreInv, OneReceipt, PairsAreDrawn, Drawn, AttemptsGrow, AttemptsAreStored, Begins,
      StoredAnswer, IsAnswered, BeginKey
<1>2. NewOrders'
  BY DEF StoreInv, NewOrders
<1>3. \A t \in Tabs : Answered(tab'[t].call) => tab'[t] = tab[t]
  BY DEF Answered, Idle
<1>4. CookiesAreAnswers'
  <2> SUFFICES ASSUME NEW t \in Tabs, Answered(tab'[t].call)
               PROVE  CookieIsAnswer(tab[t].call)'
    BY DEF CookiesAreAnswers, Answered
  <2>1. tab'[t] = tab[t] /\ CookieIsAnswer(tab[t].call)
    BY <1>3 DEF StoreInv, CookiesAreAnswers
  <2> QED
    BY <2>1 DEF CookieIsAnswer, StoredAnswer, BeginKey, FailureKey
<1>5. \A t \in Tabs : Bringing(t)' => Bringing(t) /\ tab'[t] = tab[t]
  BY <1>3 DEF Bringing, Answered
<1>6. \A o, p : PairIsNew(o, p) => PairIsNew(o, p)'
  BY DEF PairIsNew, IsAnswered
<1>7. NewPairsAreNew'
  BY <1>5, <1>6 DEF StoreInv, NewPairsAreNew
<1>8. OrdersAreLinked'
  <2> SUFFICES ASSUME NEW o \in Orders \ cut, pairs[o] > 0
               PROVE  Linked(o)'
    BY DEF OrdersAreLinked
  <2>1. Linked(o)
    BY DEF StoreInv, OrdersAreLinked
  <2>2. \A s : SentIsLinked(s) => SentIsLinked(s)'
    BY DEF SentIsLinked, IsAnswered, BeginKey
  <2> QED
    BY <2>1, <2>2 DEF Linked, StoredAnswer, BeginKey, FailureKey, ConfirmKey
<1> QED
  BY <1>1, <1>2, <1>4, <1>7, <1>8 DEF StoreInv

\* An order is chosen, or meets a deadline.
LEMMA OrderStep ==
  ASSUME StoreInv, StoreTypes', UNCHANGED <<jar, receipts, pairs, cut, strays>>, NEW o \in Orders,
         \A b \in Orders \ {o} : orders'[b] = orders[b],
         orders'[o].attempt = orders[o].attempt \/ pairs[o] = 0,
         \A op, s : IsSent(op, s)' => IsSent(op, s),
         \/ /\ UNCHANGED tab /\ orders'[o].attempt = orders[o].attempt
            /\ \/ orders'[o].state = "ENDED" /\ orders[o].state # "NONE"
               \/ orders[o].state = "COMMITTING" /\ orders'[o].state = "RECONCILING"
         \/ /\ orders[o].state = "NONE" /\ orders'[o].state = "HELD"
            /\ \E t \in Tabs : /\ tab'[t].at = "selector" /\ tab'[t].order = o
                               /\ tab'[t].call = Idle
                               /\ \A u \in Tabs \ {t} : tab'[u] = tab[u]
  PROVE  StoreInv'
<1>1. OneReceipt' /\ PairsAreDrawn'
  BY DEF StoreInv, OneReceipt, PairsAreDrawn, Drawn
<1>1a. AttemptsAreStored'
  <2>1. \A s : Begins(s) => Begins(s)'
    BY DEF Begins, StoredAnswer, BeginKey
  <2>2. Begins(jar)'
    BY <2>1 DEF StoreInv, AttemptsAreStored, Begins, StoredAnswer, BeginKey
  <2> QED
    BY <2>1, <2>2 DEF StoreInv, AttemptsAreStored, IsAnswered
<1>0. orders[o].state = "NONE" => pairs[o] = 0
  BY DEF StoreInv, StoreTypes, NewOrders
<1>2. NewOrders'
  BY <1>0 DEF StoreInv, NewOrders
<1>2a. AttemptsGrow'
  <2>1. \A a \in receipts : a.key[2] \in Orders /\ pairs[a.key[2]] > 0
    BY DEF StoreInv, StoreTypes, PairsAreDrawn, Receipt
  <2>2. \A a \in receipts : orders'[a.key[2]].attempt = orders[a.key[2]].attempt
    <3> SUFFICES ASSUME NEW a \in receipts
                 PROVE  orders'[a.key[2]].attempt = orders[a.key[2]].attempt
      OBVIOUS
    <3>1. a.key[2] \in Orders /\ pairs[a.key[2]] # 0
      BY <2>1
    <3>2. CASE a.key[2] = o
      BY <3>1, <3>2
    <3>3. CASE a.key[2] # o
      BY <3>1, <3>3
    <3> QED
      BY <3>2, <3>3
  <2>3. \A b \in Orders :
          orders'[b].state \in {"COMMITTING", "RECONCILING", "PAYMENT_RETRY", "CONFIRMED"}
            => orders'[b].attempt > 0
    <3>1. CASE orders'[o].state \in {"HELD", "ENDED"}
      BY <3>1 DEF StoreInv, AttemptsGrow
    <3>2. CASE orders[o].state = "COMMITTING" /\ orders'[o].attempt = orders[o].attempt
      BY <3>2 DEF StoreInv, AttemptsGrow
    <3> QED
      BY <3>1, <3>2
  <2> QED
    BY <2>2, <2>3 DEF StoreInv, AttemptsGrow
<1>3. \A t \in Tabs : Answered(tab'[t].call) => tab'[t] = tab[t]
  BY DEF Answered, Idle
<1>4. CookiesAreAnswers'
  <2> SUFFICES ASSUME NEW t \in Tabs, Answered(tab'[t].call)
               PROVE  CookieIsAnswer(tab[t].call)'
    BY DEF CookiesAreAnswers, Answered
  <2>1. tab'[t] = tab[t] /\ CookieIsAnswer(tab[t].call)
    BY <1>3 DEF StoreInv, CookiesAreAnswers
  <2> QED
    BY <2>1 DEF CookieIsAnswer, StoredAnswer, BeginKey, FailureKey
<1>5. \A t \in Tabs : Bringing(t)' => Bringing(t) /\ tab'[t] = tab[t]
  BY <1>3 DEF Bringing, Answered
<1>6. \A b, p : PairIsNew(b, p) => PairIsNew(b, p)'
  BY DEF PairIsNew, IsAnswered
<1>7. NewPairsAreNew'
  BY <1>5, <1>6 DEF StoreInv, NewPairsAreNew
<1>8. OrdersAreLinked'
  <2> SUFFICES ASSUME NEW b \in Orders \ cut, pairs[b] > 0
               PROVE  Linked(b)'
    BY DEF OrdersAreLinked
  <2>1. Linked(b)
    BY DEF StoreInv, OrdersAreLinked
  <2>2. CASE b # o
    BY <2>1, <2>2 DEF Linked, SentIsLinked, StoredAnswer, IsAnswered, BeginKey, FailureKey, ConfirmKey
  <2>3. CASE b = o
    BY <1>0, <2>1, <2>3 DEF Linked, SentIsLinked, StoredAnswer, IsAnswered, BeginKey, FailureKey, ConfirmKey
  <2> QED
    BY <2>2, <2>3
<1> QED
  BY <1>1, <1>1a, <1>2, <1>2a, <1>4, <1>7, <1>8 DEF StoreInv

\* The cookie expires.
LEMMA ExpiryStep ==
  ASSUME StoreInv, SessionExpires
  PROVE  StoreInv'
<1>1. /\ jar' = NoSession /\ cut' = cut \cup {jar.order}
      /\ UNCHANGED <<connections, tab, strays, orders, receipts, pairs>>
  BY DEF SessionExpires
<1>2. StoreTypes'
  BY <1>1, StorefrontAssumption DEF StoreInv, StoreTypes, NoSession, Session
<1>3. \A op, s : IsSent(op, s)' <=> IsSent(op, s)
  BY <1>1 DEF IsSent
<1>4. OneReceipt' /\ AttemptsGrow' /\ NewOrders'
  BY <1>1 DEF StoreInv, OneReceipt, AttemptsGrow, NewOrders
<1>4a. PairsAreDrawn'
  BY <1>1, <1>3 DEF StoreInv, PairsAreDrawn, Drawn
<1>5. AttemptsAreStored'
  <2>1. \A s : Begins(s) => Begins(s)'
    BY <1>1 DEF Begins, StoredAnswer, BeginKey
  <2>2. Begins(jar)'
    BY <1>1 DEF Begins, NoSession
  <2>3. \A k : IsAnswered(k)' <=> IsAnswered(k)
    BY <1>1 DEF IsAnswered
  <2> QED
    BY <1>1, <1>3, <2>1, <2>2, <2>3 DEF StoreInv, AttemptsAreStored
<1>6. CookiesAreAnswers'
  BY <1>1 DEF StoreInv, CookiesAreAnswers, CookieIsAnswer, StoredAnswer, BeginKey, FailureKey, Answered
<1>7. NewPairsAreNew'
  <2>1. \A t \in Tabs : Bringing(t)' => Bringing(t)
    BY <1>1 DEF Bringing, Answered
  <2>2. ASSUME NEW o \in Orders, NEW p, PairIsNew(o, p)
        PROVE  PairIsNew(o, p)'
    BY <1>1, <1>3, <2>2 DEF PairIsNew, IsAnswered, NoSession, Orders
  <2>3. \A t \in Tabs : Bringing(t) => tab[t].call.sent.order \in Orders
    <3> SUFFICES ASSUME NEW t \in Tabs, Bringing(t)
                 PROVE  tab[t].call.sent.order \in Orders
      OBVIOUS
    <3>1. IsSent("fail", tab[t].call.sent)
      BY DEF Bringing, IsSent, Ops
    <3> QED
      BY <3>1 DEF StoreInv, PairsAreDrawn, Drawn
  <2> QED
    BY <1>1, <2>1, <2>2, <2>3 DEF StoreInv, NewPairsAreNew
<1>8. OrdersAreLinked'
  BY <1>1 DEF StoreInv, OrdersAreLinked, Linked
<1> QED
  BY <1>2, <1>4, <1>4a, <1>5, <1>6, <1>7, <1>8 DEF StoreInv

\* Where a tab may be.
LEMMA TabTypes ==
  ASSUME NEW page \in {"store", "checkout", "ticket"}, NEW s \in Session
  PROVE  /\ Shown(page, s) \in Tab /\ StorePage \in Tab
         /\ Shown(page, s).at # "selector" /\ Shown(page, s).call = Idle
         /\ StorePage.at # "selector" /\ StorePage.call = Idle
BY StorefrontAssumption
DEF Shown, TicketPage, CheckoutPage, StorePage, TicketOrder, At, Tab, Session

\* A request that a tab gives up may still be served.
LEMMA GivenUp ==
  ASSUME StoreInv, NEW t \in Tabs, Forget(tab[t].call), tab'[t].call = Idle,
         \A u \in Tabs \ {t} : tab'[u] = tab[u]
  PROVE  /\ strays' \subseteq [op : Ops, sent : Session]
         /\ \A op, s : IsSent(op, s)' => IsSent(op, s)
<1> DEFINE c == tab[t].call
<1>1. c = Idle \/ c \in Call
  BY DEF StoreInv, StoreTypes, Tab
<1>2. \/ strays' = strays
      \/ c \in Call /\ strays' = strays \cup {[op |-> c.op, sent |-> c.sent]}
  BY <1>1 DEF Forget
<1>3. strays' \subseteq [op : Ops, sent : Session]
  BY <1>2 DEF StoreInv, StoreTypes, Call
<1>4. ASSUME NEW op, NEW s, IsSent(op, s)'
      PROVE  IsSent(op, s)
  <2>1. CASE \E u \in Tabs : tab'[u].call.op = op /\ tab'[u].call.sent = s
    <3>1. PICK u \in Tabs : tab'[u].call.op = op /\ tab'[u].call.sent = s
      BY <2>1
    <3>2. u # t
      BY <1>4, <3>1 DEF IsSent, Idle, Ops
    <3> QED
      BY <1>4, <3>1, <3>2 DEF IsSent
  <2>2. CASE [op |-> op, sent |-> s] \in strays'
    <3>1. CASE [op |-> op, sent |-> s] \in strays
      BY <1>4, <3>1 DEF IsSent
    <3>2. CASE [op |-> op, sent |-> s] = [op |-> c.op, sent |-> c.sent]
      BY <1>4, <3>2 DEF IsSent
    <3> QED
      BY <1>2, <2>2, <3>1, <3>2
  <2> QED
    BY <1>4, <2>1, <2>2 DEF IsSent
<1> QED
  BY <1>3, <1>4

\* A link, an address or a reload.
LEMMA VisitStep ==
  ASSUME StoreInv, NEW t \in Tabs, NEW page \in {"store", "checkout", "ticket"}, Visit(t, page)
  PROVE  StoreInv'
<1>1. /\ UNCHANGED <<connections, jar, orders, receipts, pairs, cut>>
      /\ tab' = [tab EXCEPT ![t] = Shown(page, jar)] /\ Forget(tab[t].call)
      /\ tab \in [Tabs -> Tab] /\ jar \in Session
  BY DEF Visit, StoreInv, StoreTypes
<1>2. /\ Shown(page, jar) \in Tab
      /\ tab'[t].at # "selector" /\ tab'[t].call = Idle
      /\ \A u \in Tabs \ {t} : tab'[u] = tab[u]
  BY <1>1, TabTypes
<1>3. /\ strays' \subseteq [op : Ops, sent : Session]
      /\ \A op, s : IsSent(op, s)' => IsSent(op, s)
  BY <1>1, <1>2, GivenUp
<1>4. StoreTypes'
  BY <1>1, <1>2, <1>3 DEF StoreInv, StoreTypes
<1> QED
  BY <1>1, <1>2, <1>3, <1>4, PagesStep

\* The network fails: the tab is free again.
LEMMA AnswerFailsStep ==
  ASSUME StoreInv, NEW t \in Tabs, AnswerFails(t)
  PROVE  StoreInv'
<1>1. /\ UNCHANGED <<connections, jar, orders, receipts, pairs, cut>>
      /\ tab' = [tab EXCEPT ![t].call = Idle] /\ Forget(tab[t].call)
      /\ tab \in [Tabs -> Tab] /\ tab[t].at # "selector"
  BY DEF AnswerFails, StoreInv, StoreTypes, NewOrders
<1>2. /\ [tab[t] EXCEPT !.call = Idle] \in Tab
      /\ tab'[t].at # "selector" /\ tab'[t].call = Idle
      /\ \A u \in Tabs \ {t} : tab'[u] = tab[u]
  BY <1>1 DEF Tab
<1>3. /\ strays' \subseteq [op : Ops, sent : Session]
      /\ \A op, s : IsSent(op, s)' => IsSent(op, s)
  BY <1>1, <1>2, GivenUp
<1>4. StoreTypes'
  BY <1>1, <1>2, <1>3 DEF StoreInv, StoreTypes
<1> QED
  BY <1>1, <1>2, <1>3, <1>4, PagesStep

\* The saved Partners change, or nothing does.
LEMMA ConnectionsStep ==
  ASSUME StoreInv, UNCHANGED <<jar, tab, strays, orders, receipts, pairs, cut>>
  PROVE  StoreInv'
<1>1. StoreTypes'
  BY DEF StoreInv, StoreTypes
<1>2. \A op, s : IsSent(op, s)' => IsSent(op, s)
  BY DEF IsSent
<1> QED
  BY <1>1, <1>2, PagesStep

\* A tab chooses, and has the selection to itself until it is handed over.
LEMMA ChooseStep ==
  ASSUME StoreInv, NEW t \in Tabs, NEW o \in Orders, Choose(t, o)
  PROVE  StoreInv'
<1>1. /\ UNCHANGED <<connections, jar, strays, receipts, pairs, cut, troubles>>
      /\ orders' = [orders EXCEPT ![o] = NewOrder]
      /\ tab' = [tab EXCEPT ![t] = At("selector", o)]
      /\ tab \in [Tabs -> Tab] /\ tab[t].at = "store"
  BY DEF Choose, StoreInv, StoreTypes
<1>2. /\ orders[o].state = "NONE" /\ pairs[o] = 0
      /\ orders'[o] = NewOrder /\ DOMAIN orders' = Orders
      /\ \A b \in Orders \ {o} : orders'[b] = orders[b]
  <2>1. o \notin Begun /\ DOMAIN orders = Orders
    BY DEF Choose, StoreInv, StoreTypes, Orders
  <2> QED
    BY <1>1, <2>1 DEF Begun, StoreInv, NewOrders, StoreTypes
<1>3. /\ At("selector", o) \in Tab /\ At("selector", o).at = "selector"
      /\ At("selector", o).order = o /\ At("selector", o).call = Idle
  BY StorefrontAssumption DEF At, Tab, Orders
<1>4. /\ tab'[t].at = "selector" /\ tab'[t].order = o /\ tab'[t].call = Idle
      /\ \A u \in Tabs \ {t} : tab'[u] = tab[u]
  BY <1>1, <1>3
<1>5. StoreTypes'
  BY <1>1, <1>2, <1>3 DEF StoreInv, StoreTypes, NewOrder, OrderStates
<1>6. \A op, s : IsSent(op, s)' => IsSent(op, s)
  BY <1>1, <1>4 DEF IsSent, Idle, Ops
<1>7. orders'[o].state = "HELD"
  BY <1>2 DEF NewOrder
<1> QED
  BY <1>1, <1>2, <1>4, <1>5, <1>6, <1>7, OrderStep

\* A deadline ends an order, or leaves its payment to be reconciled.
LEMMA DeadlineStep ==
  ASSUME StoreInv, NEW o \in Orders, DeadlinePasses(o)
  PROVE  StoreInv'
<1>1. PICK next \in {"RECONCILING", "ENDED"} :
        /\ orders[o].state \in (IF next = "RECONCILING" THEN {"COMMITTING"}
                                ELSE {"HELD", "PAYMENT_RETRY", "RECONCILING"})
        /\ orders' = [orders EXCEPT ![o].state = next]
  BY DEF DeadlinePasses
<1>2. UNCHANGED <<connections, jar, tab, strays, receipts, pairs, cut, troubles>>
  BY DEF DeadlinePasses
<1>3. /\ orders' = [b \in Orders |-> orders'[b]]
      /\ \A b \in Orders \ {o} : orders'[b] = orders[b]
      /\ orders'[o] = [orders[o] EXCEPT !.state = next]
  BY <1>1 DEF StoreInv, StoreTypes
<1>4. /\ orders[o] = [partner |-> orders[o].partner, state |-> orders[o].state,
                      attempt |-> orders[o].attempt]
      /\ orders[o].attempt \in Nat
  BY DEF StoreInv, StoreTypes
<1>5. orders'[o] = [partner |-> orders[o].partner, state |-> next, attempt |-> orders[o].attempt]
  BY <1>3, <1>4
<1>6. StoreTypes'
  BY <1>2, <1>3, <1>4, <1>5 DEF StoreInv, StoreTypes, OrderStates
<1>7. \A op, s : IsSent(op, s)' => IsSent(op, s)
  BY <1>2 DEF IsSent
<1> QED
  BY <1>1, <1>2, <1>3, <1>5, <1>6, <1>7, OrderStep

\* The hold comes back from the selector: a new session.
LEMMA ReturnStep ==
  ASSUME StoreInv, NEW t \in Tabs, CheckoutReturn(t)
  PROVE  StoreInv'
<1> DEFINE o == tab[t].order
           accepted == HasConnection /\ ActivePartner = orders[o].partner
<1>1. /\ tab[t].at = "selector" /\ o \in Orders /\ pairs[o] = 0 /\ orders[o].state # "NONE"
      /\ tab[t].call = Idle /\ tab \in [Tabs -> Tab] /\ jar \in Session
      /\ UNCHANGED <<connections, strays, orders, receipts, troubles>>
  BY DEF CheckoutReturn, StoreInv, StoreTypes, NewOrders
<1>2. CASE ~accepted
  <2>1. tab' = [tab EXCEPT ![t] = StorePage] /\ UNCHANGED <<jar, pairs, cut>>
    BY <1>2 DEF CheckoutReturn
  <2>2. StorePage \in Tab /\ StorePage.at # "selector" /\ StorePage.call = Idle
    BY <1>1, TabTypes
  <2>3. tab'[t] = StorePage /\ \A u \in Tabs \ {t} : tab'[u] = tab[u]
    BY <1>1, <2>1
  <2>4. StoreTypes'
    BY <1>1, <2>1, <2>2 DEF StoreInv, StoreTypes
  <2>5. \A op, s : IsSent(op, s)' => IsSent(op, s)
    BY <1>1, <2>2, <2>3 DEF IsSent, Idle, Ops
  <2> QED
    BY <1>1, <2>1, <2>2, <2>3, <2>4, <2>5, PagesStep
<1>3. CASE accepted
  <2>1. /\ jar' = [NoSession EXCEPT !.order = o, !.pair = 1]
        /\ pairs' = [pairs EXCEPT ![o] = 1]
        /\ cut' = cut \cup ({jar.order} \ {0})
        /\ tab' = [tab EXCEPT ![t] = Shown("checkout", jar')]
    BY <1>3 DEF CheckoutReturn
  <2>2. /\ jar' = [order |-> o, pair |-> 1, attempt |-> 0, confirmed |-> FALSE]
        /\ jar' \in Session /\ jar' # NoSession
    <3>1. jar' = [order |-> o, pair |-> 1, attempt |-> 0, confirmed |-> FALSE]
      BY <2>1 DEF NoSession
    <3>2. o \in 0 .. MaxOrders /\ o # 0
      BY <1>1, StorefrontAssumption DEF Orders
    <3> HIDE DEF o
    <3> QED
      BY <3>1, <3>2 DEF NoSession, Session
  <2>3. /\ Shown("checkout", jar') \in Tab /\ tab'[t] = Shown("checkout", jar')
        /\ tab'[t].at # "selector" /\ tab'[t].call = Idle
        /\ \A u \in Tabs \ {t} : tab'[u] = tab[u]
    BY <1>1, <2>1, <2>2, TabTypes
  <2>4. /\ pairs \in [Orders -> Nat] /\ pairs' \in [Orders -> Nat] /\ pairs'[o] = 1
        /\ \A b \in Orders \ {o} : pairs'[b] = pairs[b]
    BY <1>1, <2>1 DEF StoreInv, StoreTypes
  <2>5. StoreTypes'
    BY <1>1, <2>1, <2>2, <2>3, <2>4 DEF StoreInv, StoreTypes
  <2>6. \A op, s : IsSent(op, s)' => IsSent(op, s)
    BY <1>1, <2>3 DEF IsSent, Idle, Ops
  <2>7. \A op, s : IsSent(op, s) => s.order # o /\ Drawn(s)
    BY <1>1, <2>4 DEF StoreInv, PairsAreDrawn, Drawn
  <2>8. \A a \in receipts : a.key[2] \in Orders /\ a.key[2] # o
    BY <1>1, <2>4 DEF StoreInv, StoreTypes, Receipt, PairsAreDrawn
  <2> HIDE DEF o
  <2>9. OneReceipt' /\ AttemptsGrow'
    BY <1>1 DEF StoreInv, OneReceipt, AttemptsGrow
  <2>9a. NewOrders'
    <3>1. \A u \in Tabs : tab'[u].at = "selector" => tab'[u] = tab[u] /\ tab[u].order # o
      BY <1>1, <2>3 DEF StoreInv, NewOrders, o
    <3>2. \A u \in Tabs : tab'[u].call # Idle => tab'[u] = tab[u]
      BY <2>3
    <3> QED
      BY <1>1, <2>4, <3>1, <3>2 DEF StoreInv, NewOrders
  <2>10. PairsAreDrawn'
    BY <1>1, <2>2, <2>4, <2>6, <2>7, <2>8 DEF StoreInv, PairsAreDrawn, Drawn
  <2>11. \A k : IsAnswered(k)' <=> IsAnswered(k)
    BY <1>1 DEF IsAnswered
  <2>12. AttemptsAreStored'
    <3>1. \A s : Begins(s) => Begins(s)'
      BY <1>1 DEF Begins, StoredAnswer, BeginKey
    <3>2. Begins(jar)'
      BY <2>2 DEF Begins
    <3> QED
      BY <1>1, <2>6, <2>11, <3>1, <3>2 DEF StoreInv, AttemptsAreStored
  <2>13. \A u \in Tabs : Answered(tab'[u].call) => tab'[u] = tab[u] /\ u # t
    BY <2>3 DEF Answered, Idle
  <2>14. CookiesAreAnswers'
    <3> SUFFICES ASSUME NEW u \in Tabs, Answered(tab'[u].call)
                 PROVE  CookieIsAnswer(tab[u].call)'
      BY DEF CookiesAreAnswers, Answered
    <3>1. tab'[u] = tab[u] /\ CookieIsAnswer(tab[u].call)
      BY <2>13 DEF StoreInv, CookiesAreAnswers
    <3>2. tab[u].call.op = "fail" => IsSent("fail", tab[u].call.sent)
      BY DEF IsSent, Ops
    <3> QED
      BY <1>1, <2>4, <2>7, <3>1, <3>2 DEF CookieIsAnswer, StoredAnswer, BeginKey, FailureKey, Drawn
  <2>15. NewPairsAreNew'
    <3>1. \A u \in Tabs : Bringing(u)' => Bringing(u) /\ tab'[u] = tab[u]
      BY <2>13 DEF Bringing, Answered
    <3>2. ASSUME NEW b, NEW p, b # o, PairIsNew(b, p)
          PROVE  PairIsNew(b, p)'
      BY <2>2, <2>6, <2>11, <3>2 DEF PairIsNew
    <3>3. \A u \in Tabs : Bringing(u) => tab[u].call.sent.order # o
      BY <2>7 DEF Bringing, IsSent, Ops
    <3> QED
      BY <3>1, <3>2, <3>3 DEF StoreInv, NewPairsAreNew
  <2>16. OrdersAreLinked'
    <3> SUFFICES ASSUME NEW b \in Orders \ cut', pairs'[b] > 0
                 PROVE  Linked(b)'
      BY DEF OrdersAreLinked
    <3>1. b = o
      <4> SUFFICES ASSUME b # o PROVE FALSE
        OBVIOUS
      <4>1. jar.order = b
        BY <2>1, <2>4 DEF StoreInv, OrdersAreLinked, Linked
      <4> QED
        BY <2>1, <4>1, StorefrontAssumption DEF Orders
    <3>2. orders'[o].state \in {"HELD", "ENDED"}
      BY <1>1 DEF StoreInv, NewOrders
    <3>3. \A op, s : ~(IsSent(op, s)' /\ s.order = o)
      BY <2>6, <2>7
    <3>4. ~\E a \in receipts' : a.key = FailureKey(jar')
      BY <1>1, <2>2, <2>8 DEF FailureKey
    <3> QED
      BY <2>2, <3>1, <3>2, <3>3, <3>4 DEF Linked, FailureKey
  <2> QED
    BY <2>5, <2>9, <2>9a, <2>10, <2>12, <2>14, <2>15, <2>16 DEF StoreInv
<1> QED
  BY <1>2, <1>3

\* A command is sent with the cookie as it is.
LEMMA BuyStep ==
  ASSUME StoreInv, NEW t \in Tabs, NEW op \in Ops, Buy(t, op)
  PROVE  StoreInv'
<1> DEFINE c == [op |-> op, sent |-> jar, cookie |-> NoSession]
<1>1. /\ tab[t].at = "checkout" /\ tab[t].call = Idle /\ tab' = [tab EXCEPT ![t].call = c]
      /\ UNCHANGED <<connections, jar, strays, orders, receipts, pairs, cut, troubles>>
      /\ jar # NoSession /\ (op # "begin" => jar.attempt # 0)
      /\ tab \in [Tabs -> Tab] /\ jar \in Session
  BY DEF Buy, Relayed, StoreInv, StoreTypes, Ops
<1>2. c \in Call /\ ~Answered(c) /\ c.op = op /\ c.sent = jar
  BY <1>1, StorefrontAssumption DEF Call, Answered, Session, NoSession
<1> HIDE DEF c
<1>3. /\ tab'[t].call = c /\ tab'[t].at = "checkout" /\ \A u \in Tabs \ {t} : tab'[u] = tab[u]
      /\ [tab[t] EXCEPT !.call = c] \in Tab
  BY <1>1, <1>2 DEF Tab
<1>4. StoreTypes'
  BY <1>1, <1>3 DEF StoreInv, StoreTypes
<1>5. \A q, s : IsSent(q, s)' => IsSent(q, s) \/ (q = op /\ s = jar)
  BY <1>1, <1>2, <1>3 DEF IsSent
<1>6. Drawn(jar) /\ Begins(jar)
  BY <1>1 DEF StoreInv, PairsAreDrawn, AttemptsAreStored
<1>7. OneReceipt' /\ NewOrders' /\ AttemptsGrow'
  BY <1>1, <1>2, <1>3 DEF StoreInv, OneReceipt, NewOrders, AttemptsGrow
<1>8. PairsAreDrawn'
  <2>1. \A s : Drawn(s)' <=> Drawn(s)
    BY <1>1 DEF Drawn
  <2> QED
    BY <1>1, <1>5, <1>6, <2>1 DEF StoreInv, PairsAreDrawn, Drawn
<1>9. \A k : IsAnswered(k)' <=> IsAnswered(k)
  BY <1>1 DEF IsAnswered
<1>10. AttemptsAreStored'
  <2>1. \A s : Begins(s) => Begins(s)'
    BY <1>1 DEF Begins, StoredAnswer, BeginKey
  <2>2. Begins(jar)'
    BY <1>1, <1>6 DEF Begins, StoredAnswer, BeginKey
  <2> QED
    BY <1>1, <1>5, <1>6, <1>9, <2>1, <2>2 DEF StoreInv, AttemptsAreStored
<1>11. \A u \in Tabs : Answered(tab'[u].call) => tab'[u] = tab[u]
  BY <1>2, <1>3
<1>12. CookiesAreAnswers'
  <2> SUFFICES ASSUME NEW u \in Tabs, Answered(tab'[u].call)
               PROVE  CookieIsAnswer(tab[u].call)'
    BY DEF CookiesAreAnswers, Answered
  <2>1. tab'[u] = tab[u] /\ CookieIsAnswer(tab[u].call)
    BY <1>11 DEF StoreInv, CookiesAreAnswers
  <2> QED
    BY <1>1, <2>1, CookieStays, FailingPair DEF StoreInv, StoreTypes
<1>13. NewPairsAreNew'
  <2>1. \A u \in Tabs : Bringing(u)' => Bringing(u) /\ tab'[u] = tab[u]
    BY <1>11 DEF Bringing, Answered
  <2>2. \A b, p : PairIsNew(b, p) => PairIsNew(b, p)'
    BY <1>1, <1>5, <1>9 DEF PairIsNew
  <2> QED
    BY <2>1, <2>2 DEF StoreInv, NewPairsAreNew
<1>14. OrdersAreLinked'
  <2> SUFFICES ASSUME NEW b \in Orders \ cut, pairs[b] > 0
               PROVE  Linked(b)'
    BY <1>1 DEF OrdersAreLinked
  <2>1. Linked(b)
    BY DEF StoreInv, OrdersAreLinked
  <2>2. \A s : SentIsLinked(s) => SentIsLinked(s)'
    BY <1>1, <1>9 DEF SentIsLinked, BeginKey
  <2>3. SentIsLinked(jar)'
    BY <1>1 DEF SentIsLinked
  <2>4. \A q, s : IsSent(q, s)' /\ s.order = b => SentIsLinked(s)'
    BY <1>1, <1>5, <2>1, <2>2, <2>3 DEF Linked
  <2> QED
    BY <1>1, <2>1, <2>4 DEF Linked, StoredAnswer, BeginKey, FailureKey, ConfirmKey
<1> QED
  BY <1>4, <1>7, <1>8, <1>10, <1>12, <1>13, <1>14 DEF StoreInv

-----------------------------------------------------------------------------
\* What the Partner API does with a command: it answers a key again, or answers it for
\* the first time.
Fresh(op, s, result) ==
  LET o == s.order IN
  /\ ~IsAnswered(KeyOfCommand(op, s))
  /\ receipts' = receipts \cup {[key |-> KeyOfCommand(op, s), body |-> BodyOf(op, s),
                                 result |-> result]}
  /\ \/ orders' = orders /\ result = 0
     \/ /\ op = "begin" /\ orders[o].state \in {"HELD", "PAYMENT_RETRY"}
        /\ orders'[o].state = "COMMITTING"
        /\ orders'[o].attempt = orders[o].attempt + 1 /\ result = orders[o].attempt + 1
     \/ /\ op \in {"fail", "confirm"} /\ orders[o].state \in {"COMMITTING", "RECONCILING"}
        /\ orders'[o].state = (IF op = "fail" THEN "PAYMENT_RETRY" ELSE "CONFIRMED")
        /\ orders'[o].attempt = orders[o].attempt /\ orders[o].attempt = s.attempt
        /\ result = s.attempt

Again(op, s, result) ==
  /\ UNCHANGED <<orders, receipts>>
  /\ IsAnswered(KeyOfCommand(op, s))
  /\ result # 0 => StoredAnswer(KeyOfCommand(op, s), BodyOf(op, s), result)

\* What the key and the body of a command are.
LEMMA KeyTypes ==
  ASSUME NEW op \in Ops, NEW s \in Session, s.order \in Orders
  PROVE  /\ KeyOfCommand(op, s) \in Ops \X Orders \X Nat /\ BodyOf(op, s) \in Nat
         /\ KeyOfCommand(op, s)[1] = op /\ KeyOfCommand(op, s)[2] = s.order
         /\ KeyOfCommand(op, s)[3] \in {0, s.pair}
         /\ op = "begin" => KeyOfCommand(op, s) = BeginKey(s)
         /\ op = "fail" => KeyOfCommand(op, s) = FailureKey(s)
         /\ op = "confirm" => KeyOfCommand(op, s) = ConfirmKey(s)
         /\ op = "begin" => BodyOf(op, s) = 0
         /\ op # "begin" => BodyOf(op, s) = s.attempt
BY DEF KeyOfCommand, BeginKey, FailureKey, ConfirmKey, BodyOf, Ops, Session

\* A command is answered again, or once for the first time, and touches its own order.
LEMMA Served ==
  ASSUME StoreInv, NEW op, NEW s, IsSent(op, s), NEW result \in Results,
         ServedCommand(op, s, result)
  PROVE  /\ op \in Ops /\ s \in Session /\ s.order \in Orders /\ Drawn(s) /\ result \in Nat
         /\ Fresh(op, s, result) \/ Again(op, s, result)
         /\ \A b \in Orders \ {s.order} : orders'[b] = orders[b]
         /\ receipts' \subseteq Receipt
         /\ orders' = [b \in Orders |-> orders'[b]]
         /\ \A b \in Orders :
              /\ orders'[b] = [partner |-> orders'[b].partner, state |-> orders'[b].state,
                               attempt |-> orders'[b].attempt]
              /\ orders'[b].state \in OrderStates /\ orders'[b].attempt \in Nat
<1> DEFINE o == s.order
           key == KeyOfCommand(op, s)
           body == BodyOf(op, s)
           order == orders[o]
<1>1. op \in Ops /\ s \in Session /\ o \in Orders /\ Drawn(s) /\ result \in Nat
  BY SentTypes DEF StoreInv, PairsAreDrawn, Drawn, Results, Refused
<1>2. /\ order = [partner |-> order.partner, state |-> order.state, attempt |-> order.attempt]
      /\ order.state \in OrderStates /\ order.attempt \in Nat
      /\ orders = [b \in Orders |-> orders[b]]
      /\ receipts \subseteq Receipt
  BY <1>1 DEF StoreInv, StoreTypes
<1>3. key \in Ops \X Orders \X Nat /\ body \in Nat
  BY <1>1, KeyTypes
<1>4. CASE \E a \in {a \in receipts : a.key = key} :
             /\ result = IF a.body = body THEN a.result ELSE Refused
             /\ UNCHANGED <<orders, receipts>>
  <2>1. PICK a \in receipts : /\ a.key = key
                              /\ result = IF a.body = body THEN a.result ELSE Refused
                              /\ UNCHANGED <<orders, receipts>>
    BY <1>4
  <2>2. a = [key |-> a.key, body |-> a.body, result |-> a.result]
    BY <1>2, <2>1 DEF Receipt
  <2>3. Again(op, s, result)
    BY <2>1, <2>2 DEF Again, IsAnswered, StoredAnswer, Refused
  <2> QED
    BY <1>1, <1>2, <2>1, <2>3 DEF StoreInv, StoreTypes
<1>5. CASE /\ {a \in receipts : a.key = key} = {}
           /\ \E effect \in Outcomes(op, order, s.attempt) :
                /\ orders' = [orders EXCEPT ![o] = effect[1]]
                /\ result = effect[2]
                /\ receipts' = receipts \cup {[key |-> key, body |-> body, result |-> result]}
  <2>1. PICK effect \in Outcomes(op, order, s.attempt) :
                /\ orders' = [orders EXCEPT ![o] = effect[1]]
                /\ result = effect[2]
                /\ receipts' = receipts \cup {[key |-> key, body |-> body, result |-> result]}
    BY <1>5
  <2> HIDE DEF order, key, body
  <2>2. \/ effect = <<order, 0>>
        \/ /\ op = "begin" /\ order.state \in {"HELD", "PAYMENT_RETRY"}
           /\ effect = <<[order EXCEPT !.state = "COMMITTING", !.attempt = @ + 1],
                          order.attempt + 1>>
        \/ /\ op = "fail" /\ order.attempt = s.attempt
           /\ order.state \in {"COMMITTING", "RECONCILING"}
           /\ effect = <<[order EXCEPT !.state = "PAYMENT_RETRY"], s.attempt>>
        \/ /\ op = "confirm" /\ order.attempt = s.attempt
           /\ order.state \in {"COMMITTING", "RECONCILING"}
           /\ effect = <<[order EXCEPT !.state = "CONFIRMED"], s.attempt>>
    <3>1. CASE op = "begin" /\ order.state \in {"HELD", "PAYMENT_RETRY"}
      BY <3>1 DEF Outcomes, Refused
    <3>2. CASE op = "fail" /\ order.attempt = s.attempt
               /\ order.state \in {"COMMITTING", "RECONCILING"}
      BY <3>2 DEF Outcomes, Refused
    <3>3. CASE op = "confirm" /\ order.attempt = s.attempt
               /\ order.state \in {"COMMITTING", "RECONCILING"}
      BY <3>3 DEF Outcomes, Refused
    <3>4. CASE /\ ~(op = "begin" /\ order.state \in {"HELD", "PAYMENT_RETRY"})
               /\ ~(op = "fail" /\ order.attempt = s.attempt
                    /\ order.state \in {"COMMITTING", "RECONCILING"})
               /\ ~(op = "confirm" /\ order.attempt = s.attempt
                    /\ order.state \in {"COMMITTING", "RECONCILING"})
      BY <3>4 DEF Outcomes, Refused
    <3> QED
      BY <3>1, <3>2, <3>3, <3>4
  <2>3. /\ orders' = [b \in Orders |-> orders'[b]] /\ orders'[o] = effect[1]
        /\ \A b \in Orders \ {o} : orders'[b] = orders[b]
    BY <1>1, <1>2, <2>1
  <2>4. /\ effect[1] = [partner |-> order.partner, state |-> effect[1].state,
                         attempt |-> effect[1].attempt]
        /\ effect[1].partner = order.partner
        /\ effect[1].state \in OrderStates /\ effect[1].attempt \in Nat
    <3> USE <1>2
    <3>1. CASE effect = <<order, 0>>
      BY <3>1, effect[1] = order
    <3>2. CASE op = "begin" /\ effect = <<[order EXCEPT !.state = "COMMITTING", !.attempt = @ + 1],
                                           order.attempt + 1>>
      <4>1. effect[1] = [order EXCEPT !.state = "COMMITTING", !.attempt = @ + 1]
        BY <3>2
      <4>2. effect[1] = [partner |-> order.partner, state |-> "COMMITTING",
                          attempt |-> order.attempt + 1]
        BY <4>1
      <4> QED
        BY <4>2 DEF OrderStates
    <3>3. CASE effect = <<[order EXCEPT !.state = "PAYMENT_RETRY"], s.attempt>>
      BY <3>3 DEF OrderStates
    <3>4. CASE effect = <<[order EXCEPT !.state = "CONFIRMED"], s.attempt>>
      BY <3>4 DEF OrderStates
    <3> QED
      BY <2>2, <3>1, <3>2, <3>3, <3>4
  <2>5. \A b \in Orders :
          /\ orders'[b] = [partner |-> orders'[b].partner, state |-> orders'[b].state,
                           attempt |-> orders'[b].attempt]
          /\ orders'[b].state \in OrderStates /\ orders'[b].attempt \in Nat
    BY <1>2, <2>3, <2>4 DEF StoreInv, StoreTypes, order
  <2>6. Fresh(op, s, result)
    <3>1. ~IsAnswered(key)
      BY <1>5 DEF IsAnswered
    <3>2. effect = <<order, 0>> => orders' = orders
      <4> SUFFICES ASSUME effect = <<order, 0>> PROVE orders' = orders
        OBVIOUS
      <4>1. orders' = [orders EXCEPT ![o] = orders[o]]
        BY <2>1 DEF order
      <4> QED
        BY <1>2, <4>1
    <3>3. \/ orders' = orders /\ result = 0
          \/ /\ op = "begin" /\ order.state \in {"HELD", "PAYMENT_RETRY"}
             /\ orders'[o].state = "COMMITTING"
             /\ orders'[o].attempt = order.attempt + 1 /\ result = order.attempt + 1
          \/ /\ op \in {"fail", "confirm"} /\ order.state \in {"COMMITTING", "RECONCILING"}
             /\ orders'[o].state = (IF op = "fail" THEN "PAYMENT_RETRY" ELSE "CONFIRMED")
             /\ orders'[o].attempt = order.attempt /\ order.attempt = s.attempt
             /\ result = s.attempt
      <4>1. orders'[o] = effect[1] /\ result = effect[2]
        BY <2>1, <2>3
      <4>2. CASE effect = <<order, 0>>
        BY <3>2, <4>1, <4>2
      <4>3. CASE /\ op = "begin" /\ order.state \in {"HELD", "PAYMENT_RETRY"}
                 /\ effect = <<[order EXCEPT !.state = "COMMITTING", !.attempt = @ + 1],
                                order.attempt + 1>>
        <5>1. /\ orders'[o] = [order EXCEPT !.state = "COMMITTING", !.attempt = @ + 1]
              /\ result = order.attempt + 1
          BY <4>1, <4>3
        <5>2. orders'[o] = [partner |-> order.partner, state |-> "COMMITTING",
                            attempt |-> order.attempt + 1]
          BY <1>2, <5>1
        <5> QED
          BY <4>3, <5>1, <5>2
      <4>4. ASSUME NEW state, effect = <<[order EXCEPT !.state = state], s.attempt>>
            PROVE  /\ orders'[o].state = state /\ orders'[o].attempt = order.attempt
                   /\ result = s.attempt
        <5>1. orders'[o] = [order EXCEPT !.state = state] /\ result = s.attempt
          BY <4>1, <4>4
        <5>2. orders'[o] = [partner |-> order.partner, state |-> state,
                            attempt |-> order.attempt]
          BY <1>2, <5>1
        <5> QED
          BY <5>1, <5>2
      <4> QED
        BY <2>2, <4>2, <4>3, <4>4
    <3> QED
      BY <2>1, <3>1, <3>3 DEF Fresh, key, body, order
  <2>7. receipts' \subseteq Receipt
    BY <1>1, <1>2, <1>3, <2>1 DEF Receipt, key, body
  <2> QED
    BY <1>1, <2>3, <2>5, <2>6, <2>7
<1> QED
  BY <1>4, <1>5 DEF ServedCommand

\* The parts of the invariant that a served command touches, whatever becomes of the tab
\* that waits for it.
LEMMA ServedStep ==
  ASSUME StoreInv, NEW op, NEW s, IsSent(op, s), NEW result \in Results,
         ServedCommand(op, s, result), UNCHANGED <<jar, cut>>,
         \A q, z : IsSent(q, z)' => IsSent(q, z),
         pairs' \in [Orders -> Nat], \A b \in Orders : pairs[b] <= pairs'[b],
         \A b \in Orders \ {s.order} : pairs'[b] = pairs[b]
  PROVE  /\ OneReceipt' /\ PairsAreDrawn' /\ AttemptsGrow' /\ AttemptsAreStored'
         /\ OrdersAreLinked'
         /\ receipts \subseteq receipts'
         /\ \A a \in receipts' : a \in receipts \/ a.key = KeyOfCommand(op, s)
         /\ result # 0 => StoredAnswer(KeyOfCommand(op, s), BodyOf(op, s), result)'
<1> DEFINE o == s.order
           key == KeyOfCommand(op, s)
           new == [key |-> key, body |-> BodyOf(op, s), result |-> result]
<1>1. /\ op \in Ops /\ s \in Session /\ o \in Orders /\ Drawn(s) /\ result \in Nat
      /\ Fresh(op, s, result) \/ Again(op, s, result)
      /\ \A b \in Orders \ {o} : orders'[b] = orders[b]
      /\ receipts \subseteq Receipt /\ receipts' \subseteq Receipt
      /\ pairs \in [Orders -> Nat]
  BY Served DEF StoreInv, StoreTypes
<1>2. /\ key[1] = op /\ key[2] = o /\ key[3] \in {0, s.pair}
      /\ op = "begin" => key = BeginKey(s) /\ BodyOf(op, s) = 0
      /\ op = "fail" => key = FailureKey(s)
      /\ op = "confirm" => key = ConfirmKey(s)
      /\ op # "begin" => BodyOf(op, s) = s.attempt
  BY <1>1, KeyTypes
<1>3. Begins(s) /\ (op # "begin" => s.attempt # 0)
  BY DEF StoreInv, AttemptsAreStored
<1>4. /\ receipts \subseteq receipts'
      /\ \A a \in receipts' : a \in receipts \/ a = new
      /\ result # 0 => StoredAnswer(key, BodyOf(op, s), result)'
  BY <1>1 DEF Fresh, Again, StoredAnswer
<1>5. new.key = key /\ new.body = BodyOf(op, s) /\ new.result = result
  OBVIOUS
<1>6. \A a \in receipts' : a \in receipts \/ (a = new /\ Fresh(op, s, result))
  BY <1>1, <1>4 DEF Again
<1> HIDE DEF new, key
<1>7. OneReceipt'
  BY <1>1, <1>4, <1>5, <1>6 DEF StoreInv, OneReceipt, Fresh, IsAnswered, key
<1>8. PairsAreDrawn'
  <2>1. \A z : Drawn(z) => Drawn(z)'
    BY <1>1 DEF Drawn
  <2>2. \A a \in receipts : a.key[2] \in Orders /\ a.key[3] \in Nat
    BY <1>1 DEF Receipt
  <2>3. new.key[3] <= pairs'[new.key[2]] /\ pairs'[new.key[2]] >= 1
    BY <1>1, <1>2, <1>5 DEF Drawn, Session
  <2>4. \A a \in receipts : a.key[3] <= pairs'[a.key[2]] /\ pairs'[a.key[2]] >= 1
    BY <1>1, <2>2 DEF StoreInv, PairsAreDrawn
  <2> QED
    BY <1>4, <2>1, <2>3, <2>4 DEF StoreInv, PairsAreDrawn
<1>9. \A k : IsAnswered(k) => IsAnswered(k)'
  BY <1>4 DEF IsAnswered
<1>10. \A z : Begins(z) => Begins(z)'
  BY <1>4 DEF Begins, StoredAnswer, BeginKey
<1>11. AttemptsGrow'
  <2>1. \A b \in Orders : orders[b].attempt \in Nat
    BY DEF StoreInv, StoreTypes
  <2>2. /\ orders'[o].attempt \in Nat /\ orders'[o].attempt >= orders[o].attempt
        /\ orders'[o].state \in {"COMMITTING", "RECONCILING", "PAYMENT_RETRY", "CONFIRMED"}
             => orders'[o].attempt > 0
    BY <1>1, <1>3, <2>1 DEF Fresh, Again, StoreInv, AttemptsGrow, Session
  <2>3. \A a \in receipts : a.key[2] \in Orders /\ a.result \in Nat
    BY <1>1 DEF Receipt
  <2>4. \A a \in receipts : a.key[1] = "begin" => a.result <= orders'[a.key[2]].attempt
    BY <1>1, <2>1, <2>2, <2>3 DEF StoreInv, AttemptsGrow
  <2>5. ASSUME Fresh(op, s, result), new.key[1] = "begin"
        PROVE  /\ new.result <= orders'[o].attempt
               /\ new.result # 0 => new.result > orders[o].attempt
    BY <1>1, <1>2, <1>5, <2>1, <2>2, <2>5, SMTT(30) DEF Fresh
  <2>6. \A a \in receipts' : a.key[1] = "begin" => a.result <= orders'[a.key[2]].attempt
    BY <1>2, <1>5, <1>6, <2>4, <2>5
  <2>7. ASSUME NEW a \in receipts', NEW b \in receipts', a.key[1] = "begin", b.key[1] = "begin",
               a.key[2] = b.key[2], a.result = b.result, a.result # 0
        PROVE  a = b
    <3>1. CASE a \in receipts /\ b \in receipts
      BY <2>7, <3>1 DEF StoreInv, AttemptsGrow
    <3>2. CASE a \notin receipts /\ b \notin receipts
      BY <1>6, <3>2
    <3>3. ASSUME NEW x \in receipts, x.key[1] = "begin", x.key[2] = o,
                 x.result = new.result, x.result # 0, Fresh(op, s, result),
                 new.key[1] = "begin"
          PROVE  FALSE
      <4>1. x.result <= orders[o].attempt
        BY <3>3 DEF StoreInv, AttemptsGrow
      <4> QED
        BY <1>1, <2>1, <2>3, <2>5, <3>3, <4>1
    <3> QED
      BY <1>2, <1>5, <1>6, <2>7, <3>1, <3>2, <3>3
  <2>8. \A b \in Orders :
          orders'[b].state \in {"COMMITTING", "RECONCILING", "PAYMENT_RETRY", "CONFIRMED"}
            => orders'[b].attempt > 0
    BY <1>1, <2>2 DEF StoreInv, AttemptsGrow
  <2> QED
    BY <2>6, <2>7, <2>8 DEF AttemptsGrow
<1>12. AttemptsAreStored'
  <2>1. Begins(jar)'
    BY <1>4 DEF StoreInv, AttemptsAreStored, Begins, StoredAnswer, BeginKey
  <2>2. op = "fail" => IsAnswered(<<"begin", o, s.pair>>)
    BY <1>3 DEF Begins, StoredAnswer, IsAnswered, BeginKey
  <2>3. op = "fail" => new.key[3] = s.pair
    BY <1>2, <1>5 DEF FailureKey
  <2>4. new.key[1] = "fail" => IsAnswered(<<"begin", new.key[2], new.key[3]>>)
    BY <1>2, <1>5, <2>2, <2>3
  <2>5. \A a \in receipts' : a.key[1] = "fail" => IsAnswered(<<"begin", a.key[2], a.key[3]>>)
    BY <1>6, <2>4 DEF StoreInv, AttemptsAreStored
  <2> QED
    BY <1>9, <1>10, <2>1, <2>5 DEF StoreInv, AttemptsAreStored
<1>13. OrdersAreLinked'
  <2> SUFFICES ASSUME NEW b \in Orders \ cut, pairs'[b] > 0
               PROVE  Linked(b)'
    BY DEF OrdersAreLinked
  <2>1. Linked(b)
    BY <1>1 DEF StoreInv, OrdersAreLinked, Drawn
  <2>2. \A z : SentIsLinked(z) => SentIsLinked(z)'
    BY <1>9 DEF SentIsLinked, BeginKey
  <2>3. /\ jar' = jar /\ jar.order = b
        /\ \A q, z : IsSent(q, z)' /\ z.order = b => SentIsLinked(z)'
    BY <2>1, <2>2 DEF Linked
  <2>4. \A k, n, v : StoredAnswer(k, n, v) => StoredAnswer(k, n, v)'
    BY <1>4 DEF StoredAnswer
  <2>5. FailureKey(jar)[1] = "fail" /\ FailureKey(jar)[2] = b
    BY <2>3 DEF FailureKey
  <2>6. CASE \/ b # o
             \/ orders'[b] = orders[b] /\ (op # "fail" \/ result = 0)
             \/ orders' = orders /\ receipts' = receipts
    <3>1. orders'[b] = orders[b]
      BY <1>1, <2>6
    <3>2. (\E a \in receipts' : a.key = FailureKey(jar) /\ a.result # 0) =>
            \E a \in receipts : a.key = FailureKey(jar) /\ a.result # 0
      BY <1>2, <1>4, <1>5, <2>5, <2>6
    <3> QED
      BY <2>1, <2>3, <2>4, <3>1, <3>2 DEF Linked, StoredAnswer, BeginKey, FailureKey, ConfirmKey
  <2>7. CASE b = o /\ Fresh(op, s, result) /\ op = "begin" /\ orders' # orders
    <3>1. s.pair = jar.pair
      BY <1>2, <2>1, <2>7 DEF Linked, SentIsLinked, Fresh, key
    <3>2. BeginKey(s) = BeginKey(jar)
      BY <2>3, <2>7, <3>1 DEF BeginKey
    <3>3. /\ orders'[o].state = "COMMITTING" /\ result = orders'[o].attempt /\ result # 0
      <4>1. orders[o].attempt \in Nat
        BY <1>1 DEF StoreInv, StoreTypes
      <4> QED
        BY <1>1, <2>7, <4>1 DEF Fresh
    <3>4. StoredAnswer(BeginKey(jar), 0, orders[o].attempt)'
      BY <1>2, <1>4, <2>7, <3>2, <3>3
    <3>5. ~\E a \in receipts' : a.key = FailureKey(jar) /\ a.result # 0
      <4> SUFFICES ASSUME NEW a \in receipts, a.key = FailureKey(jar) PROVE FALSE
        BY <1>2, <1>4, <1>5, <2>5, <2>7
      <4>1. IsAnswered(<<"begin", a.key[2], a.key[3]>>)
        BY <2>5 DEF StoreInv, AttemptsAreStored
      <4>2. <<"begin", a.key[2], a.key[3]>> = BeginKey(jar)
        BY DEF FailureKey, BeginKey
      <4>3. key = BeginKey(jar)
        BY <1>2, <2>7, <3>2
      <4> QED
        BY <2>7, <4>1, <4>2, <4>3 DEF Fresh, key
    <3> QED
      BY <2>3, <2>7, <3>3, <3>4, <3>5 DEF Linked, StoredAnswer, BeginKey, FailureKey
  <2>8. CASE b = o /\ Fresh(op, s, result) /\ op = "fail" /\ orders' # orders
    <3>1. orders'[o].state = "PAYMENT_RETRY"
      BY <2>8 DEF Fresh
    <3> QED
      BY <2>3, <2>8, <3>1 DEF Linked
  <2>9. CASE b = o /\ Fresh(op, s, result) /\ op = "confirm" /\ orders' # orders
    <3>1. /\ orders[o].state \in {"COMMITTING", "RECONCILING"} /\ orders'[o].state = "CONFIRMED"
          /\ orders'[o].attempt = s.attempt /\ orders[o].attempt = s.attempt
          /\ result = s.attempt /\ s.attempt # 0
      BY <1>3, <2>9 DEF Fresh
    <3>2. StoredAnswer(BeginKey(jar), 0, s.attempt)
      BY <2>1, <2>9, <3>1 DEF Linked
    <3>3. StoredAnswer(BeginKey(s), 0, s.attempt)
      BY <1>3, <3>1 DEF Begins
    <3>4. BeginKey(jar) = BeginKey(s)
      <4> DEFINE x == [key |-> BeginKey(jar), body |-> 0, result |-> s.attempt]
                 y == [key |-> BeginKey(s), body |-> 0, result |-> s.attempt]
      <4>1. x \in receipts /\ y \in receipts
        BY <3>2, <3>3 DEF StoredAnswer
      <4>2. /\ x.key[1] = "begin" /\ y.key[1] = "begin" /\ x.key[2] = y.key[2]
            /\ x.result = y.result /\ x.result # 0 /\ x.key = BeginKey(jar) /\ y.key = BeginKey(s)
        BY <2>3, <2>9, <3>1 DEF BeginKey
      <4> HIDE DEF x, y
      <4>3. x = y
        BY <4>1, <4>2 DEF StoreInv, AttemptsGrow
      <4> QED
        BY <4>2, <4>3
    <3>5. jar.attempt = s.attempt
      <4>1. s.pair = jar.pair
        BY <3>4 DEF BeginKey
      <4> QED
        BY <2>1, <2>9, <3>1, <4>1 DEF Linked, SentIsLinked
    <3>6. ConfirmKey(jar) = key
      <4>1. jar.order = s.order
        BY <2>3, <2>9
      <4> QED
        BY <1>2, <2>9, <4>1 DEF ConfirmKey
    <3>7. StoredAnswer(ConfirmKey(jar), jar.attempt, orders[o].attempt)'
      BY <1>2, <1>4, <2>9, <3>1, <3>5, <3>6
    <3>8. ~\E a \in receipts' : a.key = FailureKey(jar) /\ a.result # 0
      <4>1. ~\E a \in receipts : a.key = FailureKey(jar) /\ a.result # 0
        BY <2>1, <2>9, <3>1 DEF Linked
      <4> QED
        BY <1>2, <1>4, <1>5, <2>5, <2>9, <4>1
    <3>9. StoredAnswer(BeginKey(jar), 0, orders[o].attempt)'
      BY <2>4, <3>1, <3>2
    <3> QED
      BY <2>3, <2>9, <3>1, <3>5, <3>7, <3>8, <3>9
      DEF Linked, StoredAnswer, BeginKey, FailureKey, ConfirmKey
  <2>10. CASE Again(op, s, result)
    BY <2>6, <2>10 DEF Again
  <2>11. CASE b = o /\ Fresh(op, s, result)
    <3>1. orders' = orders => result = 0
      BY <2>11 DEF Fresh
    <3>2. op \in {"begin", "fail", "confirm"}
      BY <1>1 DEF Ops
    <3>3. CASE orders' = orders
      <4>1. orders'[b] = orders[b] /\ result = 0
        BY <3>1, <3>3
      <4> QED
        BY <2>6, <4>1
    <3>4. CASE orders' # orders
      BY <2>7, <2>8, <2>9, <2>11, <3>2, <3>4
    <3> QED
      BY <3>3, <3>4
  <2>12. CASE b # o
    BY <2>6, <2>12
  <2>13. Fresh(op, s, result) \/ Again(op, s, result)
    BY <1>1
  <2> QED
    BY <2>10, <2>11, <2>12, <2>13
<1> QED
  BY <1>4, <1>5, <1>7, <1>8, <1>11, <1>12, <1>13 DEF key

\* A pair that nobody has stays so: a command uses a pair that was sent.
LEMMA PairStaysNew ==
  ASSUME StoreInv, NEW op \in Ops, NEW s \in Session, s.order \in Orders, IsSent(op, s),
         UNCHANGED jar, \A q, z : IsSent(q, z)' => IsSent(q, z),
         \A a \in receipts' : a \in receipts \/ a.key = KeyOfCommand(op, s),
         NEW o, NEW p, PairIsNew(o, p)
  PROVE  PairIsNew(o, p)'
<1>1. ~(s.order = o /\ s.pair = p)
  BY DEF PairIsNew
<1>2. /\ op = "begin" => KeyOfCommand(op, s) = <<"begin", s.order, s.pair>>
      /\ op = "fail" => KeyOfCommand(op, s) = <<"fail", s.order, s.pair>>
      /\ op = "confirm" => KeyOfCommand(op, s) = <<"confirm", s.order, 0>>
  BY KeyTypes DEF BeginKey, FailureKey, ConfirmKey
<1>3. KeyOfCommand(op, s) # <<"begin", o, p>> /\ KeyOfCommand(op, s) # <<"fail", o, p>>
  BY <1>1, <1>2 DEF Ops
<1> QED
  BY <1>3 DEF PairIsNew, IsAnswered

\* A request that nobody waits for is served.
LEMMA RelayStrayStep ==
  ASSUME StoreInv, NEW c \in strays, RelayStray(c)
  PROVE  StoreInv'
<1>1. PICK result \in Results : ServedCommand(c.op, c.sent, result)
  BY DEF RelayStray
<1>2. /\ UNCHANGED <<connections, jar, tab, pairs, cut, troubles>>
      /\ strays' = strays \ {c}
  BY DEF RelayStray
<1>3. IsSent(c.op, c.sent)
  <2>1. c = [op |-> c.op, sent |-> c.sent] /\ c.op \in Ops
    BY DEF StoreInv, StoreTypes
  <2> QED
    BY <2>1 DEF IsSent
<1>4. \A q, z : IsSent(q, z)' => IsSent(q, z)
  BY <1>2 DEF IsSent
<1>5. pairs \in [Orders -> Nat]
  BY DEF StoreInv, StoreTypes
<1>6. /\ OneReceipt' /\ PairsAreDrawn' /\ AttemptsGrow' /\ AttemptsAreStored' /\ OrdersAreLinked'
      /\ receipts \subseteq receipts'
      /\ \A a \in receipts' : a \in receipts \/ a.key = KeyOfCommand(c.op, c.sent)
  <2>1. /\ pairs' \in [Orders -> Nat] /\ \A b \in Orders : pairs[b] <= pairs'[b]
        /\ \A b \in Orders \ {c.sent.order} : pairs'[b] = pairs[b]
    BY <1>2, <1>5
  <2> QED
    BY <1>1, <1>2, <1>3, <1>4, <2>1, ServedStep
<1>7. /\ c.op \in Ops /\ c.sent \in Session /\ c.sent.order \in Orders /\ Drawn(c.sent)
      /\ Fresh(c.op, c.sent, result) \/ Again(c.op, c.sent, result)
      /\ \A b \in Orders \ {c.sent.order} : orders'[b] = orders[b]
      /\ receipts' \subseteq Receipt
      /\ orders' = [b \in Orders |-> orders'[b]]
      /\ \A b \in Orders :
           /\ orders'[b] = [partner |-> orders'[b].partner, state |-> orders'[b].state,
                            attempt |-> orders'[b].attempt]
           /\ orders'[b].state \in OrderStates /\ orders'[b].attempt \in Nat
  BY <1>1, <1>3, Served
<1>8. StoreTypes'
  BY <1>2, <1>7 DEF StoreInv, StoreTypes
<1>9. \A b \in Orders : /\ orders'[b].state = "NONE" => orders[b].state = "NONE"
                        /\ b # c.sent.order => orders'[b] = orders[b]
  BY <1>7 DEF Fresh, Again
<1>10. NewOrders'
  <2>1. pairs[c.sent.order] > 0
    BY <1>5, <1>7 DEF Drawn
  <2> QED
    BY <1>2, <1>9, <2>1 DEF StoreInv, NewOrders
<1>11. CookiesAreAnswers'
  <2> SUFFICES ASSUME NEW t \in Tabs, Answered(tab[t].call)
               PROVE  CookieIsAnswer(tab[t].call)'
    BY <1>2 DEF CookiesAreAnswers, Answered
  <2>1. CookieIsAnswer(tab[t].call)
    BY DEF StoreInv, CookiesAreAnswers
  <2>2. tab[t].call.op = "fail" => pairs[tab[t].call.sent.order] \in Nat
    BY FailingPair DEF StoreInv
  <2> QED
    BY <1>2, <1>6, <2>1, <2>2, CookieStays
<1>12. \A o, p : PairIsNew(o, p) => PairIsNew(o, p)'
  BY <1>2, <1>3, <1>4, <1>6, <1>7, PairStaysNew
<1>13. NewPairsAreNew'
  BY <1>2, <1>12 DEF StoreInv, NewPairsAreNew, Bringing, Answered
<1> QED
  BY <1>6, <1>8, <1>10, <1>11, <1>13 DEF StoreInv

\* The request of a tab is served.
LEMMA RelayStep ==
  ASSUME StoreInv, NEW t \in Tabs, Relay(t)
  PROVE  StoreInv'
<1> DEFINE c == tab[t].call
<1>0. PICK op, s : op = c.op /\ s = c.sent
  OBVIOUS
<1> DEFINE o == s.order
<1>1. PICK result \in Results :
        /\ ServedCommand(op, s, result)
        /\ tab' = [tab EXCEPT ![t].call =
             IF result # Refused THEN [@ EXCEPT !.cookie = CookieAfter(op, s, result)] ELSE Idle]
        /\ pairs' = IF op = "fail" /\ result # Refused
                    THEN [pairs EXCEPT ![o] = @ + 1] ELSE pairs
  BY <1>0 DEF Relay
<1>2. UNCHANGED <<connections, jar, strays, cut, troubles>> /\ c # Idle /\ ~Answered(c)
  BY DEF Relay
<1>3. /\ c \in Call /\ tab \in [Tabs -> Tab] /\ pairs \in [Orders -> Nat]
      /\ tab[t] = [at |-> tab[t].at, order |-> tab[t].order, stage |-> tab[t].stage, call |-> c]
      /\ c = [op |-> op, sent |-> s, cookie |-> c.cookie]
  BY <1>0, <1>2 DEF StoreInv, StoreTypes, Tab, Call
<1>4. IsSent(op, s)
  BY <1>0, <1>3 DEF IsSent, Call
<1>5. /\ op \in Ops /\ s \in Session /\ o \in Orders /\ Drawn(s) /\ result \in Nat
      /\ Fresh(op, s, result) \/ Again(op, s, result)
      /\ \A b \in Orders \ {o} : orders'[b] = orders[b]
      /\ receipts' \subseteq Receipt
      /\ orders' = [b \in Orders |-> orders'[b]]
      /\ \A b \in Orders :
           /\ orders'[b] = [partner |-> orders'[b].partner, state |-> orders'[b].state,
                            attempt |-> orders'[b].attempt]
           /\ orders'[b].state \in OrderStates /\ orders'[b].attempt \in Nat
  BY <1>1, <1>4, Served
<1> DEFINE answer == CookieAfter(op, s, result)
<1>6. /\ \A u \in Tabs \ {t} : tab'[u] = tab[u]
      /\ tab' = [u \in Tabs |-> tab'[u]]
      /\ tab'[t] = [at |-> tab[t].at, order |-> tab[t].order, stage |-> tab[t].stage,
                    call |-> tab'[t].call]
      /\ result = 0 => tab'[t].call = Idle
      /\ result # 0 => tab'[t].call = [op |-> op, sent |-> s, cookie |-> answer]
  <2>1. CASE result = 0
    <3>1. tab' = [tab EXCEPT ![t].call = Idle]
      BY <1>1, <2>1 DEF Refused
    <3>2. tab'[t] = [tab[t] EXCEPT !.call = Idle]
      BY <1>3, <3>1
    <3>3. tab'[t] = [at |-> tab[t].at, order |-> tab[t].order, stage |-> tab[t].stage,
                     call |-> Idle]
      BY <1>3, <3>2
    <3> QED
      BY <1>3, <2>1, <3>1, <3>3
  <2>2. CASE result # 0
    <3>1. tab' = [tab EXCEPT ![t].call = [@ EXCEPT !.cookie = answer]]
      BY <1>1, <2>2 DEF Refused
    <3>2. tab'[t] = [tab[t] EXCEPT !.call = [c EXCEPT !.cookie = answer]]
      BY <1>3, <3>1
    <3>3. [c EXCEPT !.cookie = answer] = [op |-> op, sent |-> s, cookie |-> answer]
      BY <1>3
    <3>4. tab'[t] = [at |-> tab[t].at, order |-> tab[t].order, stage |-> tab[t].stage,
                     call |-> [op |-> op, sent |-> s, cookie |-> answer]]
      BY <1>3, <3>2, <3>3
    <3> QED
      BY <1>3, <2>2, <3>1, <3>4
  <2> QED
    BY <2>1, <2>2
<1>7. \A q, z : IsSent(q, z)' => IsSent(q, z)
  <2> SUFFICES ASSUME NEW q, NEW z, IsSent(q, z)' PROVE IsSent(q, z)
    OBVIOUS
  <2>1. q \in Ops /\ "none" \notin Ops
    BY DEF IsSent, Ops
  <2>2. tab'[t].call.op = q /\ tab'[t].call.sent = z => op = q /\ s = z
    BY <1>0, <1>6, <2>1 DEF Idle
  <2> QED
    BY <1>0, <1>2, <1>6, <2>2 DEF IsSent
<1>8. /\ pairs' \in [Orders -> Nat] /\ \A b \in Orders : pairs[b] <= pairs'[b]
      /\ \A b \in Orders \ {o} : pairs'[b] = pairs[b]
      /\ op = "fail" /\ result # 0 => pairs'[o] = pairs[o] + 1
      /\ pairs[o] >= 1
  BY <1>1, <1>3, <1>5 DEF Refused, Drawn
<1>9. /\ OneReceipt' /\ PairsAreDrawn' /\ AttemptsGrow' /\ AttemptsAreStored' /\ OrdersAreLinked'
      /\ receipts \subseteq receipts'
      /\ \A a \in receipts' : a \in receipts \/ a.key = KeyOfCommand(op, s)
      /\ result # 0 => StoredAnswer(KeyOfCommand(op, s), BodyOf(op, s), result)'
  BY <1>1, <1>2, <1>4, <1>7, <1>8, ServedStep
<1>10. /\ op = "begin" => answer = [s EXCEPT !.attempt = result]
       /\ op = "fail" => answer = [s EXCEPT !.attempt = 0, !.pair = pairs[o] + 1]
       /\ op = "confirm" => answer = [s EXCEPT !.confirmed = TRUE]
  BY DEF CookieAfter
<1>11. StoreTypes'
  <2>1. answer \in Session
    <3>1. pairs[o] + 1 \in Nat
      BY <1>3, <1>5
    <3>2. op = "begin" => answer \in Session
      BY <1>5, <1>10 DEF Session
    <3>3. op = "confirm" => answer \in Session
      BY <1>5, <1>10 DEF Session
    <3>4. ASSUME NEW n \in Nat, op = "fail", n = pairs[o] + 1 PROVE answer \in Session
      <4>1. answer = [s EXCEPT !.attempt = 0, !.pair = n]
        BY <1>10, <3>4
      <4> HIDE DEF answer
      <4>2. s = [order |-> s.order, pair |-> s.pair, attempt |-> s.attempt,
                 confirmed |-> s.confirmed]
        BY <1>5 DEF Session
      <4>3. answer = [order |-> s.order, pair |-> n, attempt |-> 0, confirmed |-> s.confirmed]
        BY <4>1, <4>2
      <4> QED
        BY <1>5, <3>4, <4>3 DEF Session
    <3> QED
      BY <1>5, <3>1, <3>2, <3>3, <3>4 DEF Ops
  <2>2. tab'[t].call \in Call \cup {Idle}
    BY <1>5, <1>6, <2>1 DEF Call
  <2>3. tab'[t] \in Tab
    BY <1>3, <1>6, <2>2 DEF Tab
  <2>4. tab' \in [Tabs -> Tab]
    BY <1>3, <1>6, <2>3
  <2> QED
    BY <1>2, <1>5, <1>8, <2>4 DEF StoreInv, StoreTypes
<1>12. NewOrders'
  <2>1. \A b \in Orders : /\ orders'[b].state = "NONE" => orders[b].state = "NONE"
                          /\ b # o => orders'[b] = orders[b]
    BY <1>5 DEF Fresh, Again
  <2>2. \A u \in Tabs : tab'[u].at = tab[u].at /\ tab'[u].order = tab[u].order
    BY <1>6
  <2>3. \A u \in Tabs : tab'[u].call # Idle => tab[u].call # Idle
    BY <1>2, <1>6
  <2>4. \A b \in Orders : pairs'[b] = 0 => b # o /\ pairs[b] = 0
    BY <1>3, <1>8
  <2>5. \A b \in Orders : pairs'[b] > 0 => pairs[b] > 0
    BY <1>3, <1>8
  <2>6. \A b \in Orders : pairs[b] = 0 => pairs'[b] = 0
    BY <1>8
  <2> QED
    BY <2>1, <2>2, <2>3, <2>4, <2>5, <2>6 DEF StoreInv, NewOrders
<1>13. CookiesAreAnswers'
  <2> SUFFICES ASSUME NEW u \in Tabs, Answered(tab'[u].call)
               PROVE  CookieIsAnswer(tab[u].call)'
    BY DEF CookiesAreAnswers, Answered
  <2>1. CASE u # t
    <3>1. tab'[u] = tab[u] /\ CookieIsAnswer(tab[u].call)
      BY <1>6, <2>1 DEF StoreInv, CookiesAreAnswers
    <3>2. tab[u].call.op = "fail" =>
            tab[u].call.sent.order \in Orders /\ pairs[tab[u].call.sent.order] \in Nat
      BY FailingPair DEF StoreInv, Drawn
    <3> QED
      BY <1>8, <1>9, <3>1, <3>2, CookieStays
  <2>2. CASE u = t
    <3>1. result # 0 /\ tab'[t].call = [op |-> op, sent |-> s, cookie |-> answer]
      BY <1>6, <2>2 DEF Answered, Idle
    <3>1a. /\ tab'[u].call.op = op /\ tab'[u].call.sent = s
           /\ tab'[u].call.cookie = answer
      BY <2>2, <3>1
    <3>2. StoredAnswer(KeyOfCommand(op, s), BodyOf(op, s), result)'
      BY <1>9, <3>1
    <3>3. CASE op = "begin"
      <4>1. answer = [s EXCEPT !.attempt = result] /\ answer.attempt = result
        BY <1>5, <1>10, <3>3 DEF Session
      <4>2. StoredAnswer(BeginKey(s), 0, result)'
        BY <1>5, <3>2, <3>3, KeyTypes
      <4> HIDE DEF answer
      <4> QED
        BY <3>1, <3>1a, <3>3, <4>1, <4>2 DEF CookieIsAnswer, StoredAnswer, BeginKey
    <3>4. CASE op = "confirm"
      BY <1>10, <2>2, <3>1, <3>4 DEF CookieIsAnswer
    <3>5. CASE op = "fail"
      <4>1. answer = [s EXCEPT !.attempt = 0, !.pair = pairs[o] + 1] /\ answer.pair = pairs[o] + 1
        BY <1>5, <1>10, <3>5 DEF Session
      <4>2. \E a \in receipts' : a.key = FailureKey(s) /\ a.result # 0
        BY <1>5, <3>1, <3>2, <3>5, KeyTypes DEF StoredAnswer
      <4>3. answer.pair \in 1 .. pairs'[o]
        BY <1>3, <1>5, <1>8, <3>1, <3>5, <4>1
      <4> HIDE DEF answer
      <4> QED
        BY <3>1a, <3>5, <4>1, <4>2, <4>3 DEF CookieIsAnswer, FailureKey
    <3> QED
      BY <1>5, <3>3, <3>4, <3>5 DEF Ops
  <2> QED
    BY <2>1, <2>2
<1>14. ASSUME NEW u \in Tabs \ {t}, Bringing(u)'
       PROVE  /\ Bringing(u) /\ tab'[u] = tab[u]
              /\ PairIsNew(tab[u].call.sent.order, tab[u].call.cookie.pair)'
  <2>1. Bringing(u) /\ tab'[u] = tab[u]
    BY <1>6, <1>14 DEF Bringing, Answered
  <2>2. PairIsNew(tab[u].call.sent.order, tab[u].call.cookie.pair)
    BY <2>1 DEF StoreInv, NewPairsAreNew
  <2>3. \A b, p : PairIsNew(b, p) => PairIsNew(b, p)'
    BY <1>2, <1>4, <1>5, <1>7, <1>9, PairStaysNew
  <2>4. PICK b, p : b = tab[u].call.sent.order /\ p = tab[u].call.cookie.pair
    OBVIOUS
  <2>5. PairIsNew(b, p)' /\ b = tab'[u].call.sent.order /\ p = tab'[u].call.cookie.pair
    BY <2>1, <2>2, <2>3, <2>4
  <2> QED
    BY <2>1, <2>5 DEF PairIsNew, IsAnswered
<1>15. ASSUME Bringing(t)'
       PROVE  /\ PairIsNew(tab[t].call.sent.order, tab[t].call.cookie.pair)'
              /\ tab'[t].call.sent = s /\ tab'[t].call.cookie.pair = pairs[o] + 1
  <2>1. result # 0 /\ op = "fail" /\ tab'[t].call = [op |-> op, sent |-> s, cookie |-> answer]
    BY <1>6, <1>15 DEF Bringing, Answered, Idle
  <2>2. answer.pair = pairs[o] + 1
    BY <1>5, <1>10, <2>1 DEF Session
  <2>3. \A q, z : IsSent(q, z)' /\ z.order = o => z.pair # pairs[o] + 1
    BY <1>3, <1>5, <1>7 DEF StoreInv, PairsAreDrawn, Drawn
  <2>4. ~(jar'.order = o /\ jar'.pair = pairs[o] + 1)
    <3>1. jar = NoSession \/ Drawn(jar)
      BY DEF StoreInv, PairsAreDrawn
    <3> QED
      BY <1>2, <1>3, <1>5, <3>1 DEF Drawn, NoSession, Orders
  <2>5. ASSUME NEW a \in receipts', a.key[2] = o, a.key[3] = pairs[o] + 1 PROVE FALSE
    <3>1. CASE a \in receipts
      BY <1>3, <1>5, <2>5, <3>1 DEF StoreInv, PairsAreDrawn
    <3>2. CASE a.key = KeyOfCommand(op, s)
      <4>1. a.key[3] \in {0, s.pair}
        BY <1>5, <3>2, KeyTypes
      <4> QED
        BY <1>3, <1>5, <2>5, <4>1 DEF Drawn
    <3> QED
      BY <1>9, <3>1, <3>2
  <2>6. \A q \in {"begin", "fail"} : ~\E a \in receipts' : a.key = <<q, o, pairs[o] + 1>>
    BY <2>5
  <2> QED
    BY <2>1, <2>2, <2>3, <2>4, <2>6 DEF PairIsNew, IsAnswered, IsSent
<1>16. ASSUME NEW u \in Tabs \ {t}, Bringing(u), tab[u].call.sent.order = o
       PROVE  tab[u].call.cookie.pair # pairs[o] + 1
  <2>1. CookieIsAnswer(tab[u].call)
    BY <1>16 DEF StoreInv, CookiesAreAnswers, Bringing
  <2> QED
    BY <1>3, <1>5, <1>16, <2>1 DEF CookieIsAnswer, Bringing
<1>17. NewPairsAreNew'
  <2>1. ASSUME NEW u \in Tabs, Bringing(u)'
        PROVE  PairIsNew(tab[u].call.sent.order, tab[u].call.cookie.pair)'
    <3>1. CASE u = t
      BY <1>15, <2>1, <3>1
    <3>2. CASE u # t
      BY <1>14, <2>1, <3>2
    <3> QED
      BY <3>1, <3>2
  <2>2. ASSUME NEW u \in Tabs, NEW w \in Tabs, Bringing(u)', Bringing(w)',
               tab'[u].call.sent.order = tab'[w].call.sent.order,
               tab'[u].call.cookie.pair = tab'[w].call.cookie.pair
        PROVE  u = w
    <3>1. CASE u # t /\ w # t
      BY <1>14, <2>2, <3>1 DEF StoreInv, NewPairsAreNew
    <3>2. CASE u = t /\ w # t
      BY <1>14, <1>15, <1>16, <2>2, <3>2
    <3>3. CASE u # t /\ w = t
      BY <1>14, <1>15, <1>16, <2>2, <3>3
    <3> QED
      BY <3>1, <3>2, <3>3
  <2> QED
    BY <2>1, <2>2 DEF NewPairsAreNew
<1> QED
  BY <1>9, <1>11, <1>12, <1>13, <1>17 DEF StoreInv

\* One key has one answer.
LEMMA SameAnswer ==
  ASSUME OneReceipt, NEW k, NEW body, NEW v, NEW w,
         StoredAnswer(k, body, v), StoredAnswer(k, body, w)
  PROVE  v = w
<1> DEFINE a == [key |-> k, body |-> body, result |-> v]
           b == [key |-> k, body |-> body, result |-> w]
<1>1. a \in receipts /\ b \in receipts
  BY DEF StoredAnswer
<1>2. a.key = b.key /\ a.result = v /\ b.result = w
  OBVIOUS
<1> HIDE DEF a, b
<1>3. a = b
  BY <1>1, <1>2 DEF OneReceipt
<1> QED
  BY <1>2, <1>3

\* The cookie of an order is replaced by the one an answer brings.
LEMMA LinkedAfter ==
  ASSUME StoreInv, UNCHANGED <<orders, receipts, pairs>>,
         \A op, s : IsSent(op, s)' => IsSent(op, s),
         NEW t \in Tabs, Answered(tab[t].call), jar' = tab[t].call.cookie,
         NEW b \in Orders \ cut, pairs[b] > 0, ~Overwrites(tab[t].call), jar # NoSession
  PROVE  Linked(b)'
<1> DEFINE c == tab[t].call
<1>1. Linked(b) /\ CookieIsAnswer(c) /\ OneReceipt
  BY DEF StoreInv, OrdersAreLinked, CookiesAreAnswers
<1>2. c \in Call /\ jar \in Session /\ c.sent \in Session
  BY DEF StoreInv, StoreTypes, Tab, Call, Answered, Idle
<1>3. IsSent(c.op, c.sent) /\ Begins(c.sent) /\ (c.op # "begin" => c.sent.attempt # 0)
  <2>1. IsSent(c.op, c.sent)
    BY <1>2 DEF IsSent, Call
  <2> QED
    BY <2>1 DEF StoreInv, AttemptsAreStored
<1>4. jar = c.sent \/ [c.cookie EXCEPT !.confirmed = jar.confirmed] = jar
  BY DEF Overwrites, Brought
<1>5. ASSUME jar'.order = jar.order, jar'.pair = jar.pair, jar'.attempt = jar.attempt
      PROVE  Linked(b)'
  BY <1>1, <1>5
  DEF Linked, SentIsLinked, StoredAnswer, IsAnswered, BeginKey, FailureKey, ConfirmKey
<1>6. CASE [c.cookie EXCEPT !.confirmed = jar.confirmed] = jar
  <2>1. c.cookie \in Session
    BY <1>2 DEF Call
  <2>2. jar'.order = jar.order /\ jar'.pair = jar.pair /\ jar'.attempt = jar.attempt
    BY <1>6, <2>1 DEF Session
  <2> QED
    BY <1>5, <2>2
<1>7. CASE jar = c.sent /\ c.op = "confirm"
  <2>1. jar' = [jar EXCEPT !.confirmed = TRUE]
    BY <1>1, <1>7 DEF CookieIsAnswer
  <2>2. jar'.order = jar.order /\ jar'.pair = jar.pair /\ jar'.attempt = jar.attempt
    BY <1>2, <2>1 DEF Session
  <2> QED
    BY <1>5, <2>2
<1>8. CASE jar = c.sent /\ c.op = "begin"
  <2>1. PICK r : r = c.cookie.attempt
    OBVIOUS
  <2>2. jar' = [jar EXCEPT !.attempt = r] /\ r # 0 /\ StoredAnswer(BeginKey(jar), 0, r)
    BY <1>1, <1>8, <2>1 DEF CookieIsAnswer
  <2>3. jar'.order = jar.order /\ jar'.pair = jar.pair /\ jar'.attempt = r /\ jar.order = b
    BY <1>1, <1>2, <2>2 DEF Session, Linked
  <2>4. ASSUME NEW op, NEW s, IsSent(op, s), s.order = b, s.pair = jar.pair, s.attempt # 0
        PROVE  s.attempt = r
    <3>1. StoredAnswer(BeginKey(s), 0, s.attempt)
      BY <2>4 DEF StoreInv, AttemptsAreStored, Begins
    <3>2. BeginKey(s) = BeginKey(jar)
      BY <2>3, <2>4 DEF BeginKey
    <3> QED
      BY <1>1, <2>2, <3>1, <3>2, SameAnswer
  <2>5. orders[b].state = "CONFIRMED" => orders[b].attempt = r /\ jar.attempt = r
    BY <1>1, <2>2, SameAnswer DEF Linked
  <2>6. \A op, s : IsSent(op, s) /\ s.order = b =>
          /\ s.pair = jar.pair \/ IsAnswered(BeginKey(s))
          /\ s.pair = jar.pair /\ s.attempt # 0 => s.attempt = r
    BY <1>1, <2>4 DEF Linked, SentIsLinked
  <2> QED
    BY <1>1, <2>3, <2>5, <2>6
    DEF Linked, SentIsLinked, StoredAnswer, IsAnswered, BeginKey, FailureKey, ConfirmKey
<1>9. CASE jar = c.sent /\ c.op = "fail"
  <2>1. PICK p : p = c.cookie.pair
    OBVIOUS
  <2>2. /\ jar' = [jar EXCEPT !.attempt = 0, !.pair = p]
        /\ \E a \in receipts : a.key = FailureKey(jar) /\ a.result # 0
    BY <1>1, <1>9, <2>1 DEF CookieIsAnswer
  <2>3. jar'.order = b /\ jar'.pair = p /\ jar'.attempt = 0 /\ jar.order = b
    BY <1>1, <1>2, <2>2 DEF Session, Linked
  <2>4. PairIsNew(b, p)
    BY <1>9, <2>1, <2>3 DEF StoreInv, NewPairsAreNew, Bringing
  <2>5. orders[b].state \in {"PAYMENT_RETRY", "ENDED"}
    BY <1>1, <2>2 DEF Linked
  <2>6. IsAnswered(BeginKey(jar))
    BY <1>3, <1>9 DEF Begins, StoredAnswer, IsAnswered
  <2>7. ASSUME NEW op, NEW s, IsSent(op, s), s.order = b
        PROVE  s.pair # p /\ IsAnswered(BeginKey(s))
    <3>1. s.pair = jar.pair => BeginKey(s) = BeginKey(jar)
      BY <2>3, <2>7 DEF BeginKey
    <3> QED
      BY <1>1, <2>4, <2>6, <2>7, <3>1 DEF Linked, SentIsLinked, PairIsNew
  <2>8. ~\E a \in receipts : a.key = <<"fail", b, p>>
    BY <2>4 DEF PairIsNew, IsAnswered
  <2> QED
    BY <2>3, <2>5, <2>7, <2>8
    DEF Linked, SentIsLinked, IsAnswered, BeginKey, FailureKey
<1> QED
  BY <1>2, <1>4, <1>6, <1>7, <1>8, <1>9 DEF Call, Ops

\* An answer arrives.
LEMMA ArriveStep ==
  ASSUME StoreInv, NEW t \in Tabs, AnswerArrives(t)
  PROVE  StoreInv'
<1> DEFINE c == tab[t].call
<1>1. /\ Answered(c) /\ jar' = Brought(c)
      /\ cut' = IF Overwrites(c) THEN cut \cup {jar.order} ELSE cut
      /\ UNCHANGED <<connections, strays, orders, receipts, pairs, troubles>>
      /\ tab' = [tab EXCEPT ![t] =
           CASE c.op = "begin" -> [tab[t] EXCEPT !.stage = "payment", !.call = Idle]
             [] c.op = "fail" -> [tab[t] EXCEPT !.stage = "review", !.call = Idle]
             [] c.op = "confirm" -> Shown("ticket", jar')]
  BY DEF AnswerArrives
<1>2. /\ c \in Call /\ tab \in [Tabs -> Tab] /\ jar \in Session /\ pairs \in [Orders -> Nat]
      /\ tab[t].at = "checkout" /\ CookieIsAnswer(c)
  BY <1>1 DEF StoreInv, StoreTypes, NewOrders, CookiesAreAnswers, Tab, Call, Answered, Idle
<1>3. jar' \in Session
  BY <1>1, <1>2 DEF Brought, Call
<1>4. /\ tab'[t] \in Tab /\ tab'[t].at # "selector" /\ tab'[t].call = Idle
      /\ \A u \in Tabs \ {t} : tab'[u] = tab[u]
      /\ tab' \in [Tabs -> Tab]
  <2>1. CASE c.op = "begin"
    <3>1. tab' = [tab EXCEPT ![t] = [tab[t] EXCEPT !.stage = "payment", !.call = Idle]]
      BY <1>1, <2>1
    <3> QED
      BY <1>2, <3>1 DEF Tab
  <2>2. CASE c.op = "fail"
    <3>1. tab' = [tab EXCEPT ![t] = [tab[t] EXCEPT !.stage = "review", !.call = Idle]]
      BY <1>1, <2>2
    <3> QED
      BY <1>2, <3>1 DEF Tab
  <2>3. CASE c.op = "confirm"
    <3>1. tab' = [tab EXCEPT ![t] = Shown("ticket", jar')]
      BY <1>1, <2>3
    <3>2. /\ Shown("ticket", jar') \in Tab /\ Shown("ticket", jar').at # "selector"
          /\ Shown("ticket", jar').call = Idle
      BY <1>3, TabTypes
    <3> QED
      BY <1>2, <3>1, <3>2
  <2> QED
    BY <1>2, <2>1, <2>2, <2>3 DEF Call, Ops
<1>5. StoreTypes'
  BY <1>1, <1>3, <1>4 DEF StoreInv, StoreTypes
<1>6. \A op, s : IsSent(op, s)' => IsSent(op, s)
  <2> SUFFICES ASSUME NEW op, NEW s, IsSent(op, s)' PROVE IsSent(op, s)
    OBVIOUS
  <2>1. op # "none" /\ tab'[t].call.op = "none" /\ strays' = strays
    <3>1. op # "none"
      BY DEF IsSent, Ops
    <3>2. tab'[t].call.op = "none"
      BY <1>4 DEF Idle
    <3> QED
      BY <1>1, <3>1, <3>2
  <2>2. \A u \in Tabs : tab'[u].call.op = op => tab'[u] = tab[u]
    BY <1>4, <2>1
  <2> QED
    BY <2>1, <2>2 DEF IsSent
<1>7. IsSent(c.op, c.sent) /\ Drawn(c.sent)
  <2>1. IsSent(c.op, c.sent)
    BY <1>2 DEF IsSent, Call
  <2> QED
    BY <2>1 DEF StoreInv, PairsAreDrawn
<1>8. CASE jar = NoSession
  <2>1. ~Overwrites(c)
    BY <1>8 DEF Overwrites, Brought, NoSession
  <2>2. jar' = jar /\ cut' = cut
    BY <1>1, <1>8, <2>1 DEF Brought
  <2> QED
    BY <1>1, <1>4, <1>5, <1>6, <2>2, PagesStep
<1>9. CASE jar # NoSession
  <2>0. receipts' = receipts /\ pairs' = pairs
    BY <1>1
  <2>1. jar' = c.cookie
    BY <1>1, <1>9 DEF Brought
  <2>2. PICK s : s = c.sent
    OBVIOUS
  <2>3. /\ jar'.order = s.order
        /\ c.op # "fail" => jar'.pair = s.pair
        /\ c.op = "fail" => jar'.pair \in 1 .. pairs[s.order] /\ jar'.attempt = 0
        /\ c.op = "begin" => StoredAnswer(BeginKey(s), 0, jar'.attempt)
        /\ c.op = "confirm" => jar'.attempt = s.attempt
    <3>1. s \in Session
      BY <1>2, <2>2 DEF Call
    <3>2. CASE c.op = "begin"
      <4>1. c.cookie = [s EXCEPT !.attempt = c.cookie.attempt]
            /\ StoredAnswer(BeginKey(s), 0, c.cookie.attempt)
        BY <1>2, <2>2, <3>2 DEF CookieIsAnswer
      <4> QED
        BY <2>1, <3>1, <3>2, <4>1 DEF Session
    <3>3. CASE c.op = "confirm"
      <4>1. c.cookie = [s EXCEPT !.confirmed = TRUE]
        BY <1>2, <2>2, <3>3 DEF CookieIsAnswer
      <4> QED
        BY <2>1, <3>1, <3>3, <4>1 DEF Session
    <3>4. CASE c.op = "fail"
      <4>1. c.cookie = [s EXCEPT !.attempt = 0, !.pair = c.cookie.pair]
            /\ c.cookie.pair \in 1 .. pairs[s.order]
        BY <1>2, <2>2, <3>4 DEF CookieIsAnswer
      <4> QED
        BY <2>1, <3>1, <3>4, <4>1 DEF Session
    <3> QED
      BY <1>2, <3>2, <3>3, <3>4 DEF Call, Ops
  <2>4. c.op \in Ops
    BY <1>2 DEF Call
  <2>5. OneReceipt' /\ AttemptsGrow'
    BY <1>1 DEF StoreInv, OneReceipt, AttemptsGrow
  <2>6. PairsAreDrawn'
    <3>1. Drawn(jar)'
      BY <1>1, <1>7, <2>2, <2>3, <2>4 DEF Drawn
    <3>2. \A z : Drawn(z) => Drawn(z)'
      BY <1>1 DEF Drawn
    <3> QED
      BY <1>1, <1>6, <3>1, <3>2 DEF StoreInv, PairsAreDrawn
  <2>7. AttemptsAreStored'
    <3>1. Begins(s)
      BY <1>7, <2>2 DEF StoreInv, AttemptsAreStored
    <3>2. c.op # "fail" => BeginKey(jar)' = BeginKey(s)
      BY <2>3 DEF BeginKey
    <3>3. Begins(jar)'
      BY <1>1, <2>3, <2>4, <3>1, <3>2 DEF Begins, StoredAnswer, Ops
    <3>4. \A z : Begins(z) => Begins(z)'
      BY <1>1 DEF Begins, StoredAnswer, BeginKey
    <3> QED
      <4>1. \A q, z : IsSent(q, z)' => Begins(z)' /\ (q # "begin" => z.attempt # 0)
        BY <1>6, <3>4 DEF StoreInv, AttemptsAreStored
      <4>2. \A a \in receipts' : a.key[1] = "fail"
              => IsAnswered(<<"begin", a.key[2], a.key[3]>>)'
        BY <2>0 DEF StoreInv, AttemptsAreStored, IsAnswered
      <4> QED
        BY <3>3, <4>1, <4>2 DEF AttemptsAreStored
  <2>8. NewOrders'
    BY <1>1, <1>4 DEF StoreInv, NewOrders
  <2>9. \A u \in Tabs : Answered(tab'[u].call) => u # t /\ tab'[u] = tab[u]
    BY <1>4 DEF Answered, Idle
  <2>10. CookiesAreAnswers'
    <3> SUFFICES ASSUME NEW u \in Tabs, Answered(tab'[u].call)
                 PROVE  CookieIsAnswer(tab[u].call)'
      BY DEF CookiesAreAnswers, Answered
    <3>1. tab'[u] = tab[u] /\ CookieIsAnswer(tab[u].call)
      BY <2>9 DEF StoreInv, CookiesAreAnswers
    <3> QED
      BY <2>0, <3>1 DEF CookieIsAnswer, StoredAnswer, BeginKey, FailureKey
  <2>11. NewPairsAreNew'
    <3>1. \A u \in Tabs : Bringing(u)' => Bringing(u) /\ u # t /\ tab'[u] = tab[u]
      BY <2>9 DEF Bringing, Answered
    <3>2. ASSUME NEW u \in Tabs, Bringing(u)'
          PROVE  PairIsNew(tab[u].call.sent.order, tab[u].call.cookie.pair)'
      <4>1. PICK o, p : o = tab[u].call.sent.order /\ p = tab[u].call.cookie.pair
        OBVIOUS
      <4>2. PairIsNew(o, p) /\ tab'[u] = tab[u]
        BY <3>1, <3>2, <4>1 DEF StoreInv, NewPairsAreNew
      <4>3. ~(jar'.order = o /\ jar'.pair = p)
        <5>1. CASE c.op # "fail"
          BY <1>7, <2>2, <2>3, <4>2, <5>1 DEF PairIsNew
        <5>2. CASE c.op = "fail"
          <6>1. Bringing(t) /\ Bringing(u) /\ u # t
            BY <1>1, <3>1, <3>2, <5>2 DEF Bringing
          <6> QED
            BY <2>1, <2>2, <2>3, <4>1, <6>1 DEF StoreInv, NewPairsAreNew
        <5> QED
          BY <5>1, <5>2
      <4>4. PairIsNew(o, p)'
        BY <1>1, <1>6, <4>2, <4>3 DEF PairIsNew, IsAnswered
      <4> QED
        BY <4>1, <4>2, <4>4
    <3> QED
      BY <3>1, <3>2 DEF StoreInv, NewPairsAreNew
  <2>12. OrdersAreLinked'
    <3> SUFFICES ASSUME NEW b \in Orders \ cut', pairs[b] > 0
                 PROVE  Linked(b)'
      BY <1>1 DEF OrdersAreLinked
    <3>1. b \in Orders \ cut
      BY <1>1
    <3>2. jar.order = b
      BY <3>1 DEF StoreInv, OrdersAreLinked, Linked
    <3>3. ~Overwrites(c)
      BY <1>1, <3>2
    <3> QED
      BY <1>1, <1>6, <1>9, <2>1, <3>1, <3>3, LinkedAfter
  <2> QED
    BY <1>5, <2>5, <2>6, <2>7, <2>8, <2>10, <2>11, <2>12 DEF StoreInv
<1> QED
  BY <1>8, <1>9

\* Every step preserves the invariant.
LEMMA StepStore == StoreInv /\ [StorefrontNext]_storeVars => StoreInv'
<1> SUFFICES ASSUME StoreInv, [StorefrontNext]_storeVars PROVE StoreInv'
  OBVIOUS
<1>1. CASE \E t \in Tabs : \E page \in {"store", "checkout", "ticket"} : Visit(t, page)
  BY <1>1, VisitStep
<1>2. ASSUME NEW t \in Tabs, Connect(t) \/ ChangeConnections(t)
      PROVE  StoreInv'
  <2>1. UNCHANGED <<jar, tab, strays, orders, receipts, pairs, cut>>
    BY <1>2 DEF Connect, ChangeConnections, FormSent
  <2> QED
    BY <2>1, ConnectionsStep
<1>3. CASE \E t \in Tabs : \E o \in Orders : Choose(t, o)
  BY <1>3, ChooseStep
<1>4. CASE \E t \in Tabs : CheckoutReturn(t)
  BY <1>4, ReturnStep
<1>5. CASE \E t \in Tabs : \E op \in {"begin", "confirm", "fail"} : Buy(t, op)
  BY <1>5, BuyStep DEF Ops
<1>6. CASE \E t \in Tabs : Relay(t) \/ AnswerArrives(t) \/ AnswerFails(t)
  BY <1>6, RelayStep, ArriveStep, AnswerFailsStep
<1>7. CASE \E c \in strays : RelayStray(c)
  BY <1>7, RelayStrayStep
<1>8. CASE \E o \in Orders : DeadlinePasses(o)
  BY <1>8, DeadlineStep
<1>9. CASE SessionExpires
  BY <1>9, ExpiryStep
<1>10. CASE UNCHANGED storeVars
  BY <1>10, ConnectionsStep DEF storeVars
<1> QED
  BY <1>1, <1>2, <1>3, <1>4, <1>5, <1>6, <1>7, <1>8, <1>9, <1>10 DEF StorefrontNext

\* The invariant holds of every behaviour of the storefront.
THEOREM StorefrontInvariant == StorefrontSpec => []StoreInv
BY InitStore, StepStore, PTL DEF StorefrontSpec

\* An order whose cookie was not replaced has one, which leads to its attempt.
LEMMA InvariantReaches == StoreInv => AttemptIsReachable /\ TicketIsReachable
<1> SUFFICES ASSUME StoreInv PROVE AttemptIsReachable /\ TicketIsReachable
  OBVIOUS
<1>1. ASSUME NEW o \in Orders \ cut,
             orders[o].state \in {"COMMITTING", "RECONCILING", "CONFIRMED"}
      PROVE  Linked(o)
  <2>1. pairs[o] > 0
    BY <1>1 DEF StoreInv, StoreTypes, NewOrders
  <2> QED
    BY <2>1 DEF StoreInv, OrdersAreLinked
<1>2. AttemptIsReachable
  BY <1>1 DEF AttemptIsReachable, Linked
<1>3. TicketIsReachable
  BY <1>1 DEF TicketIsReachable, Linked
<1> QED
  BY <1>2, <1>3

\* The attempt that protects an order is within reach of the browser, whatever answer of
\* begin or fail is lost, sent again or late, and whichever tab waits for it.
THEOREM EveryAttemptIsReachable == StorefrontSpec => []AttemptIsReachable
BY StorefrontInvariant, InvariantReaches, PTL

\* The cookie of a sold order brings its tickets again, under the key of the confirmation.
THEOREM EveryTicketIsReachable == StorefrontSpec => []TicketIsReachable
BY StorefrontInvariant, InvariantReaches, PTL
===============================================================================
