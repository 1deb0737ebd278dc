------------------------------ MODULE GateScanner ------------------------------
(***************************************************************************)
(* The gate scanner (apps/scanner-web): one device, the operators that sign *)
(* in on it, its camera, and the scans it sends to the admission service   *)
(* of module Admission, over a network that loses, delays and replaces     *)
(* answers.                                                                *)
(*                                                                         *)
(* The scanner component lives as long as the page does: signing out or    *)
(* changing the event does not end a scan under way, a camera request or a *)
(* detection, and each of them goes on with the event and the operator it  *)
(* started with.                                                           *)
(***************************************************************************)
EXTENDS Admission

CONSTANTS
    Operators,
    MaxKeys,        \* bound: idempotency keys the page may draw
    MaxFaults       \* bound: answers lost, replaced or refused, sessions ended, reloads

ASSUME ScannerAssumption ==
    MaxKeys \in Nat /\ MaxFaults \in Nat /\ Elsewhere.user \notin Operators

VARIABLES
    user,           \* the session's operator
    event,          \* selectedEvent, also kept in sessionStorage
    camera,         \* cameraState and the stream behind it, see CameraStates
    frame,          \* a detection under way, with what its closure captured
    shown,          \* result: the decision on the screen
    cannotVerify,
    call,           \* the scan in flight (processing, scan.isPending)
    intentKeys, nextKey,
    wire,           \* scans the server has not committed
    answers,        \* idempotency: operator and key -> the stored answer
    faults,
    greeted,        \* how often "Admit guest" came up for an admission
    abandoned       \* keys a gateway's answer, a refusal or a reload made the page forget

optics == <<camera, frame>>
session == <<user, event>>
outcome == <<shown, cannotVerify, greeted>>
keys == <<intentKeys, nextKey, abandoned>>
vars == <<gate, session, optics, outcome, call, keys, wire, answers, faults>>

\* OFF stands for idle and for every refusal; ASKED for a camera that getUserMedia
\* has not answered, stopped meanwhile or not (a second request in that time is
\* left out); UNREAD for a stream that no detector reads.
CameraStates == {"OFF", "ASKED", "ACTIVE", "UNREAD"}

Nobody == "NOBODY"
NoEvent == "NO_EVENT"
NoDecision == [result |-> "NONE", adm |-> 0]
NoCall == [user |-> Nobody, event |-> NoEvent, code |-> "NONE", key |-> 0]
NoFrame == [user |-> Nobody, event |-> NoEvent]

-----------------------------------------------------------------------------
(* What the page shows. *)

\* outcomePresentation: the tone of a decision.
Tone == IF cannotVerify THEN "danger"
        ELSE IF shown.result = "ADMITTED" THEN "success"
        ELSE IF shown.result = "TICKET_ALREADY_ADMITTED" THEN "warning"
        ELSE IF shown = NoDecision THEN "ready" ELSE "danger"

decisionVisible == Tone # "ready"
busy == call # NoCall

Screen == IF user = Nobody THEN "sign in"
          ELSE IF event = NoEvent THEN "events" ELSE "scan"

SignInOffered == Screen = "sign in"

\* EventPicker lists the events once the query has loaded them; while it runs or
\* has failed there is nothing to choose.
EventsOffered == IF Screen = "events" THEN Events ELSE {}

\* The placeholder with "Open camera" stands in for the picture.  A device that
\* is no phone shows "Enter code manually" in its place: it takes fewer steps.
CameraOffered == Screen = "scan" /\ camera \in {"OFF", "UNREAD"} /\ ~decisionVisible

\* The sheet of "Enter code manually": its button waits for a scan under way.
ManualOffered == Screen = "scan" /\ ~busy

\* The settings sheet: another event, or sign out.
SettingsOffered == Screen = "scan"

\* The effect that detects: only while the camera is active and nothing is shown.
Detecting == camera = "ACTIVE" /\ ~decisionVisible /\ ~busy

ScannerInit ==
    /\ GateInit
    /\ user = Nobody /\ event = NoEvent
    /\ camera = "OFF" /\ frame = NoFrame
    /\ shown = NoDecision /\ cannotVerify = FALSE /\ greeted = [a \in 1..MaxAdmissions |-> 0]
    /\ call = NoCall /\ intentKeys = {} /\ nextKey = 1 /\ abandoned = {}
    /\ wire = {} /\ answers = {} /\ faults = 0

-----------------------------------------------------------------------------
(* Session and event. *)

\* A stored session is restored, or the operator signs in.
SignIn(u) ==
    /\ SignInOffered /\ user' = u
    /\ UNCHANGED <<gate, event, optics, outcome,
                   call, keys, wire, answers, faults>>

ChooseEvent(e) ==
    /\ e \in EventsOffered /\ event' = e
    /\ UNCHANGED <<gate, user, optics, outcome, call, keys, wire, answers, faults>>

\* stopCamera: tracks stopped, the picture gone; a request that has not been
\* answered is not withdrawn, nor is a detection under way.
StopCamera == camera' = (IF camera = "ASKED" THEN "ASKED" ELSE "OFF") /\ UNCHANGED frame

\* "Change event" in the settings: stopCamera, reset and back to the list.
ChangeEvent ==
    /\ SettingsOffered /\ event' = NoEvent
    /\ StopCamera
    /\ shown' = NoDecision /\ cannotVerify' = FALSE
    /\ UNCHANGED <<gate, user, greeted, call, keys, wire, answers, faults>>

\* signOut: the decision on the screen and the kept keys stay.
SignOut ==
    /\ SettingsOffered \/ Screen = "events"
    /\ user' = Nobody /\ event' = NoEvent
    /\ StopCamera
    /\ UNCHANGED <<gate, outcome, call, keys, wire, answers, faults>>

\* The session ends by itself (onAuthStateChange): only the screen changes, the
\* camera keeps running behind it.
SessionEnds ==
    /\ user # Nobody /\ faults < MaxFaults
    /\ user' = Nobody /\ faults' = faults + 1
    /\ UNCHANGED <<gate, event, optics, outcome,
                   call, keys, wire, answers>>

\* The page is reloaded: session and event are restored from storage, all else
\* is gone.
Reload ==
    /\ user # Nobody /\ faults < MaxFaults /\ faults' = faults + 1
    /\ camera' = "OFF" /\ frame' = NoFrame
    /\ shown' = NoDecision /\ cannotVerify' = FALSE /\ call' = NoCall
    /\ intentKeys' = {} /\ abandoned' = abandoned \union {i.key : i \in intentKeys}
    /\ UNCHANGED <<gate, session, greeted, nextKey, wire, answers>>

-----------------------------------------------------------------------------
(* The camera. *)

StartCamera ==
    /\ CameraOffered
    /\ camera' = IF camera = "UNREAD" THEN "ACTIVE" ELSE "ASKED"
    /\ UNCHANGED <<gate, session, frame, outcome, call, keys, wire, answers, faults>>

\* getUserMedia answers, wherever the page has gone meanwhile; it may be refused,
\* or grant only a front camera.
CameraGranted ==
    /\ camera = "ASKED" /\ camera' = "ACTIVE"
    /\ UNCHANGED <<gate, session, frame, outcome, call, keys, wire, answers, faults>>

CameraRefused ==
    /\ camera = "ASKED" /\ camera' = "OFF"
    /\ UNCHANGED <<gate, session, frame, outcome, call, keys, wire, answers, faults>>

\* A browser without BarcodeDetector: the effect gives up, the stream stays.
NoDetector ==
    /\ Detecting /\ camera' = "UNREAD"
    /\ UNCHANGED <<gate, session, frame, outcome, call, keys, wire, answers, faults>>

\* One turn of the detection loop takes a frame and waits for the detector.
DetectFrame ==
    /\ Detecting /\ Screen = "scan" /\ frame = NoFrame
    /\ frame' = [user |-> user, event |-> event]
    /\ UNCHANGED <<gate, session, camera, outcome, call, keys,
                   wire, answers, faults>>

-----------------------------------------------------------------------------
(* Scans. *)

Intent(e, c) == [event |-> e, code |-> c]
Kept(e, c) == {i \in intentKeys : i.intent = Intent(e, c)}
\* Mutant: a key is drawn for every attempt.
KeyOfAttempt(e, c) == nextKey
KeyOf(e, c) == IF Kept(e, c) = {} THEN nextKey ELSE (CHOOSE i \in Kept(e, c) : TRUE).key

\* submit: nothing happens without token, event or code, nor while a scan is
\* under way.  A decision that is on the screen stays there.
Submit(u, e, c) ==
    /\ u # Nobody /\ e # NoEvent /\ ~busy
    /\ Kept(e, c) # {} \/ nextKey <= MaxKeys
    /\ LET q == [user |-> u, event |-> e, code |-> c, key |-> KeyOf(e, c)]
       IN  /\ call' = q
           /\ wire' = wire \union {[scan |-> q, seen |-> entry[e]]}
           /\ intentKeys' = intentKeys \union {[intent |-> Intent(e, c), key |-> q.key]}
           /\ nextKey' = IF q.key = nextKey THEN nextKey + 1 ELSE nextKey
    /\ cannotVerify' = FALSE
    /\ UNCHANGED <<gate, session, shown, greeted, abandoned, answers, faults>>

ManualScan(c) ==
    /\ ManualOffered
    /\ Submit(user, event, c)
    /\ UNCHANGED optics

\* The detector found a code: it is submitted with the event and the operator of
\* the closure, whatever is on the screen by now.
DetectedCode(c) ==
    /\ frame # NoFrame /\ frame' = NoFrame
    /\ Submit(frame.user, frame.event, c)
    /\ UNCHANGED camera

\* It found nothing, or submit refused what it found.
DetectedNothing ==
    /\ frame # NoFrame /\ frame' = NoFrame
    /\ UNCHANGED <<gate, session, camera, outcome, call, keys,
                   wire, answers, faults>>

ScanNext ==
    /\ Screen = "scan" /\ decisionVisible
    /\ shown' = NoDecision /\ cannotVerify' = FALSE
    /\ UNCHANGED <<gate, session, optics, greeted, call, keys, wire, answers, faults>>

-----------------------------------------------------------------------------
(* The answer reaches the page.  The time it travels is no step of its own: a *)
(* lost answer is a call given up before its request is served.             *)

\* Mutant: the key of an answered scan is kept.
KeysAfterAll(q) == intentKeys
KeysAfter(q) == intentKeys \ Kept(q.event, q.code)

\* The page takes an answer only for the scan it waits for.
ShowDecision(q, answer) ==
    IF call # q THEN UNCHANGED <<call, intentKeys, outcome>>
    ELSE /\ call' = NoCall /\ shown' = answer
         /\ intentKeys' = KeysAfter(q)
         /\ greeted' = IF answer.result = "ADMITTED"
                       THEN [greeted EXCEPT ![answer.adm] = @ + 1] ELSE greeted
         /\ UNCHANGED cannotVerify

\* Mutant: the decision on the screen stays under the error.
CannotVerifyBeside == cannotVerify' = TRUE /\ UNCHANGED <<shown, greeted>>
CannotVerify == shown' = NoDecision /\ cannotVerify' = TRUE /\ UNCHANGED greeted

\* Any answer that is an error: "Can't verify ticket", and the key is forgotten.
ShowError(q) ==
    IF call # q THEN UNCHANGED <<call, intentKeys, outcome>>
    ELSE call' = NoCall /\ intentKeys' = KeysAfter(q) /\ CannotVerify

\* No answer: the same words, but the key stays for another try.
CallThrows ==
    /\ busy /\ faults < MaxFaults /\ faults' = faults + 1
    /\ call' = NoCall /\ CannotVerify
    /\ UNCHANGED <<gate, session, optics, keys, wire, answers>>

\* A gateway answers in the server's place, whatever the server did or will do.
GatewayAnswers ==
    /\ busy /\ faults < MaxFaults /\ faults' = faults + 1
    /\ ShowError(call)
    /\ abandoned' = abandoned \union {call.key}
    /\ UNCHANGED <<gate, session, optics, nextKey, wire, answers>>

-----------------------------------------------------------------------------
(* The admission API: role, idempotency and decision in one transaction. *)

Stored(q) == {s \in answers : s.user = q.user /\ s.key = q.key}

\* A key that has an answer is answered again.
Replay(q) ==
    /\ Stored(q) # {}
    /\ ShowDecision(q, (CHOOSE s \in Stored(q) : TRUE).answer)
    /\ UNCHANGED <<admissions, answers>>

\* Otherwise the event is read, some time after the request was sent, and later the
\* ticket is locked, the decision made, recorded and committed.
Perform(q, seen) ==
    LET answer == Answer(Decision(q.event, seen, q.code), q.code)
    IN  /\ Stored(q) = {}
        /\ ValidateAndAdmit(q.event, seen, q.code,
                            [user |-> q.user, key |-> q.key, code |-> q.code])
        /\ answers' = answers \union {[user |-> q.user, key |-> q.key, answer |-> answer]}
        /\ ShowDecision(q, answer)

Serve(w) ==
    /\ Replay(w.scan) \/ \E seen \in {w.seen, entry[w.scan.event]} : Perform(w.scan, seen)
    /\ wire' = wire \ {w}
    /\ UNCHANGED <<entry, ticketState, credState, changes, session, optics,
                   nextKey, abandoned, faults>>

\* The operator's role has ended, or the key that signed the credential is not
\* available: the transaction is rolled back, the claim with it.  An earlier try under
\* the same key may have been served, or may be yet.
Refuse(w) ==
    /\ faults < MaxFaults /\ faults' = faults + 1
    /\ wire' = wire \ {w} /\ ShowError(w.scan)
    /\ abandoned' = IF call = w.scan THEN abandoned \union {w.scan.key} ELSE abandoned
    /\ UNCHANGED <<gate, session, optics, nextKey, answers>>

-----------------------------------------------------------------------------
Operator ==
    \/ \E u \in Operators : SignIn(u)
    \/ \E e \in Events : ChooseEvent(e)
    \/ ChangeEvent \/ SignOut \/ Reload \/ StartCamera \/ ScanNext
    \/ \E c \in Codes : ManualScan(c)

Browser ==
    \/ CameraGranted \/ CameraRefused \/ NoDetector \/ DetectFrame \/ DetectedNothing
    \/ \E c \in Codes : DetectedCode(c)
    \/ SessionEnds \/ CallThrows \/ GatewayAnswers

Server == \E w \in wire : Serve(w) \/ Refuse(w)

Others ==
    /\ GateOthers
    /\ UNCHANGED <<session, optics, outcome, call, keys, wire, answers, faults>>

Next == Operator \/ Browser \/ Server \/ Others

Spec == ScannerInit /\ [][Next]_vars

-----------------------------------------------------------------------------
(* Properties. *)

\* An admission brings up "Admit guest" at most once on this device, however often
\* its scan is retried, answered late or repeated after a lost answer: one green
\* screen lets one guest in.
AdmitShownOnce == \A a \in 1..MaxAdmissions : greeted[a] <= 1

\* A decision on the screen is about a scan the server stored under the same
\* answer: "Admit guest" never stands for an admission that was not written, and
\* an error or a lost answer never leaves an older decision standing.
ShownIsStored ==
    shown # NoDecision => ~cannotVerify /\ \E s \in answers : s.answer = shown

\* "Already checked in" for a guest whom nobody has seen admitted comes only from
\* a gateway's answer, a refused retry, a reload, another credential, or another
\* operator who tried the code in between: an operator who tries the same code again
\* after a lost answer gets the decision that was lost.
OwnScan(adm) == /\ admissions[adm].by.user = call.user
                /\ admissions[adm].by.code = call.code
TurnedAwayForCause ==
    [][busy /\ call' = NoCall /\ shown'.result = "TICKET_ALREADY_ADMITTED"
        => \/ ~OwnScan(shown'.adm)
           \/ greeted[shown'.adm] > 0
           \/ admissions[shown'.adm].by.key \in abandoned'
           \/ \E s \in answers : s.key = admissions[shown'.adm].by.key /\ s.user # call.user]_vars
================================================================================
