------------------------------- MODULE Admission -------------------------------
(***************************************************************************)
(* The server's side of the gate (internal/admission, internal/admissionapi): *)
(* tickets, their QR credentials, and the admissions that scans, overrides *)
(* and reversals write.                                                    *)
(*                                                                         *)
(* A scan is one transaction.  It reads the event first, under a lock that *)
(* does not stop the event from changing, and then locks ticket and        *)
(* credential until it commits: what it decides about them is decided at   *)
(* once, what it knows of the event may be old (operator Decision).        *)
(***************************************************************************)
EXTENDS Integers, Sequences, FiniteSets

CONSTANTS
    Events, Tickets,
    Codes,          \* well-formed credentials; any other code is malformed
    EventOf,        \* the event of a ticket
    TicketOf,       \* the ticket of a credential
    MaxAdmissions,  \* bound: rows of admissions
    MaxChanges      \* bound: what operators and other gates do

ASSUME AdmissionAssumption ==
    /\ EventOf \in [Tickets -> Events] /\ TicketOf \in [Codes -> Tickets]
    /\ MaxAdmissions \in Nat /\ MaxChanges \in Nat

VARIABLES
    entry,          \* what an event's row and the clock say of its entrance
    ticketState,    \* ticket_entitlements.status
    credState,      \* qr_credentials.status
    admissions,     \* the rows of admissions, in the order they were written
    changes         \* bookkeeping of the bound

gate == <<entry, ticketState, credState, admissions, changes>>

\* Who wrote an admission: the operator and the idempotency key of a scanner
\* page, or another gate or supervisor, whose keys are of no interest here.
Elsewhere == [user |-> "ELSEWHERE", key |-> 0, code |-> "NONE"]

\* Mutant: the admissions that other gates wrote are not looked for.
ActiveHere(t) == {a \in DOMAIN admissions :
                 /\ admissions[a].ticket = t /\ admissions[a].status = "ACTIVE"
                 /\ admissions[a].by # Elsewhere}
Active(t) == {a \in DOMAIN admissions :
                 admissions[a].ticket = t /\ admissions[a].status = "ACTIVE"}

GateInit ==
    /\ entry = [e \in Events |-> "OPEN"]
    /\ ticketState = [t \in Tickets |-> "ACTIVE"]
    /\ \E first \in [Tickets -> Codes] :
         /\ \A t \in Tickets : TicketOf[first[t]] = t
         /\ credState = [c \in Codes |-> IF c = first[TicketOf[c]] THEN "ACTIVE" ELSE "ABSENT"]
    /\ admissions = <<>> /\ changes = 0

-----------------------------------------------------------------------------
\* ValidateAndAdmit's early returns, in their order.  e is the event the scan
\* names, seen what it read of that event, c the code.
Decision(e, seen, c) ==
    IF c \notin Codes THEN "TICKET_INVALID"
    ELSE IF credState[c] = "ABSENT" THEN "TICKET_INVALID"
    ELSE IF EventOf[TicketOf[c]] # e THEN "WRONG_EVENT"
    ELSE IF seen = "EVENT_CANCELLED" THEN "EVENT_CANCELLED"
    ELSE IF ticketState[TicketOf[c]] = "VOIDED" THEN "TICKET_VOID"
    ELSE IF credState[c] = "REVOKED" THEN "CREDENTIAL_REVOKED"
    ELSE IF credState[c] = "SUPERSEDED" THEN "CREDENTIAL_SUPERSEDED"
    ELSE IF seen = "ADMISSION_NOT_OPEN" THEN "ADMISSION_NOT_OPEN"
    ELSE IF Active(TicketOf[c]) # {} THEN "TICKET_ALREADY_ADMITTED"
    ELSE "ADMITTED"

Admission(t, by) == [ticket |-> t, status |-> "ACTIVE", by |-> by]

\* What the scan answers: the decision, with the admission it wrote or the
\* earlier one it met.
Answer(decision, c) ==
    [result |-> decision,
     adm |-> IF decision = "ADMITTED" THEN Len(admissions) + 1
             ELSE IF decision = "TICKET_ALREADY_ADMITTED"
             THEN CHOOSE a \in Active(TicketOf[c]) : TRUE ELSE 0]

\* The transaction of a scan; a rejected one is only recorded as an attempt.
ValidateAndAdmit(e, seen, c, by) ==
    IF Decision(e, seen, c) = "ADMITTED"
    THEN /\ Len(admissions) < MaxAdmissions
         /\ admissions' = Append(admissions, Admission(TicketOf[c], by))
    ELSE UNCHANGED admissions

-----------------------------------------------------------------------------
(* What other gates, supervisors and administrators do. *)

Changing == changes < MaxChanges /\ changes' = changes + 1

OtherScan(c) ==
    /\ Changing
    /\ LET e == EventOf[TicketOf[c]]
       IN  Decision(e, entry[e], c) = "ADMITTED" /\ ValidateAndAdmit(e, entry[e], c, Elsewhere)
    /\ UNCHANGED <<entry, ticketState, credState>>

\* A supervisor admits a ticket found by hand; the entrance need not be open,
\* but the ticket must have an active credential.
ManualOverride(t) ==
    /\ Changing
    /\ entry[EventOf[t]] # "EVENT_CANCELLED" /\ ticketState[t] = "ACTIVE"
    /\ \E c \in Codes : TicketOf[c] = t /\ credState[c] = "ACTIVE"
    /\ Active(t) = {} /\ Len(admissions) < MaxAdmissions
    /\ admissions' = Append(admissions, Admission(t, Elsewhere))
    /\ UNCHANGED <<entry, ticketState, credState>>

Reverse(a) ==
    /\ Changing
    /\ admissions[a].status = "ACTIVE"
    /\ admissions' = [admissions EXCEPT ![a].status = "REVERSED"]
    /\ UNCHANGED <<entry, ticketState, credState>>

\* Voiding a ticket revokes its active credential; an admission stays.
VoidTicket(t) ==
    /\ Changing
    /\ ticketState[t] = "ACTIVE"
    /\ ticketState' = [ticketState EXCEPT ![t] = "VOIDED"]
    /\ credState' = [c \in Codes |->
         IF TicketOf[c] = t /\ credState[c] = "ACTIVE" THEN "REVOKED" ELSE credState[c]]
    /\ UNCHANGED <<entry, admissions>>

ReissueCredential(t, c) ==
    /\ Changing
    /\ ticketState[t] = "ACTIVE"
    /\ \E old \in Codes : TicketOf[old] = t /\ credState[old] = "ACTIVE"
    /\ TicketOf[c] = t /\ credState[c] = "ABSENT"
    /\ credState' = [d \in Codes |->
         IF d = c THEN "ACTIVE"
         ELSE IF TicketOf[d] = t /\ credState[d] = "ACTIVE" THEN "SUPERSEDED" ELSE credState[d]]
    /\ UNCHANGED <<entry, ticketState, admissions>>

\* The event is cancelled or completed, or its admission window ends.
EntranceCloses(e) ==
    /\ Changing
    /\ entry[e] = "OPEN"
    /\ \E s \in {"EVENT_CANCELLED", "ADMISSION_NOT_OPEN"} : entry' = [entry EXCEPT ![e] = s]
    /\ UNCHANGED <<ticketState, credState, admissions>>

GateOthers ==
    \/ \E c \in Codes : OtherScan(c)
    \/ \E t \in Tickets : ManualOverride(t) \/ VoidTicket(t)
    \/ \E a \in DOMAIN admissions : Reverse(a)
    \/ \E t \in Tickets : \E c \in Codes : ReissueCredential(t, c)
    \/ \E e \in Events : EntranceCloses(e)

-----------------------------------------------------------------------------
\* At most one admission of a ticket is active, whatever gates scan it, override
\* or reverse it, under whichever of its credentials: nobody enters twice.
OneActiveAdmission ==
    \A a, b \in DOMAIN admissions :
        /\ admissions[a].ticket = admissions[b].ticket
        /\ admissions[a].status = "ACTIVE" /\ admissions[b].status = "ACTIVE"
        => a = b
================================================================================
