----------------------------- MODULE EventSales -----------------------------
(***************************************************************************)
(* One Event and the Partners that sell it: the sales lifecycle of the     *)
(* Event (backend/internal/event/lifecycle.go) and the operational state   *)
(* of each Partner and of its access to this Event                         *)
(* (backend/internal/partner/service.go).  Every command is one database   *)
(* transaction that holds the row it changes FOR UPDATE, so every command  *)
(* is one action.                                                          *)
(***************************************************************************)

CONSTANTS
    Partners,   \* the Partners known to the platform
    NoAccess    \* a partner_event_access row that was never inserted

VARIABLES
    event,      \* events.state
    partner,    \* partners.state, per Partner
    access      \* partner_event_access.state for this Event, per Partner

salesVars == <<event, partner, access>>

EventStates == {"DRAFT", "ON_SALE", "PAUSED", "SALES_CLOSED", "COMPLETED", "CANCELLED"}

SalesTypeOK ==
    /\ event \in EventStates
    /\ partner \in [Partners -> {"ACTIVE", "DISABLED"}]
    /\ access \in [Partners -> {"ACTIVE", "DISABLED", NoAccess}]

SalesInit ==
    /\ event = "DRAFT"
    /\ partner = [p \in Partners |-> "ACTIVE"]
    /\ access = [p \in Partners |-> NoAccess]

-----------------------------------------------------------------------------
(* The Event.  A finalized layout, materialized inventory, a policy and    *)
(* active prices are preconditions of OpenSales that no later command      *)
(* takes away; they hold throughout.                                       *)

transitionLifecycle(allowedStates, nextState) ==
    /\ event \in allowedStates
    /\ event' = nextState
    /\ UNCHANGED <<partner, access>>

OpenSales     == transitionLifecycle({"DRAFT"}, "ON_SALE")
PauseSales    == transitionLifecycle({"ON_SALE"}, "PAUSED")
ResumeSales   == transitionLifecycle({"PAUSED"}, "ON_SALE")
CloseSales    == transitionLifecycle({"ON_SALE", "PAUSED"}, "SALES_CLOSED")
CompleteEvent == transitionLifecycle({"SALES_CLOSED"}, "COMPLETED")
CancelEvent   ==
    transitionLifecycle({"DRAFT", "ON_SALE", "PAUSED", "SALES_CLOSED"}, "CANCELLED")

-----------------------------------------------------------------------------
(* The Partners.                                                           *)

SetEnabled(p, state) ==
    /\ partner[p] # state
    /\ partner' = [partner EXCEPT ![p] = state]
    /\ UNCHANGED <<event, access>>

GrantEventAccess(p) ==
    /\ access' = [access EXCEPT ![p] = "ACTIVE"]
    /\ UNCHANGED <<event, partner>>

DisableEventAccess(p) ==
    /\ access[p] # NoAccess
    /\ access' = [access EXCEPT ![p] = "DISABLED"]
    /\ UNCHANGED <<event, partner>>

SalesNext ==
    \/ OpenSales \/ PauseSales \/ ResumeSales
    \/ CloseSales \/ CompleteEvent \/ CancelEvent
    \/ \E p \in Partners :
         \/ \E state \in {"ACTIVE", "DISABLED"} : SetEnabled(p, state)
         \/ GrantEventAccess(p)
         \/ DisableEventAccess(p)

-----------------------------------------------------------------------------
(* What the other commands read under the Event and Partner locks.         *)

\* lockChannelPartner: both the Partner and its access to the Event are ACTIVE.
MayAcquire(p) == partner[p] = "ACTIVE" /\ access[p] = "ACTIVE"

\* Checkout and confirmation gate of BeginCheckout and Confirm.
Transactable == event \in {"ON_SALE", "PAUSED", "SALES_CLOSED"}

\* lockRestrictionEvent: Blocks and Allocations may change.
Restrictable == event \in {"DRAFT", "ON_SALE", "PAUSED"}

\* lockIssuanceEvent: non-public tickets may be issued.
Issuable == event \in {"DRAFT", "ON_SALE", "PAUSED", "SALES_CLOSED"}
=============================================================================
