------------------------------ MODULE AdminPages ------------------------------
(***************************************************************************)
(* The pages of the administration console (apps/admin-web): which buttons *)
(* each page offers for the data it shows, what a button's command sends,  *)
(* and what the administration API makes of it.  The tables have no state; *)
(* module AdminConsole is the machine that works them.                     *)
(*                                                                         *)
(* What a page is about is a record: main and aux, two states of the thing *)
(* itself, and rows, the list on the page.  Row 0 is there from the start, *)
(* a command that creates something creates the row numbered as its key.   *)
(***************************************************************************)
EXTENDS Integers, FiniteSets

CONSTANT MaxKeys    \* bound: idempotency keys a page may draw

ASSUME MaxKeysAssumption == MaxKeys \in Nat \ {0}

Rows == 0 .. MaxKeys
Nothing == [main |-> "NONE", aux |-> "NONE", rows |-> [r \in Rows |-> "NONE"]]
With(main, aux, first) ==
    [main |-> main, aux |-> aux, rows |-> [Nothing.rows EXCEPT ![0] = first]]

\* What each page is about when it is first opened.
Starts ==
    [event |-> With("DRAFT", "UNPRICED", "ACTIVE"),  \* aux: layout and prices; rows: tiers
     access |-> With("ACTIVE", "NONE", "NONE"),     \* main: the partner; rows: its access
     grants |-> With("ACTIVE", "NONE", "DISABLED"),
     partner |-> With("ACTIVE", "FIRST", "ACTIVE"), \* aux: return URLs; rows: credentials
     restrictions |-> With("NONE", "NONE", "ALLOCATION"),
     integrations |-> With("NONE", "NONE", "ACTIVE"),
     tickets |-> With("NONE", "NONE", "ACTIVE"),
     admissions |-> With("NONE", "NONE", "NONE"),
     users |-> With("NONE", "NONE", "ACTIVE"),
     partners |-> Nothing, venues |-> Nothing, events |-> Nothing,
     layouts |-> With("NONE", "NONE", "DRAFT")]
Pages == DOMAIN Starts

Those(d, states) == {r \in Rows : d.rows[r] \in states}

-----------------------------------------------------------------------------
(* The buttons.  A button sends its command at once or asks in a dialog    *)
(* first; busy says which pending call of its mutation disables it: any,   *)
(* one for the same row, or none.                                          *)

Sends(do, on, busy) == [do |-> do, on |-> on, asks |-> FALSE, busy |-> busy]
Asks(do, on) == [do |-> do, on |-> on, asks |-> TRUE, busy |-> "none"]

\* The event's page: what the setup check holds against opening sales.  The sales
\* policy is the platform's default from the event's creation.
missingSetup(conf) ==
    {item \in {"layout", "pricing", "inventory"} :
        IF item = "pricing" THEN Those(conf, {"ACTIVE"}) = {} ELSE conf.aux = "NONE"}

primaryAction(state) ==
    CASE state = "DRAFT" -> {"openSales"}
      [] state = "ON_SALE" -> {"pauseSales"}
      [] state = "PAUSED" -> {"resumeSales"}
      [] state = "SALES_CLOSED" -> {"complete"}
      [] OTHER -> {}

runPrimary(state, conf) ==
    {[do |-> do, on |-> 0, asks |-> do = "complete", busy |-> "any"] :
        do \in {a \in primaryAction(state) : a = "openSales" => missingSetup(conf) = {}}}

MoreActions(state) ==
    {Asks(do, 0) : do \in {a \in {"closeSales", "cancel", "complete"} :
        \/ a = "closeSales" /\ state \in {"ON_SALE", "PAUSED"}
        \/ a = "cancel" /\ state \notin {"CANCELLED", "COMPLETED"}
        \/ a = "complete" /\ state = "SALES_CLOSED"}}

LayoutTab(conf) == IF conf.aux = "NONE" THEN {Sends("materializeLayout", 0, "any")} ELSE {}

PricingTab(conf) ==
    {Asks("createPriceTier", 1)}
        \cup {Asks("assignPricing", r) : r \in IF conf.aux = "NONE" THEN {} ELSE Those(conf, {"ACTIVE"})}

PartnersTab(conf) ==
    IF conf.main # "ACTIVE" THEN {}
    ELSE {Sends(IF conf.rows[0] = "ACTIVE" THEN "disableAccess" ELSE "grantAccess", 0, "row")}

\* A partner's page.  The dialog of "toggle" takes the action when it is confirmed.
PartnerHeader(d) == {Asks("toggle", 0), Sends("issueCredential", 0, "any")}

CheckoutURLs(d) == {Sends("setAllowedReturnURLs", 0, "any")}

\* The picker lists the events without active access and waits for any access
\* call; the button in a row that enables access again waits for none.
AccessTab(d) ==
    {Sends("disableAccess", r, "row") : r \in Those(d, {"ACTIVE"})}
        \cup IF d.main # "ACTIVE" THEN {}
             ELSE {Sends("grantAccess", r, "any") : r \in {0, 1} \ Those(d, {"ACTIVE"})}
                    \cup {Sends("grantAccess", r, "none") : r \in Those(d, {"DISABLED"})}

CredentialsTab(d) ==
    {Asks("revokeCredential", r) : r \in Those(d, {"ACTIVE"})}
        \cup IF Those(d, {"ACTIVE", "REVOKED"}) # {} THEN {}
             ELSE {Sends("issueCredential", 0, "none")}

\* Restrictions of an event's inventory.
RestrictionsPanel(d) ==
    {Asks(do, 0) : do \in {"createBlock", "createAllocation"}}
        \cup {[Asks("release", r) EXCEPT !.busy = "row"] : r \in Those(d, {"BLOCK", "ALLOCATION"})}
        \cup {Asks("reclassify", r) : r \in Those(d, {"ALLOCATION"})}

\* Webhook endpoints.
IntegrationsPage(d) ==
    {Asks("createWebhook", 0)}
        \cup {Sends("rotateWebhook", r, "row") : r \in Those(d, {"ACTIVE"})}
        \cup {Asks("disableWebhook", r) : r \in Those(d, {"ACTIVE"})}

\* A re-released ticket stays a voided ticket on the page.
TicketsPage(d) ==
    {Asks(do, r) : do \in {"voidTicket", "reissueTicket"}, r \in Those(d, {"ACTIVE"})}
        \cup {Asks("rereleaseTicket", r) : r \in Those(d, {"VOIDED", "RERELEASED"})}

AdmissionsPage(d) ==
    {Asks("manualAdmission", 0)} \cup {Asks("reverseAdmission", r) : r \in Those(d, {"ACTIVE"})}

\* Row 0 is another administrator, row 1 the e-mail address to invite; the button
\* in the operator's own row is disabled.
UsersPage(d) ==
    {Asks("createAdmin", 1)}
        \cup {Asks("disableAdmin", r) : r \in Those(d, {"ACTIVE"})}
        \cup {Asks("enableAdmin", r) : r \in Those(d, {"DISABLED"})}

PartnersListPage(d) == {Asks("createPartner", 0)}
VenuesListPage(d) == {Asks("createVenue", 0)}

\* The wizard.  Its first step has one text field and no button that submits, so that
\* Enter sends the form as it is, busy or not; the review of its third step stands for
\* a question.
BasicsStep == {Sends("createEvent", 0, "none")}
ReviewStep == {Asks("createEvent", 0)}
CreateEventPage(d) == BasicsStep \cup ReviewStep

VenueDetailPage(d) ==
    {Sends("createLayout", 0, IF Those(d, {"NONE"}) = Rows THEN "none" ELSE "any")}
        \cup {Asks("publishLayout", r) : r \in Those(d, {"DRAFT"})}

-----------------------------------------------------------------------------
(* The queries a page reads, and those its commands invalidate: each page  *)
(* names the ones it shows, the ticket list under its present filter only. *)

Queries(p) ==
    CASE p = "event" -> {"event", "configuration"}
      [] p = "tickets" -> {"all", "onlyActive"}
      [] OTHER -> {"list"}

Filters(p) == IF p = "tickets" THEN Queries(p) ELSE {"all"}
Mounted(p, filter) == IF p = "tickets" THEN {filter} ELSE Queries(p)

Invalidated(p, filter) == IF p = "events" THEN {} ELSE Mounted(p, filter)

\* Data under a filter.
Filtered(d, q) ==
    IF q = "onlyActive"
    THEN [d EXCEPT !.rows = [r \in Rows |-> IF @[r] = "ACTIVE" THEN @[r] ELSE "NONE"]]
    ELSE d

\* What page p offers for the data its queries have answered.
Buttons(p, view) ==
    CASE p = "event" ->
            runPrimary(view["event"].main, view["configuration"])
                \cup MoreActions(view["event"].main)
                \cup LayoutTab(view["configuration"]) \cup PricingTab(view["configuration"])
      [] p = "access" -> PartnersTab(view["list"])
      [] p = "grants" -> AccessTab(view["list"])
      [] p = "partner" -> PartnerHeader(view["list"]) \cup CheckoutURLs(view["list"])
                            \cup CredentialsTab(view["list"])
      [] p = "restrictions" -> RestrictionsPanel(view["list"])
      [] p = "integrations" -> IntegrationsPage(view["list"])
      [] p = "tickets" -> UNION {TicketsPage(Filtered(view[q], q)) : q \in DOMAIN view}
      [] p = "admissions" -> AdmissionsPage(view["list"])
      [] p = "users" -> UsersPage(view["list"])
      [] p = "partners" -> PartnersListPage(view["list"])
      [] p = "venues" -> VenuesListPage(view["list"])
      [] p = "events" -> CreateEventPage(view["list"])
      [] p = "layouts" -> VenueDetailPage(view["list"])

-----------------------------------------------------------------------------
(* The commands. *)

Lifecycle == {"openSales", "pauseSales", "resumeSales", "closeSales", "complete", "cancel"}
EventRequests == Lifecycle \cup {"createPriceTier", "assignPricing", "materializeLayout"}
AccessRequests == {"grantAccess", "disableAccess"}
PartnerRequests ==
    {"enablePartner", "disablePartner", "setAllowedReturnURLs", "issueCredential",
     "revokeCredential"}
RestrictionRequests == {"createBlock", "createAllocation", "release", "reclassify"}
WebhookRequests == {"createWebhook", "rotateWebhook", "disableWebhook"}
TicketRequests == {"voidTicket", "reissueTicket", "rereleaseTicket"}
AdmissionRequests == {"manualAdmission", "reverseAdmission"}
UserRequests == {"createAdmin", "disableAdmin", "enableAdmin"}
LayoutRequests == {"createLayout", "publishLayout"}

Requests(p) ==
    CASE p = "event" -> EventRequests
      [] p \in {"access", "grants"} -> AccessRequests \cup {"enablePartner", "disablePartner"}
      [] p = "partner" -> PartnerRequests
      [] p = "restrictions" -> RestrictionRequests
      [] p = "integrations" -> WebhookRequests
      [] p = "tickets" -> TicketRequests
      [] p = "admissions" -> AdmissionRequests
      [] p = "users" -> UserRequests
      [] p = "layouts" -> LayoutRequests
      [] OTHER -> {"createPartner", "createVenue", "createEvent"}

\* Commands that are calls of one mutation, and whose dialogs are one.
Mutations ==
    {Lifecycle, TicketRequests, AccessRequests,
     {"toggle", "enablePartner", "disablePartner"},
     {"createBlock", "createAllocation"}, {"disableAdmin", "enableAdmin"}}
SameMutation(do, other) == do = other \/ \E m \in Mutations : {do, other} \subseteq m

\* What an operator types that the intent of the command leaves out: a tier's name,
\* a restriction's mode, partner and reason, an override's gate, an administrator's
\* name, an event's other times.
Untold == {"createPriceTier", "createBlock", "createAllocation", "manualAdmission",
           "createAdmin", "createEvent"}
\* ... and what the intent includes.
Told == {"setAllowedReturnURLs", "reclassify"}
Forms(do) == IF do \in Untold \cup Told THEN {"FIRST", "SECOND"} ELSE {"FIRST"}
IntentOf(do, on, form) == <<do, on, IF do \in Told THEN form ELSE "ANY">>

\* Answers that carry a secret nobody can read again.
Secretive == {"issueCredential", "createWebhook", "rotateWebhook"}

\* Dialogs that stay open while their call is pending.
Guarded == {"release", "publishLayout", "createAdmin", "disableAdmin", "enableAdmin"}

\* The command a dialog stands for when it is confirmed: the partner's state is
\* taken from the data the page shows by then.
Resolved(do, view) ==
    IF do # "toggle" THEN do
    ELSE IF view["list"].main = "ACTIVE" THEN "disablePartner" ELSE "enablePartner"

\* A dismissed ticket dialog leaves the ticket's details, as they were when it was
\* picked: from there another action can be asked.
Alternatives(do) ==
    CASE do = "voidTicket" -> {"reissueTicket"}
      [] do = "reissueTicket" -> {"voidTicket"}
      [] OTHER -> {}

-----------------------------------------------------------------------------
(* The administration API: the data after a command, or nothing when it is *)
(* refused.                                                                *)

\* Commands that move a row or the thing itself from one state to another.
LifecycleSteps ==
    [pauseSales |-> [ON_SALE |-> "PAUSED"],
     resumeSales |-> [PAUSED |-> "ON_SALE"],
     closeSales |-> [ON_SALE |-> "SALES_CLOSED", PAUSED |-> "SALES_CLOSED"],
     complete |-> [SALES_CLOSED |-> "COMPLETED"],
     cancel |-> [DRAFT |-> "CANCELLED", ON_SALE |-> "CANCELLED",
                 PAUSED |-> "CANCELLED", SALES_CLOSED |-> "CANCELLED"]]

RowSteps ==
    [grantAccess |-> [NONE |-> "ACTIVE", DISABLED |-> "ACTIVE", ACTIVE |-> "ACTIVE"],
     disableAccess |-> [ACTIVE |-> "DISABLED", DISABLED |-> "DISABLED"],
     revokeCredential |-> [ACTIVE |-> "REVOKED", REVOKED |-> "REVOKED"],
     release |-> [BLOCK |-> "RELEASED", ALLOCATION |-> "RELEASED"],
     reclassify |-> [ALLOCATION |-> "ALLOCATION"],
     rotateWebhook |-> [ACTIVE |-> "ACTIVE", DISABLED |-> "DISABLED"],
     disableWebhook |-> [ACTIVE |-> "DISABLED"],
     voidTicket |-> [ACTIVE |-> "VOIDED"],
     reissueTicket |-> [ACTIVE |-> "ACTIVE"],
     rereleaseTicket |-> [VOIDED |-> "RERELEASED"],
     reverseAdmission |-> [ACTIVE |-> "REVERSED"],
     createAdmin |-> [NONE |-> "ACTIVE"],
     disableAdmin |-> [ACTIVE |-> "DISABLED", DISABLED |-> "DISABLED"],
     enableAdmin |-> [DISABLED |-> "ACTIVE", ACTIVE |-> "ACTIVE"],
     publishLayout |-> [DRAFT |-> "PUBLISHED"]]

Creations ==
    [issueCredential |-> "ACTIVE", createWebhook |-> "ACTIVE", createPartner |-> "ACTIVE",
     createVenue |-> "ACTIVE", createEvent |-> "DRAFT", createLayout |-> "DRAFT",
     createBlock |-> "BLOCK", createAllocation |-> "ALLOCATION"]

\* Sales open for a draft whose inventory is all priced.
OpenedSales(d) ==
    IF d.main = "DRAFT" /\ d.aux = "PRICED" THEN {[d EXCEPT !.main = "ON_SALE"]} ELSE {}

\* Prices change while the event is not over; a tier's code is taken once.
Priced(do, on, d) ==
    IF d.main \notin {"DRAFT", "ON_SALE", "PAUSED"} THEN {}
    ELSE IF do = "createPriceTier"
         THEN IF d.rows[on] = "NONE" THEN {[d EXCEPT !.rows[on] = "ACTIVE"]} ELSE {}
    ELSE IF d.aux # "NONE" /\ d.rows[on] = "ACTIVE" THEN {[d EXCEPT !.aux = "PRICED"]} ELSE {}

\* A layout can be materialized again while the event is a draft: new inventory
\* takes the place of the old, without prices.
Materialized(d) == IF d.main = "DRAFT" THEN {[d EXCEPT !.aux = "UNPRICED"]} ELSE {}

\* One active admission per ticket.
Admitted(key, d) ==
    IF Those(d, {"ACTIVE"}) = {} THEN {[d EXCEPT !.rows[key] = "ACTIVE"]} ELSE {}

Served(do, on, form, key, d) ==
    CASE do \in DOMAIN LifecycleSteps ->
            IF d.main \in DOMAIN LifecycleSteps[do]
            THEN {[d EXCEPT !.main = LifecycleSteps[do][@]]} ELSE {}
      [] do \in DOMAIN RowSteps ->
            IF d.rows[on] \in DOMAIN RowSteps[do]
            THEN {[d EXCEPT !.rows[on] = RowSteps[do][@]]} ELSE {}
      [] do \in DOMAIN Creations -> {[d EXCEPT !.rows[key] = Creations[do]]}
      [] do = "openSales" -> OpenedSales(d)
      [] do \in {"createPriceTier", "assignPricing"} -> Priced(do, on, d)
      [] do = "materializeLayout" -> Materialized(d)
      [] do = "enablePartner" -> {[d EXCEPT !.main = "ACTIVE"]}
      [] do = "disablePartner" -> {[d EXCEPT !.main = "DISABLED"]}
      [] do = "setAllowedReturnURLs" -> {[d EXCEPT !.aux = form]}
      [] do = "manualAdmission" -> Admitted(key, d)

\* What other operators may do meanwhile; what they create is left out.
Rivals(p) == Requests(p) \ (DOMAIN Creations \cup {"createAdmin", "manualAdmission"})
================================================================================
