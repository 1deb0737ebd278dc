----------------------------- MODULE DocsWorkbench -----------------------------
(***************************************************************************)
(* The developer documentation (docs-web): its routes and layers, and the  *)
(* workbench beside the page of an operation, from which a developer of a  *)
(* Partner sends real requests, with an idempotency key drawn per intent   *)
(* and a question before what cannot be undone.                            *)
(*                                                                         *)
(* The workbench of one operation becomes that of the next when the page   *)
(* goes from one to the other; a guide between them takes it down.         *)
(***************************************************************************)
EXTENDS Naturals, FiniteSets

CONSTANTS
    Operations,
    Keyed,          \* operations that take an Idempotency-Key
    Destructive,    \* operations that ask first
    MaxDrawn,       \* bound: keys drawn
    MaxSent         \* bound: different requests sent

ASSUME WorkbenchAssumption ==
    /\ Keyed \subseteq Operations /\ Destructive \subseteq Operations
    /\ MaxDrawn \in Nat \ {0} /\ MaxSent \in Nat

VARIABLES
    route,          \* an operation, or "guide" for any other page
    open,           \* the layers over the page: nav, search, credential
    credential,     \* TRUE when one is set, for this tab
    environment,
    bench,          \* the workbench: mode, request, result, busy, confirming, call
    uuids,          \* keys drawn
    sent            \* the requests sent

docsVars == <<route, open, credential, environment, bench, uuids, sent>>

Typed == 0          \* a key of the developer's own
Texts == {"EXAMPLE", "EDITED"}
NoOperation == "none"
NoRequest == [text |-> "EXAMPLE", key |-> Typed, edited |-> FALSE, changed |-> FALSE]
NoWorkbench == [mode |-> "try", request |-> NoRequest, busy |-> FALSE,
                result |-> NoOperation,         \* the operation whose answer is shown
                confirming |-> NoOperation,     \* the operation the question is about
                call |-> NoOperation]           \* the operation under way

\* Requests are sent to the local API alone; the others are for the code samples.
Executable(e) == e = "local"

-----------------------------------------------------------------------------
(* The request. *)

Fresh == uuids + 1

InitialRequest == [NoRequest EXCEPT !.key = Fresh]

\* Mutant: an edit keeps the key.
EditUnderKey(r, text) ==
    [r EXCEPT !.text = text, !.changed = r.edited]

\* Another intent: another key, unless the developer typed one.
MaterialEdit(r, text) ==
    [r EXCEPT !.text = text, !.key = IF r.edited THEN @ ELSE Fresh, !.changed = r.edited]

\* What goes out: the key in its header where the operation takes one.
BuildRequest(op, b) ==
    [op |-> op, text |-> b.request.text, key |-> b.request.key,
     typed |-> b.request.edited, asked |-> b.confirming]

-----------------------------------------------------------------------------
(* Routes and layers. *)

\* The workbench goes on to another operation: mode, call and busy stay.
Turned(b) ==
    [b EXCEPT !.request = InitialRequest, !.result = NoOperation, !.confirming = NoOperation]

\* A first one: the same with nothing kept.
Navigate(r) ==
    /\ route' = r
    /\ IF r \notin Operations THEN bench' = NoWorkbench /\ UNCHANGED uuids
       ELSE IF r = route THEN UNCHANGED <<bench, uuids>>
       ELSE /\ uuids < MaxDrawn
            /\ uuids' = Fresh
            /\ bench' = Turned(bench)
    /\ UNCHANGED <<credential, environment, sent>>

Covered == open # {}

\* A link of the navigation, which closes its drawer.
NavigationLink(r) ==
    /\ open \subseteq {"nav"}
    /\ open' = {}
    /\ Navigate(r)

SearchResult(r) ==
    /\ "search" \in open
    /\ open' = open \ {"search"}
    /\ Navigate(r)

\* The links of a guide, an unknown page's way back, the browser's own buttons.
PageLink(r) ==
    /\ ~Covered
    /\ UNCHANGED open
    /\ Navigate(r)

\* The header's buttons; the shortcut opens the search over anything.
Open(layer) ==
    /\ layer = "search" \/ ~Covered
    /\ open' = open \cup {layer}
    /\ open' # open
    /\ UNCHANGED <<route, credential, environment, bench, uuids, sent>>

\* Its own way out closes one, Escape all of them.
Close ==
    /\ Covered
    /\ \E layer \in open : open' \in {open \ {layer}, {}}
    /\ UNCHANGED <<route, credential, environment, bench, uuids, sent>>

\* The credential typed is used for this tab; an empty one clears it.
SetCredential(given) ==
    /\ "credential" \in open
    /\ credential' = given
    /\ open' = open \ {"credential"}
    /\ UNCHANGED <<route, environment, bench, uuids, sent>>

SetEnvironment(e) ==
    /\ ~Covered
    /\ e # environment
    /\ environment' = e
    /\ UNCHANGED <<route, open, credential, bench, uuids, sent>>

-----------------------------------------------------------------------------
(* The workbench. *)

AtBench == route \in Operations /\ ~Covered
Trying == AtBench /\ bench.mode = "try"

\* "Try it", or the code sample of the request as it is.
SetMode(m) ==
    /\ AtBench /\ m # bench.mode
    /\ bench' = [bench EXCEPT !.mode = m]
    /\ UNCHANGED <<route, open, credential, environment, uuids, sent>>

SetRequest(r) ==
    /\ Trying
    /\ r.key <= MaxDrawn
    /\ bench' = [bench EXCEPT !.request = r]
    /\ uuids' = IF r.key = Fresh THEN Fresh ELSE uuids
    /\ UNCHANGED <<route, open, credential, environment, sent>>

\* A parameter or a field of the body; a text that is no JSON changes nothing.
Edit(text) == SetRequest(MaterialEdit(bench.request, text))

\* The developer types a key, one seen before perhaps.
TypeKey(key) ==
    /\ route \in Keyed
    /\ SetRequest([bench.request EXCEPT !.key = key, !.edited = TRUE, !.changed = FALSE])

GenerateKey ==
    /\ route \in Keyed
    /\ SetRequest([bench.request EXCEPT !.key = Fresh, !.edited = FALSE, !.changed = FALSE])

\* Without a credential the dialog opens, a destructive operation asks first, and only
\* then the request is sent.
execute ==
    \/ /\ ~credential
       /\ open' = open \cup {"credential"}
       /\ UNCHANGED <<bench, sent>>
    \/ /\ credential /\ route \in Destructive /\ bench.confirming = NoOperation
       /\ bench' = [bench EXCEPT !.confirming = route]
       /\ UNCHANGED <<open, sent>>
    \/ /\ credential /\ (route \in Destructive => bench.confirming # NoOperation)
       /\ sent' = sent \cup {BuildRequest(route, bench)}
       /\ Cardinality(sent') <= MaxSent
       /\ bench' = [bench EXCEPT !.busy = TRUE, !.confirming = NoOperation, !.call = route]
       /\ UNCHANGED open

Send ==
    /\ Trying /\ ~bench.busy /\ Executable(environment)
    /\ execute
    /\ UNCHANGED <<route, credential, environment, uuids>>

\* "I understand, send request", whatever the environment has become.
Understood ==
    /\ Trying /\ bench.confirming # NoOperation
    /\ execute
    /\ UNCHANGED <<route, credential, environment, uuids>>

CancelQuestion ==
    /\ Trying /\ bench.confirming # NoOperation
    /\ bench' = [bench EXCEPT !.confirming = NoOperation]
    /\ UNCHANGED <<route, open, credential, environment, uuids, sent>>

\* The answer, or an error, of whichever operation was asked; the page may have gone
\* on to another.
AnswerShown ==
    /\ bench.call # NoOperation
    /\ bench' = [bench EXCEPT !.busy = FALSE, !.call = NoOperation, !.result = bench.call]
    /\ UNCHANGED <<route, open, credential, environment, uuids, sent>>

-----------------------------------------------------------------------------
DocsInit ==
    /\ route = "guide" /\ open = {}
    /\ credential = FALSE /\ environment = "local"
    /\ bench = NoWorkbench
    /\ uuids = 0 /\ sent = {}

DocsNext ==
    \/ \E r \in Operations \cup {"guide"} : NavigationLink(r) \/ SearchResult(r) \/ PageLink(r)
    \/ \E layer \in {"nav", "search", "credential"} : Open(layer)
    \/ \E given \in BOOLEAN : SetCredential(given)
    \/ \E e \in {"local", "sandbox"} : SetEnvironment(e)
    \/ \E m \in {"try", "code"} : SetMode(m)
    \/ \E text \in Texts : Edit(text)
    \/ \E key \in Typed .. uuids : TypeKey(key)
    \/ Close \/ GenerateKey \/ Send \/ Understood \/ CancelQuestion \/ AnswerShown

-----------------------------------------------------------------------------
\* A key names one request: two that differ go out under one key only when the
\* developer typed the key.
KeyNamesOneRequest ==
    \A s, t \in sent :
        s.op \in Keyed /\ t.op \in Keyed /\ s.key = t.key /\ ~s.typed /\ ~t.typed
            => s.op = t.op /\ s.text = t.text

\* What cannot be undone goes out only after its own question, never after the one of
\* the operation the page showed before.
AskedAboutItself == \A s \in sent : s.op \in Destructive => s.asked = s.op

\* Nothing goes out that the developer did not mean: wherever the page has gone since,
\* whatever was edited, an identical retry alone reuses a key, and the question
\* answered was about this operation.
SentAsMeant == KeyNamesOneRequest /\ AskedAboutItself
================================================================================
