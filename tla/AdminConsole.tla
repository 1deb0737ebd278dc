----------------------------- MODULE AdminConsole -----------------------------
(***************************************************************************)
(* One page of the administration console at work (apps/admin-web): the    *)
(* query cache, the dialogs, the commands of useIntentMutation with the    *)
(* idempotency key kept per intent, and the administration API with its    *)
(* stored answers, over a network that loses, delays and replaces answers. *)
(*                                                                         *)
(* The query client is @tanstack/react-query as the page uses it: a query  *)
(* is read again when it is invalidated, cancelling a running read unless  *)
(* nothing has been loaded yet, and a mutation stays pending until the     *)
(* reads its success started have ended.                                   *)
(***************************************************************************)
EXTENDS AdminPages

CONSTANTS
    OpenPages,      \* the pages a run looks at
    MaxCalls,       \* bound: calls under way at a time
    MaxMishaps      \* bound per page: commands of other operators, answers lost or
                    \* replaced, reads failed, pages left

ASSUME ConsoleAssumption ==
    /\ OpenPages \subseteq Pages
    /\ MaxCalls \in Nat
    /\ MaxMishaps \in [Pages -> Nat]

VARIABLES
    page, filter,
    cache, reading, \* query -> what it shows, and what a running read will bring
    dialog,         \* the question open, a button or NoDialog
    secret,         \* the key whose secret is on the screen, or 0
    calls,          \* the mutation calls under way
    kept,           \* keys.current: pairs of an intent and its key
    drawn,          \* keys drawn
    data, stored,   \* the server: what the page is about, key -> stored answer
    mishaps,
    told,           \* keys whose success the page has been told
    forgotten,      \* keys the page dropped untold
    revealed        \* keys whose secret came up on the screen

screen == <<page, filter, cache, reading, dialog, secret>>
sending == <<calls, kept, drawn>>
server == <<data, stored>>
known == <<told, forgotten, revealed>>
vars == <<screen, sending, server, known, mishaps>>

NoDialog == [do |-> "NONE", on |-> 0]
NotLoaded == [d |-> Nothing, rev |-> -1]
NoAnswer == [state |-> "NONE", do |-> "NONE", on |-> 0, form |-> "NONE", rev |-> 0]

Init ==
    /\ page \in OpenPages
    /\ filter = "all"
    /\ cache = [q \in Queries(page) |-> NotLoaded]
    /\ reading = cache
    /\ dialog = NoDialog
    /\ secret = 0
    /\ calls = {}
    /\ kept = {}
    /\ drawn = 0
    /\ data = [d |-> Starts[page], rev |-> 0]
    /\ stored = [k \in 1 .. MaxKeys |-> NoAnswer]
    /\ mishaps = 0
    /\ told = {}
    /\ forgotten = {}
    /\ revealed = {}

Mishap == mishaps < MaxMishaps[page] /\ mishaps' = mishaps + 1

-----------------------------------------------------------------------------
(* The query cache. *)

Loaded(q) == cache[q] # NotLoaded
Running(q) == reading[q] # NotLoaded
shown == Mounted(page, filter)

\* The page's queries are read when it opens, when the window gets the focus and the
\* data is old, and by "Try again".  What the server answers is taken when it is asked;
\* a read that would bring what is there already is left out.
Refetch ==
    LET old == {q \in shown : ~Running(q) /\ cache[q] # data} IN
    /\ old # {}
    /\ reading' = [q \in DOMAIN reading |-> IF q \in old THEN data ELSE reading[q]]
    /\ UNCHANGED <<page, filter, cache, dialog, secret, sending, server, known, mishaps>>

\* The calls that wait for query q, its read ended well or badly.
Released(q, failed) ==
    {[c EXCEPT !.waits = @ \ {q},
               !.reread = IF failed /\ q \in c.waits THEN @ \ {q} ELSE @] : c \in calls}

FetchArrives(q) ==
    /\ Running(q)
    /\ cache' = [cache EXCEPT ![q] = reading[q]]
    /\ reading' = [reading EXCEPT ![q] = NotLoaded]
    /\ calls' = Released(q, FALSE)
    /\ UNCHANGED <<page, filter, dialog, secret, kept, drawn, server, known, mishaps>>

FetchFails(q) ==
    /\ Running(q)
    /\ Mishap
    /\ reading' = [reading EXCEPT ![q] = NotLoaded]
    /\ calls' = Released(q, TRUE)
    /\ UNCHANGED <<page, filter, cache, dialog, secret, kept, drawn, server, known>>

SetFilter(f) ==
    /\ f # filter
    /\ dialog = NoDialog /\ secret = 0
    /\ filter' = f
    /\ UNCHANGED <<page, cache, reading, dialog, secret, sending, server, known, mishaps>>

\* Mutant: a running read is joined, not cancelled.
JoinQueries(qs) ==
    reading' = [q \in DOMAIN reading |-> IF q \in qs /\ ~Running(q) THEN data ELSE reading[q]]

\* invalidateQueries: a running read is cancelled and begun again; a first load is
\* joined as it is.
Joined(qs) == {q \in qs : Running(q) /\ ~Loaded(q)}
InvalidateQueries(qs) ==
    reading' = [q \in DOMAIN reading |-> IF q \in qs \ Joined(qs) THEN data ELSE reading[q]]

-----------------------------------------------------------------------------
(* Buttons and dialogs. *)

Pending(do) == {c \in calls : c.watched /\ SameMutation(c.do, do)}
Busy(button) ==
    \E c \in Pending(button.do) :
        \/ button.busy = "any"
        \/ button.busy = "row" /\ c.on = button.on

Uncovered == dialog = NoDialog /\ secret = 0
Offered ==
    IF \E q \in shown : q \in {"event", "list", "all", "onlyActive"} /\ ~Loaded(q) THEN {}
    ELSE {b \in Buttons(page, [q \in shown |-> cache[q].d]) : ~Busy(b)}

\* Mutant: a key for each call.
KeyForCall(intent) == drawn + 1

\* useIntentMutation: the key of the intent, or a new one.
KeyFor(intent) ==
    IF \E k \in 1 .. drawn : <<intent, k>> \in kept
    THEN CHOOSE k \in 1 .. drawn : <<intent, k>> \in kept
    ELSE drawn + 1

\* A call starts; the button's mutation watches the latest of its calls.
Start(do, on, form, via) ==
    LET key == KeyFor(IntentOf(do, on, form)) IN
    /\ key <= MaxKeys
    /\ Cardinality(calls) < MaxCalls
    /\ calls' =
        {[c EXCEPT !.watched = @ /\ ~SameMutation(c.do, do)] : c \in calls}
            \cup {[do |-> do, on |-> on, form |-> form, key |-> key, via |-> via,
                   phase |-> "SENT", waits |-> {}, reread |-> {}, watched |-> TRUE]}
    /\ kept' = kept \cup {<<IntentOf(do, on, form), key>>}
    /\ drawn' = IF key > drawn THEN key ELSE drawn

Click(button, form) ==
    /\ Uncovered
    /\ button \in Offered /\ ~button.asks
    /\ form \in Forms(button.do)
    /\ Start(button.do, button.on, form, "button")
    /\ UNCHANGED <<screen, server, known, mishaps>>

Ask(button) ==
    /\ Uncovered
    /\ button \in Offered /\ button.asks
    /\ dialog' = [do |-> button.do, on |-> button.on]
    /\ UNCHANGED <<page, filter, cache, reading, secret, sending, server, known, mishaps>>

\* The confirming button of every dialog waits for a pending call of its mutation.
Confirm(form) ==
    LET do == Resolved(dialog.do, [q \in shown |-> cache[q].d]) IN
    /\ dialog # NoDialog
    /\ Pending(do) = {}
    /\ form \in Forms(do)
    /\ Start(do, dialog.on, form, "dialog")
    /\ UNCHANGED <<screen, server, known, mishaps>>

Dismiss ==
    /\ dialog # NoDialog
    /\ ~(dialog.do \in Guarded /\ Pending(dialog.do) # {})
    /\ \E do \in {"NONE"} \cup Alternatives(dialog.do) :
         dialog' = IF do = "NONE" THEN NoDialog ELSE [dialog EXCEPT !.do = do]
    /\ UNCHANGED <<page, filter, cache, reading, secret, sending, server, known, mishaps>>

CloseSecret ==
    /\ secret # 0
    /\ secret' = 0
    /\ UNCHANGED <<page, filter, cache, reading, dialog, sending, server, known, mishaps>>

-----------------------------------------------------------------------------
(* The server. *)

Same(answer, c) == answer.do = c.do /\ answer.on = c.on /\ answer.form = c.form

\* executeMutation: the stored answer of the key, refused for another body, or the
\* command with its answer stored in the same transaction.
Execute(c) ==
    LET results == Served(c.do, c.on, c.form, c.key, data.d)
        outcome == IF stored[c.key] # NoAnswer
                   THEN IF Same(stored[c.key], c) THEN stored[c.key].state ELSE "CONFLICT"
                   ELSE IF results = {} THEN "REFUSED" ELSE "DONE"
    IN
    /\ c \in calls /\ c.phase \in {"SENT", "ADRIFT"}
    /\ IF stored[c.key] # NoAnswer THEN UNCHANGED server
       ELSE /\ data' = IF results = {} THEN data
                       ELSE [d |-> CHOOSE d \in results : TRUE, rev |-> data.rev + 1]
            /\ stored' = [stored EXCEPT ![c.key] =
                    [state |-> outcome, do |-> c.do, on |-> c.on, form |-> c.form,
                     rev |-> data'.rev]]
    /\ calls' = (calls \ {c})
                    \cup IF c.phase = "ADRIFT" THEN {} ELSE {[c EXCEPT !.phase = outcome]}
    /\ UNCHANGED <<screen, kept, drawn, known, mishaps>>

\* Another operator's command.
OthersChange ==
    /\ Mishap
    /\ \E do \in Rivals(page) : \E on \in Rows : \E form \in Forms(do) :
         \E d \in Served(do, on, form, 0, data.d) \ {data.d} :
            data' = [d |-> d, rev |-> data.rev + 1]
    /\ UNCHANGED <<screen, sending, stored, known>>

-----------------------------------------------------------------------------
(* Answers. *)

CallIntent(c) == IntentOf(c.do, c.on, c.form)
KeysOf(intent) == {k \in 1 .. drawn : <<intent, k>> \in kept}

\* keys.current.delete(intent)
DropKey(c) == kept' = {p \in kept : p[1] # CallIntent(c)}

\* A success: the key is dropped and the page's queries are read again.
AnswerOK(c) ==
    LET qs == Invalidated(page, filter) IN
    /\ c \in calls /\ c.phase = "DONE"
    /\ DropKey(c)
    /\ told' = told \cup {c.key}
    /\ forgotten' = forgotten \cup (KeysOf(CallIntent(c)) \ told')
    /\ InvalidateQueries(qs)
    /\ calls' = (calls \ {c})
            \cup {[c EXCEPT !.phase = "REFETCHING", !.waits = qs, !.reread = qs \ Joined(qs)]}
    /\ UNCHANGED <<page, filter, cache, dialog, secret, drawn, server, revealed, mishaps>>

\* The reads have ended: the call's result comes up, and its dialog closes, with
\* whatever it is asking by then.
Settle(c) ==
    /\ c \in calls /\ c.phase = "REFETCHING" /\ c.waits = {}
    /\ calls' = calls \ {c}
    /\ dialog' = IF c.via = "dialog" /\ SameMutation(dialog.do, c.do) THEN NoDialog ELSE dialog
    /\ secret' = IF c.do \in Secretive THEN c.key ELSE secret
    /\ revealed' = IF c.do \in Secretive THEN revealed \cup {c.key} ELSE revealed
    /\ UNCHANGED <<page, filter, cache, reading, kept, drawn, server, told, forgotten, mishaps>>

\* A refusal, and a conflict with another body under the same key: nothing ambiguous.
AnswerRefused(c) ==
    /\ c \in calls /\ c.phase \in {"REFUSED", "CONFLICT"}
    /\ DropKey(c)
    /\ forgotten' = forgotten \cup
            (KeysOf(CallIntent(c)) \ IF c.phase = "REFUSED" THEN told \cup {c.key} ELSE told)
    /\ calls' = calls \ {c}
    /\ UNCHANGED <<screen, drawn, server, told, revealed, mishaps>>

\* What remains of a call nobody listens to.
CutOff(c) ==
    calls' = (calls \ {c}) \cup IF c.phase = "SENT" THEN {[c EXCEPT !.phase = "ADRIFT",
                                                            !.watched = FALSE]} ELSE {}
Answerable(c) == c \in calls /\ c.phase \in {"SENT", "DONE", "REFUSED", "CONFLICT"}

\* A gateway's error is an answer like any other: parseError calls none ambiguous.
GatewayError(c) ==
    /\ Answerable(c)
    /\ Mishap
    /\ DropKey(c)
    /\ forgotten' = forgotten \cup (KeysOf(CallIntent(c)) \ told)
    /\ CutOff(c)
    /\ UNCHANGED <<screen, drawn, server, told, revealed>>

\* Mutant: an ambiguous answer drops the key.
LostWithKey(c) ==
    /\ Answerable(c)
    /\ Mishap
    /\ DropKey(c)
    /\ CutOff(c)
    /\ UNCHANGED <<screen, drawn, server, known>>

\* No answer: ambiguous, the intent keeps its key.
Lost(c) ==
    /\ Answerable(c)
    /\ Mishap
    /\ CutOff(c)
    /\ UNCHANGED <<screen, kept, drawn, server, known>>

\* The operator leaves the page and comes back: its dialogs, its secret and its keys
\* are gone, and the answers of its calls tell nobody.
Leave ==
    /\ Mishap
    /\ dialog' = NoDialog
    /\ secret' = 0
    /\ kept' = {}
    /\ forgotten' = forgotten \cup {p[2] : p \in kept} \cup {c.key : c \in calls}
    /\ calls' = {[c EXCEPT !.phase = "ADRIFT", !.watched = FALSE] :
                    c \in {x \in calls : x.phase \in {"SENT", "ADRIFT"}}}
    /\ UNCHANGED <<page, filter, cache, reading, drawn, server, told, revealed>>

-----------------------------------------------------------------------------
Next ==
    \/ Refetch
    \/ \E q \in DOMAIN cache : FetchArrives(q) \/ FetchFails(q)
    \/ \E f \in Filters(page) : SetFilter(f)
    \/ \E b \in Offered : Ask(b) \/ \E form \in Forms(b.do) : Click(b, form)
    \/ \E form \in {"FIRST", "SECOND"} : Confirm(form)
    \/ Dismiss \/ CloseSecret \/ OthersChange \/ Leave
    \/ \E c \in calls :
         Execute(c) \/ AnswerOK(c) \/ AnswerRefused(c) \/ Settle(c) \/ GatewayError(c) \/ Lost(c)

Spec == Init /\ [][Next]_vars

-----------------------------------------------------------------------------
Done == {k \in 1 .. MaxKeys : stored[k].state = "DONE"}

\* Two commands the server has carried out for one intent of the operator are two
\* because the page was told of one, or had dropped its key without an answer (a
\* gateway's error, a refusal for another body, the page left): a lost answer, a second
\* click or a row's own button never does the work twice.
OneEffectPerIntent ==
    \A j, k \in Done :
        j # k /\ stored[j].do = stored[k].do /\ stored[j].on = stored[k].on
              /\ stored[j].form = stored[k].form
            => {j, k} \cap (told \cup forgotten) # {}

\* A secret the server has made is on its way to the screen, has come up there, or can
\* be asked for again under the kept key, as long as the page stays and no gateway
\* answers in the server's place.
SecretsAreAccounted ==
    \A k \in Done : stored[k].do \in Secretive =>
        \/ k \in revealed \cup forgotten
        \/ \E c \in calls : c.key = k /\ c.phase # "ADRIFT"
        \/ \E p \in kept : p[2] = k

\* "The page will refetch before showing the result": when a command's result comes up,
\* the queries it invalidated show data no older than the command, unless the read
\* failed or was the page's first.
RefetchedBeforeShown ==
    \A c \in calls : c.phase = "REFETCHING" =>
        \A q \in c.reread \ c.waits : cache[q].rev >= stored[c.key].rev

================================================================================
