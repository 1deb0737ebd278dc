----------------------------- MODULE LayoutBuilder -----------------------------
(***************************************************************************)
(* The floor-plan builder of the administration console (admin-web,        *)
(* features/venues/layout-builder) and what the administration API makes   *)
(* of its saves: one draft layout, opened, edited, saved, published and    *)
(* closed by one operator, with calls that overlap, get lost or meet       *)
(* another operator's.                                                     *)
(*                                                                         *)
(* An object's amount stands for its rows, seats per row and first seat    *)
(* number, its tables, or its capacity; its name for its place, size and   *)
(* rotation too.  Table areas behave as reserved sections do.              *)
(***************************************************************************)
EXTENDS Integers, SequencesExt

CONSTANTS
    Drafts,         \* the drafts a run starts from: sets of areas
    Palette,        \* bound: the kinds of objects a run adds
    MaxObjects,     \* bound: objects on the floor plan
    MaxSaves,       \* bound: idempotency keys drawn
    MaxEdits,       \* bound: edits, answers lost and other operators' commands together
    MaxUpsets       \* bound: answers lost and other operators' commands

VARIABLES
    opened, objects, dirty, confirmation,   \* the editor
    saves, intents, saveKeys,               \* its calls, keys.current, keys drawn
    draft, published, outcomes,             \* the server: the layout, stored answers
    loaded, reshaped, edits, upsets, excused \* what happened, for the properties

editor == <<opened, objects, dirty, confirmation>>
saving == <<saves, intents, saveKeys>>
layout == <<draft, published, outcomes>>
history == <<loaded, reshaped, edits, upsets, excused>>
builderVars == <<editor, saving, layout, history>>

Names == {"GIVEN", ""}
Amounts == {0, 2}
NoPlaces == [by |-> "NOBODY", amount |-> 0, uniform |-> FALSE]
Kinds == {"RESERVED", "GA", "STAGE"}
PlacesRow == [by : {"NOBODY", "API", "BUILDER"}, amount : Nat, uniform : BOOLEAN]

\* A section has places, a stage has none.
HasItsPlaces(a) == IF a.type = "STAGE" THEN a.places = NoPlaces ELSE a.places.by # "NOBODY"

\* A layout as the editor can meet it.  validateLayout refuses two sections with one key;
\* stages are in the drawing, which the API takes as it is, under keys of stableKey.
FloorPlan(areas) ==
    /\ IsFiniteSet(areas)
    /\ \A a \in areas :
         /\ a = [key |-> a.key, type |-> a.type, name |-> a.name, places |-> a.places]
         /\ a.type \in Kinds /\ a.places \in PlacesRow /\ HasItsPlaces(a)
    /\ \A a, b \in areas : a.key = b.key => a = b

ASSUME BuilderAssumption ==
    /\ \A d \in Drafts : FloorPlan(d)
    /\ Palette \subseteq Kinds
    /\ MaxObjects \in Nat /\ MaxSaves \in Nat

-----------------------------------------------------------------------------
(* The model of the floor plan. *)

\* Seats the builder numbers.  Rows without seats come back as no generator's.
Generated(o) ==
    [by |-> "BUILDER", amount |-> o.amount, uniform |-> o.type = "GA" \/ o.amount > 0]

\* Mutant: seats are numbered anew when the section was renamed.
PlacesOfRenamed(o) ==
    IF o.type = "STAGE" THEN NoPlaces
    ELSE IF o.structural = NoPlaces \/ o.name # "GIVEN" THEN Generated(o)
    ELSE IF o.type = "GA" /\ o.structural.uniform THEN [o.structural EXCEPT !.amount = o.amount]
    ELSE o.structural

\* toLayout, of one object: the structure it was loaded with, unless an edit dropped
\* it; a standing area takes the new capacity if it is one zone.
PlacesOf(o) ==
    IF o.type = "STAGE" THEN NoPlaces
    ELSE IF o.structural = NoPlaces THEN Generated(o)
    ELSE IF o.type = "GA" /\ o.structural.uniform THEN [o.structural EXCEPT !.amount = o.amount]
    ELSE o.structural

toLayout(os) ==
    [i \in DOMAIN os |->
        [key |-> os[i].key, type |-> os[i].type, name |-> os[i].name, places |-> PlacesOf(os[i])]]
Sections(body) == {i \in DOMAIN body : body[i].type # "STAGE"}

\* fromLayout: inferReservedGenerator finds the amounts, or the numbering is preserved.
FromArea(a) ==
    [key |-> a.key, type |-> a.type, name |-> a.name,
     amount |-> IF a.places.uniform THEN a.places.amount ELSE 0,
     preserved |-> a.type = "RESERVED" /\ ~a.places.uniform,
     structural |-> a.places]
fromLayout(areas) == LET s == SetToSeq(areas) IN [i \in DOMAIN s |-> FromArea(s[i])]

\* The first key of the name no object has.
stableKey(base, existing) ==
    <<base, CHOOSE n \in 1 .. MaxObjects + 1 :
                <<base, n>> \notin existing /\ \A m \in 1 .. n - 1 : <<base, m>> \in existing>>

KeysIn(os) == {os[i].key : i \in DOMAIN os}
Keys(areas) == {a.key : a \in areas}

-----------------------------------------------------------------------------
BuilderInit ==
    /\ opened = FALSE /\ objects = <<>> /\ dirty = FALSE /\ confirmation = "NONE"
    /\ saves = {} /\ intents = {} /\ saveKeys = 0
    /\ draft \in Drafts
    /\ published = FALSE
    /\ outcomes = [k \in 1 .. MaxSaves |-> "NONE"]
    /\ loaded = {} /\ reshaped = {} /\ edits = 0 /\ upsets = 0 /\ excused = FALSE

Upset == upsets < MaxUpsets /\ edits + upsets < MaxEdits /\ upsets' = upsets + 1

\* openEditor: what the server answers is what is edited.
OpenEditor ==
    /\ ~opened /\ ~published
    /\ opened' = TRUE
    /\ objects' = fromLayout(draft)
    /\ dirty' = FALSE
    /\ confirmation' = "NONE"
    /\ loaded' = draft
    /\ reshaped' = {}
    /\ excused' = (saves # {})
    /\ UNCHANGED <<saving, layout, edits, upsets>>

CloseEditor ==
    /\ opened' = FALSE /\ objects' = <<>> /\ dirty' = FALSE /\ confirmation' = "NONE"
    /\ loaded' = {} /\ reshaped' = {} /\ excused' = FALSE

Editable == opened /\ confirmation = "NONE" /\ edits + upsets < MaxEdits

\* Every edit: the editor is dirty; a save under way carries what was there before.
Edited(os) ==
    /\ Editable
    /\ objects' = os
    /\ dirty' = TRUE
    /\ edits' = edits + 1
    /\ excused' = (excused \/ saves # {})
    /\ UNCHANGED <<opened, confirmation, saving, layout, loaded, upsets>>

add(type) ==
    /\ Len(objects) < MaxObjects
    /\ Edited(Append(objects,
            [key |-> stableKey(type, KeysIn(objects)), type |-> type, name |-> "GIVEN",
             amount |-> 2, preserved |-> FALSE, structural |-> NoPlaces]))
    /\ UNCHANGED reshaped

rename(i, name) ==
    /\ objects[i].name # name
    /\ Edited([objects EXCEPT ![i].name = name])
    /\ UNCHANGED reshaped

\* Rows, seats, tables and numbers drop the structure; "Regenerate seating" is offered
\* for a preserved numbering, the fields for any other.
reshape(i, amount) ==
    LET o == objects[i] IN
    /\ o.type = "RESERVED"
    /\ IF o.preserved THEN amount = IF o.structural.amount > 1 THEN o.structural.amount ELSE 1
                      ELSE amount # o.amount
    /\ Edited([objects EXCEPT ![i].amount = amount, ![i].preserved = FALSE,
                              ![i].structural = NoPlaces])
    /\ reshaped' = reshaped \cup ({o.key} \cap Keys(loaded))

setCapacity(i, amount) ==
    /\ objects[i].type = "GA"
    /\ amount # objects[i].amount
    /\ Edited([objects EXCEPT ![i].amount = amount])
    /\ reshaped' = reshaped \cup ({objects[i].key} \cap Keys(loaded))

remove(i) ==
    /\ Edited(RemoveAt(objects, i))
    /\ reshaped' = reshaped \cup ({objects[i].key} \cap Keys(loaded))

-----------------------------------------------------------------------------
(* The toolbar and the two questions. *)

Replacing == \E c \in saves : c.step = "REPLACE"
Publishing == \E c \in saves : c.step = "PUBLISH"

\* useIntentMutation: the key of the intent, or a new one.
SaveKey(intent) ==
    IF \E k \in 1 .. saveKeys : <<intent, k>> \in intents
    THEN CHOOSE k \in 1 .. saveKeys : <<intent, k>> \in intents
    ELSE saveKeys + 1

CallWith(intent, others, call) ==
    LET key == SaveKey(intent) IN
    /\ key <= MaxSaves
    /\ intents' = intents \cup {<<intent, key>>}
    /\ saveKeys' = IF key > saveKeys THEN key ELSE saveKeys
    /\ saves' = others \cup {[call EXCEPT !.key = key]}

Replace(does) ==
    LET body == toLayout(objects) IN
    /\ Cardinality(saves) < 2
    /\ CallWith(<<"replace", body>>, saves,
                [id |-> IF \E c \in saves : c.id = 1 THEN 2 ELSE 1, does |-> does,
                 step |-> "REPLACE", body |-> body, key |-> 0, answer |-> "NONE"])

save ==
    /\ opened /\ confirmation = "NONE"
    /\ dirty /\ Sections(toLayout(objects)) # {} /\ ~Replacing
    /\ Replace("SAVE")
    /\ excused' = (saves # {})
    /\ UNCHANGED <<editor, layout, loaded, reshaped, edits, upsets>>

askPublish ==
    /\ opened /\ confirmation = "NONE"
    /\ Sections(toLayout(objects)) # {} /\ ~Publishing
    /\ confirmation' = "publish"
    /\ UNCHANGED <<opened, objects, dirty, saving, layout, history>>

\* The question is busy while the layout is published, not while it is saved for it.
confirmPublish ==
    /\ confirmation = "publish" /\ ~Publishing
    /\ Replace("PUBLISH")
    /\ UNCHANGED <<editor, layout, history>>

continueEditing ==
    /\ confirmation # "NONE"
    /\ ~(confirmation = "publish" /\ Publishing)
    /\ confirmation' = "NONE"
    /\ UNCHANGED <<opened, objects, dirty, saving, layout, history>>

close ==
    /\ opened /\ confirmation = "NONE"
    /\ IF dirty
       THEN confirmation' = "discard" /\ UNCHANGED <<opened, objects, dirty, loaded, reshaped, excused>>
       ELSE CloseEditor
    /\ UNCHANGED <<saving, layout, edits, upsets>>

discard ==
    /\ confirmation = "discard"
    /\ CloseEditor
    /\ UNCHANGED <<saving, layout, edits, upsets>>

-----------------------------------------------------------------------------
(* The server. *)

\* validateLayout, and only drafts are edited.
Acceptable(body) ==
    /\ ~published
    /\ Sections(body) # {}
    /\ \A i \in Sections(body) :
         body[i].name # "" /\ \A j \in Sections(body) : i # j => body[i].key # body[j].key

Publishable ==
    /\ ~published
    /\ \E a \in draft : a.type = "GA" \/ a.places.amount > 0

\* ReplaceDraftLayout or PublishLayout, unless the key has its answer already.  The
\* draft is then not what the call carries, if it was changed since.
ServeSave(c) ==
    LET fresh == outcomes[c.key] = "NONE"
        ok == IF c.step = "REPLACE" THEN Acceptable(c.body) ELSE Publishable
        answer == IF ~fresh THEN outcomes[c.key] ELSE IF ok THEN "DONE" ELSE "REFUSED"
    IN
    /\ c \in saves /\ c.answer = "NONE"
    /\ saves' = (saves \ {c}) \cup {[c EXCEPT !.answer = answer]}
    /\ outcomes' = [outcomes EXCEPT ![c.key] = answer]
    /\ draft' = IF fresh /\ ok /\ c.step = "REPLACE" THEN ToSet(c.body) ELSE draft
    /\ published' = (published \/ (fresh /\ ok /\ c.step = "PUBLISH"))
    /\ excused' = (excused \/ (c.step = "REPLACE" /\ answer = "DONE" /\ draft' # ToSet(c.body)))
    /\ UNCHANGED <<editor, intents, saveKeys, loaded, reshaped, edits, upsets>>

\* Another operator saves, or publishes, the same draft.
OtherOperator ==
    /\ Upset
    /\ ~published
    /\ \/ draft' \in Drafts \ {draft} /\ UNCHANGED published
       \/ Publishable /\ published' = TRUE /\ UNCHANGED draft
    /\ excused' = opened
    /\ UNCHANGED <<editor, saving, outcomes, loaded, reshaped, edits>>

-----------------------------------------------------------------------------
(* Answers. *)

IntentOfSave(c) == IF c.step = "REPLACE" THEN <<"replace", c.body>> ELSE <<"publish", <<>>>>
DropIntent(c) == {p \in intents : p[1] # IntentOfSave(c)}

\* Mutant: whatever the answer was, the editor is clean.
StillDirtyNever(c) == FALSE

\* A save that succeeds makes the editor clean, whatever was edited meanwhile.
StillDirty(c) == dirty /\ c.answer # "DONE"

SaveEnds(c) ==
    /\ c \in saves /\ c.step = "REPLACE" /\ c.does = "SAVE" /\ c.answer # "NONE"
    /\ dirty' = StillDirty(c)
    /\ saves' = saves \ {c}
    /\ intents' = DropIntent(c)
    /\ UNCHANGED <<opened, objects, confirmation, saveKeys, layout, history>>

\* The save a publication begins with has ended; the layout is published as it is then.
ReplacedForPublication(c) ==
    /\ c \in saves /\ c.step = "REPLACE" /\ c.does = "PUBLISH" /\ c.answer # "NONE"
    /\ IF c.answer = "DONE"
       THEN LET key == SaveKey(<<"publish", <<>>>>) IN
            /\ key <= MaxSaves
            /\ saves' = (saves \ {c}) \cup
                    {[c EXCEPT !.step = "PUBLISH", !.key = key, !.answer = "NONE"]}
            /\ intents' = DropIntent(c) \cup {<<<<"publish", <<>>>>, key>>}
            /\ saveKeys' = IF key > saveKeys THEN key ELSE saveKeys
       ELSE saves' = saves \ {c} /\ intents' = DropIntent(c) /\ UNCHANGED saveKeys
    /\ UNCHANGED <<editor, layout, history>>

\* Published: the editor closes, with whatever it holds.
PublishEnds(c) ==
    /\ c \in saves /\ c.step = "PUBLISH" /\ c.answer # "NONE"
    /\ saves' = saves \ {c}
    /\ intents' = DropIntent(c)
    /\ IF c.answer = "DONE" THEN CloseEditor ELSE UNCHANGED <<editor, loaded, reshaped, excused>>
    /\ UNCHANGED <<saveKeys, layout, edits, upsets>>

\* No answer: ambiguous, the intent keeps its key.  A lost request is not served later.
SaveLost(c) ==
    /\ c \in saves
    /\ Upset
    /\ saves' = saves \ {c}
    /\ UNCHANGED <<editor, intents, saveKeys, layout, loaded, reshaped, edits, excused>>

-----------------------------------------------------------------------------
BuilderNext ==
    \/ OpenEditor \/ save \/ askPublish \/ confirmPublish \/ continueEditing
    \/ close \/ discard \/ OtherOperator
    \/ \E type \in Palette : add(type)
    \/ \E i \in DOMAIN objects :
         \/ remove(i)
         \/ \E name \in Names : rename(i, name)
         \/ \E amount \in Amounts : reshape(i, amount) \/ setCapacity(i, amount)
    \/ \E c \in saves :
         ServeSave(c) \/ SaveEnds(c) \/ ReplacedForPublication(c) \/ PublishEnds(c) \/ SaveLost(c)

-----------------------------------------------------------------------------
\* No two objects of a floor plan share a key, whatever is added and deleted in which
\* order: keys are what seats, prices and the buyer's view refer to.  And a section whose
\* seats, rows or capacity the operator has not touched goes back to the server with the
\* structure it came with, numbers and labels, whatever else was edited.
FloorPlanIsKept ==
    /\ \A i, j \in DOMAIN objects : i # j => objects[i].key # objects[j].key
    /\ \A i \in DOMAIN objects : \A a \in loaded :
        objects[i].key = a.key /\ a.key \notin reshaped => toLayout(objects)[i].places = a.places

\* An editor that says nothing is unsaved, and closes without asking, shows what the
\* server has, unless since the last save was sent the operator went on editing under a
\* call, another operator wrote, or a stored answer came for what the draft does not hold.
CleanIsSaved ==
    opened /\ ~dirty /\ ~excused => ToSet(toLayout(objects)) = draft

\* "This saves the current floor plan and publishes it as an immutable venue layout": a
\* layout published from the builder is the floor plan its operator confirmed.
PublishedAsConfirmed ==
    \A c \in saves : c.step = "PUBLISH" /\ c.answer = "DONE" => draft = ToSet(c.body)
================================================================================
