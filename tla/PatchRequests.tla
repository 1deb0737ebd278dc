--------------------------- MODULE PatchRequests ----------------------------
(***************************************************************************)
(* PATCH of a Reservation, as Partners and buyers call it                  *)
(* (backend/internal/partnerapi/reservation_commands.go, and the same      *)
(* steps in backend/internal/selectionapi/reservations.go, where requests  *)
(* of one buyer session wait for each other): the request names items to   *)
(* remove and items to add, and the handler turns it into the full         *)
(* composition that Modify takes.                                          *)
(*                                                                         *)
(* One transaction, but two steps.  The current items are read without a   *)
(* lock, and Modify locks the Reservation afterwards; at READ COMMITTED    *)
(* other transactions commit in between.  These handlers are the only      *)
(* callers of Modify.  Quantities of GA items are not modelled here.       *)
(***************************************************************************)
EXTENDS Reservation

CONSTANTS
    Calls,      \* PATCH requests in progress at the same time
    NoPatch     \* no request

\* Clients may ask for every composition of seats that takes a unit once.
ASSUME PatchAssumption ==
    \A S \in SUBSET Seat :
        S # {} /\ (\A k, l \in S : k.unit = l.unit => k = l)
          => [seats |-> S, places |-> NoPlaces] \in Orders

VARIABLE
    patch       \* what each request names, and what it has read

patchVars == <<patch, vars>>

PatchInit == Init /\ patch = [c \in Calls |-> NoPatch]

-----------------------------------------------------------------------------
\* loadReservationItemInputs, and the checks of the request against its result.
\* An item is known by its seat.  lost are the seats whose item ended after
\* the request read them: a seat that is added again has a new item.
LoadItems(c, r, remove, add) ==
    /\ patch[c] = NoPatch
    /\ State(r) # "NONE"
    /\ remove \subseteq items[r].seats
    /\ add \cap items[r].seats = {} /\ remove \cup add # {}
    /\ patch' = [patch EXCEPT ![c] =
            [r |-> r, remove |-> remove, add |-> add,
             seen |-> items[r].seats, lost |-> {}]]
    /\ UNCHANGED vars

\* The items sent back to Modify with their identity.
Kept(c) == patch[c].seen \ patch[c].remove

\* finalItems.
FinalItems(c) == [seats |-> Kept(c) \cup patch[c].add, places |-> NoPlaces]

\* Mutant: a composition may be empty.
NormalizedEmpty(q) == \A k, l \in q.seats : k.unit = l.unit => k = l

\* normalizeItems.
Normalized(q) ==
    /\ q.seats # {}
    /\ \A k, l \in q.seats : k.unit = l.unit => k = l

\* Mutant: an item that is gone is taken again.
KeptAnyway(c) == TRUE

\* planReservationModificationByIdentity: every item sent back is still active.
KeptIsActive(c) == Kept(c) \subseteq items[patch[c].r].seats \ patch[c].lost

\* Modify, under the locks.  Every other active item ends.
ApplyPatch(c, r) ==
    /\ patch[c] # NoPatch /\ patch[c].r = r
    /\ Normalized(FinalItems(c))
    /\ Modify(r, FinalItems(c))
    /\ State(r)' = "HELD" => KeptIsActive(c)
    /\ patch' = [d \in Calls |->
         CASE d = c -> NoPatch
           [] patch[d] # NoPatch /\ d # c /\ patch[d].r = r ->
                [patch[d] EXCEPT !.lost = @ \cup (items[r].seats \ Kept(c))]
           [] OTHER -> patch[d]]

\* The request is refused, or its transaction rolls back.
AbandonPatch(c) ==
    /\ patch[c] # NoPatch
    /\ patch' = [patch EXCEPT ![c] = NoPatch]
    /\ UNCHANGED vars

PatchNext ==
    \/ \E c \in Calls :
         \/ \E r \in Reservations, remove, add \in SUBSET Seat :
              LoadItems(c, r, remove, add)
         \/ \E r \in Reservations : ApplyPatch(c, r)
         \/ AbandonPatch(c)
    \/ /\ \/ Tick
          \/ Operator
          \/ Materialize
          \/ \E r \in Reservations : Settlement(r) \/ \E q \in Orders : Create(r, q)
       /\ UNCHANGED patch

PatchSpec == PatchInit /\ [][PatchNext]_patchVars

-----------------------------------------------------------------------------
Applied(c, r) == ApplyPatch(c, r) /\ State(r)' = "HELD"

\* A PATCH gives the Reservation no seat that it does not name: an item that
\* another request removed between the two steps makes it fail, and is never
\* silently taken again.
AddsOnlyWhatItNames ==
    [][\A c \in Calls, r \in Reservations : Applied(c, r) =>
        items'[r].seats \subseteq items[r].seats \cup patch[c].add]_patchVars

\* A PATCH takes no seat from the Reservation that it does not name.
RemovesOnlyWhatItNames ==
    [][\A c \in Calls, r \in Reservations : Applied(c, r) =>
        items[r].seats \ items'[r].seats \subseteq patch[c].remove]_patchVars

\* For the Reservation, a PATCH is one atomic Modify with some composition a
\* client could have asked for, whatever it read: everything that holds of
\* Reservation holds with stale reads too.
PatchesAreModifications == Spec
=============================================================================
