----------------------------- MODULE SeatLedger ------------------------------
(***************************************************************************)
(* What the reservation authority promises about seats, with everything    *)
(* else forgotten: no clock, payment attempts, Event, Partner, Allocation  *)
(* or Block.  A reservation is open (its Partner may change or give up     *)
(* what it holds), then protected (a payment is under way: what it holds   *)
(* is fixed), and ends sold or closed.  A seat is held by at most one      *)
(* reservation, a protected reservation sells exactly what it holds, and   *)
(* what is sold is sold for good.                                          *)
(***************************************************************************)
CONSTANTS Units, Reservations

VARIABLES
    phase,  \* none, open, protected, sold or closed, per reservation
    held    \* the seats each reservation holds or has bought

Init ==
    /\ phase = [r \in Reservations |-> "none"]
    /\ held = [r \in Reservations |-> {}]

HeldElsewhere(r) == UNION {held[q] : q \in Reservations \ {r}}

Move(r, from, to) ==
    /\ phase[r] \in from
    /\ phase' = [phase EXCEPT ![r] = to]

\* r comes to hold S, which nobody else holds.
Hold(r, S) ==
    /\ S \cap HeldElsewhere(r) = {}
    /\ held' = [held EXCEPT ![r] = S]

Open(r)    == Move(r, {"none"}, "open") /\ \E S \in SUBSET Units : Hold(r, S)
Change(r)  == Move(r, {"open"}, "open") /\ \E S \in SUBSET Units : Hold(r, S)
Protect(r) == Move(r, {"open"}, "protected") /\ UNCHANGED held
Reopen(r)  == Move(r, {"protected"}, "open") /\ UNCHANGED held
Sell(r)    == Move(r, {"protected"}, "sold") /\ UNCHANGED held
Close(r)   == Move(r, {"open", "protected"}, "closed") /\ Hold(r, {})

Next == \E r \in Reservations :
    Open(r) \/ Change(r) \/ Protect(r) \/ Reopen(r) \/ Sell(r) \/ Close(r)

Spec == Init /\ [][Next]_<<phase, held>>
=============================================================================
