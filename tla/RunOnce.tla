------------------------------- MODULE RunOnce --------------------------------
(***************************************************************************)
(* What an Idempotency-Key promises for the commands of one Reservation:   *)
(* the command of a key is decided once.  It takes effect when it is       *)
(* accepted and never otherwise; a plain refusal changes nothing, and a    *)
(* refusal because the hold ran out leaves the Reservation expired.        *)
(***************************************************************************)
EXTENDS Naturals

CONSTANT Keys

VARIABLES
    outcome,    \* how the command of each key was decided
    effects,    \* how often each command has taken effect
    expired     \* the Reservation is expired

runOnceVars == <<outcome, effects, expired>>

Undecided == "NONE"

RunOnceInit ==
    /\ outcome = [k \in Keys |-> Undecided]
    /\ effects = [k \in Keys |-> 0]
    /\ expired = FALSE

Decide(k, code) ==
    /\ outcome[k] = Undecided
    /\ outcome' = [outcome EXCEPT ![k] = code]

Accept(k) ==
    /\ ~expired /\ Decide(k, "OK")
    /\ effects' = [effects EXCEPT ![k] = @ + 1]
    /\ UNCHANGED expired

Refuse(k) == Decide(k, "REFUSED") /\ UNCHANGED <<effects, expired>>

RefuseExpired(k) ==
    Decide(k, "HOLD_EXPIRED") /\ expired' = TRUE /\ UNCHANGED effects

\* The worker expires it when no command comes.
ExpireUnasked == ~expired /\ expired' = TRUE /\ UNCHANGED <<outcome, effects>>

RunOnceNext ==
    \/ \E k \in Keys : Accept(k) \/ Refuse(k) \/ RefuseExpired(k)
    \/ ExpireUnasked

RunOnceSpec == RunOnceInit /\ [][RunOnceNext]_runOnceVars
===============================================================================
