------------------------------ MODULE MCPartnerGate ------------------------------
(* Beside the administration: a Partner's storefront with two tabs, where   *)
(* orders are bought; and a gate, where one ticket with two credentials is  *)
(* presented at one of two events.  A behaviour is about one of the two.    *)
EXTENDS GateScanner, Storefront, TLC

CONSTANTS t1, e1, e2, c1, c2, u1, u2, tab1, tab2, north, south

VARIABLE part

TheEvent == [t \in Tickets |-> e1]
TheTicket == [c \in Codes |-> t1]
Troubles == [n \in 0 .. MaxOrders |-> IF n < 2 THEN 2 ELSE 0]
\* Each part sees the swaps of its own sets.
Same(S) == [x \in S |-> x]
Swap(x, y) == (x :> y) @@ (y :> x)
Alike ==
    {p @@ q : p \in {Same({u1, u2, tab1, tab2}), Swap(u1, u2) @@ Swap(tab1, tab2)},
              q \in {Same({c1, c2, north, south}), Swap(c1, c2) @@ Swap(north, south)}}

\* Two faults, or one beside one change by others; after the second of them, codes are
\* typed in.
FewUpsets == faults + changes < 2 \/ (faults + changes = 2 /\ camera = "OFF")

PartsInit ==
    /\ part \in {"gate", "storefront"}
    /\ ScannerInit /\ StorefrontInit

PartsNext ==
    /\ \/ part = "gate" /\ Next /\ UNCHANGED storeVars
       \/ part = "storefront" /\ StorefrontNext /\ UNCHANGED vars
    /\ UNCHANGED part

PartsSpec == PartsInit /\ [][PartsNext]_<<part, vars, storeVars>>
==================================================================================
