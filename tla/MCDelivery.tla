----------------------------- MODULE MCDelivery -----------------------------
(* Two facts, one of which may fail to be dispatched for ever, an endpoint   *)
(* and two loops of one worker.  The key the endpoint's secrets are          *)
(* encrypted with may be missing from the worker's keyring.                  *)
EXTENDS OutboxDelivery, TLC

CONSTANTS f1, f2, e1, p1, l1, l2, w1

OneType     == [f \in Facts |-> "reservation.confirmed"]
EventFact   == [f \in Facts |-> IF f = f2 THEN EventWide ELSE p1]
OnePartner  == [e \in Endpoints |-> p1]
OneWorker   == [l \in Loops |-> w1]

OldKey == {{1}, {2}}
=============================================================================
