------------------------------ MODULE MCSelector ------------------------------
(* A seat and a GA pool of two tickets. *)
EXTENDS SelectorSession

CONSTANTS seat, pool

TheStock == [o \in Offers |-> IF o \in Seats THEN 1 ELSE 2]
===============================================================================
