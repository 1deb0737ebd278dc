-------------------------------- MODULE MCApi ---------------------------------
(* The API process: two PATCH requests at a time on a Reservation; two      *)
(* commands with two Idempotency-Keys and two intents, retried; two streams *)
(* of an Event; and the locks of two commands on two Allocations and a      *)
(* seat, or on a pool.  A behaviour is about one of the four.               *)
EXTENDS MCPatch, MutationExecutor, RealtimeHub, InventoryLocks

CONSTANTS q1, q2, q3, k1, k2, i1, i2, s1, s2, t1, t2

RowOf(kind, n) == [kind |-> kind, id |-> n]

SomeRows ==
    {RowOf(kind, 0) : kind \in {"partner", "event", "reservation"}}
        \cup {RowOf(kind, 1) : kind \in {"restriction", "pool", "ledger"}}
        \cup {RowOf("restriction", 2)}

Guards == RowOf("ledger", 1) :> RowOf("pool", 1)

VARIABLE part

ApiInit ==
    /\ part \in {"patch", "executor", "hub", "locks"}
    /\ PatchInit /\ ExecutorInit /\ HubInit /\ LocksInit

ApiNext ==
    /\ \/ part = "patch" /\ PatchNext /\ UNCHANGED <<executorVars, hubVars, lockVars>>
       \/ part = "executor" /\ ExecutorNext /\ UNCHANGED <<patchVars, hubVars, lockVars>>
       \/ part = "hub" /\ HubNext /\ UNCHANGED <<patchVars, executorVars, lockVars>>
       \/ part = "locks" /\ LocksNext /\ UNCHANGED <<patchVars, executorVars, hubVars>>
    /\ UNCHANGED part

ApiSpec == ApiInit /\ [][ApiNext]_<<part, patchVars, executorVars, hubVars, lockVars>>

\* Each part sees the swaps of its own sets.
Same(S) == [x \in S |-> x]
Swap(x, y) == (x :> y) @@ (y :> x)
Alike ==
    {p @@ q @@ o : p \in {Same({c1, c2, k1, k2, s1, s2}),
                          Swap(c1, c2) @@ Swap(k1, k2) @@ Swap(s1, s2)},
                   q \in {Same({i1, i2, t1, t2}), Swap(i1, i2) @@ Swap(t1, t2)},
                   o \in Permutations({q1, q2, q3})}
===============================================================================
