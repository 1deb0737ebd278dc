---------------------------- MODULE InventoryLocks ----------------------------
(* The order in which the commands on an Event lock rows (reservation/,     *)
(* allocation/, inventory/capacity.go, event/commercial_policy.go, and the  *)
(* executors they run in).                                                  *)
(*                                                                          *)
(* A command is the set of locks it takes, each at a stage; stages come in  *)
(* order, and the rows of a stage in the order of their ids where a stage   *)
(* is sorted.  A row is taken FOR KEY SHARE or FOR UPDATE and kept until    *)
(* the transaction ends.  What the rows say is left to the other modules.   *)
(*                                                                          *)
(* One row stands for the rows a statement locks together (a restriction    *)
(* and its Allocation) and for those only its lock leads to (the items and  *)
(* attempts of a Reservation).  The rows of a seat (claims, memberships)    *)
(* and of a pool (shared stock, buckets) are the ledger: they are locked in *)
(* whichever order the command meets them.  The locks foreign keys take are *)
(* locks too: an idempotency row's and an audit fact's on the Partner.      *)
(* Other Events share only Partners; ids are compared as numbers, which is  *)
(* how their bytes and their strings compare.                               *)
EXTENDS Naturals, FiniteSets

CONSTANTS
    Transactions,  \* transactions at a time
    LockRows,      \* rows: their kind and their id
    GuardOf,       \* the seat or pool a ledger row belongs to
    MaxId          \* the largest id

Kinds == {"key", "partner", "event", "reservation", "restriction", "unit", "pool", "ledger"}

RowsOf(kind) == {r \in LockRows : r.kind = kind}

ASSUME LocksAssumption ==
    /\ MaxId \in Nat
    /\ LockRows \subseteq [kind : Kinds, id : 0..MaxId]
    /\ \E e \in LockRows : RowsOf("event") = {e}
    /\ GuardOf \in [RowsOf("ledger") -> RowsOf("unit") \cup RowsOf("pool")]

VARIABLES
    asks,   \* locks the transaction's command has still to take
    holds   \* locks it has

lockVars == <<asks, holds>>

\* The stages, and when the turn of each comes.
Turn == [
    KEY |-> 1,          \* the idempotency row, or the selection session in its place
    CALLER |-> 2,       \* the Partner a new idempotency row belongs to
    GATE |-> 3,         \* the Event
    AUTHORITY |-> 4,    \* the Partner a Reservation or an Allocation is made for
    AGGREGATE |-> 5,    \* the Reservation
    RESTRICTION |-> 6,  \* Allocations or a Block
    DESTINATION |-> 7,  \* where an Allocation returns to
    UNIT |-> 8,
    POOL |-> 9,
    LEDGER |-> 10,
    FACT |-> 11]        \* the Partner an audit fact is about

\* Mutant: Allocations are locked in the order the command names them.
SortedInventory == {"UNIT", "POOL"}

\* sortedUUIDSet, SortUUIDs and ORDER BY id.
Sorted == {"RESTRICTION", "UNIT", "POOL"}

Lock == [stage : DOMAIN Turn, row : LockRows, mode : {"KEY SHARE", "UPDATE"}]

Take(stage, mode, R) == [stage : {stage}, row : R, mode : {mode}]

AtMostOne(kind) == {{}} \cup {{r} : r \in RowsOf(kind)}

\* The Event row every command locks before what it decides by.
Gate(mode) == Take("GATE", mode, RowsOf("event"))

\* The executor's claim of a key; the Partner API's row has a Partner.
Executor(k, p) == Take("KEY", "UPDATE", k) \cup Take("CALLER", "KEY SHARE", p)

\* Seats and pools, and rows of theirs.
Stock == RowsOf("unit") \cup RowsOf("pool")

StockLocks(i, ls) ==
    Take("UNIT", "UPDATE", i \cap RowsOf("unit")) \cup Take("POOL", "UPDATE", i \cap RowsOf("pool"))
        \cup Take("LEDGER", "UPDATE", {l \in ls : GuardOf[l] \in i})

-----------------------------------------------------------------------------
(* The commands: what each will lock. *)

BeginCommand(t, M, i) ==
    /\ asks[t] = {} /\ holds[t] = {}
    /\ \E k \in AtMostOne("key"), p \in AtMostOne("partner"), ls \in SUBSET RowsOf("ledger") :
          asks' = [asks EXCEPT ![t] = Executor(k, p) \cup M \cup StockLocks(i, ls)]
    /\ UNCHANGED holds

LockForCreate(t) ==
    \E p \in RowsOf("partner"), a \in SUBSET RowsOf("restriction"), i \in SUBSET Stock :
        BeginCommand(t, Gate("KEY SHARE") \cup Take("AUTHORITY", "UPDATE", {p})
                          \cup Take("RESTRICTION", "UPDATE", a), i)

\* The commands on a Reservation and the worker, which skips a Reservation that
\* is locked; a is the sources of its items and where they return to.
LockForReservation(t) ==
    \E r \in RowsOf("reservation"), a \in SUBSET RowsOf("restriction"), i \in SUBSET Stock,
       p \in AtMostOne("partner") :
        BeginCommand(t, Gate("KEY SHARE") \cup Take("AGGREGATE", "UPDATE", {r})
                          \cup Take("RESTRICTION", "UPDATE", a) \cup Take("FACT", "KEY SHARE", p), i)

\* CreateAllocation and CreateBlock; a Block has neither Partner nor destination.
LockForRestrict(t) ==
    \E p \in AtMostOne("partner"), d \in AtMostOne("restriction"), i \in SUBSET Stock :
        BeginCommand(t, Gate("KEY SHARE") \cup Take("AUTHORITY", "KEY SHARE", p)
                          \cup Take("DESTINATION", "KEY SHARE", d), i)

\* ReleaseAllocation, ReleaseBlock and IssueNonPublic; the last two have no
\* destination.
LockForReturn(t) ==
    \E a \in RowsOf("restriction"), d \in AtMostOne("restriction"), i \in SUBSET Stock :
        BeginCommand(t, Gate("KEY SHARE") \cup Take("RESTRICTION", "UPDATE", {a})
                          \cup Take("DESTINATION", "KEY SHARE", d \ {a}), i)

LockForReclassify(t) ==
    \E p \in AtMostOne("partner"), a \in RowsOf("restriction") :
        BeginCommand(t, Gate("KEY SHARE") \cup Take("AUTHORITY", "KEY SHARE", p)
                          \cup Take("RESTRICTION", "UPDATE", {a}), {})

LockForCapacity(t) == \E g \in RowsOf("pool") : BeginCommand(t, Gate("KEY SHARE"), {g})

\* Lifecycle and policy lock the Event alone; pricing writes seats and pools
\* after it, in the order of the scan.
LockForEvent(t) ==
    \E i \in SUBSET Stock : BeginCommand(t, Gate("UPDATE") \cup Take("LEDGER", "UPDATE", i), {})

-----------------------------------------------------------------------------
(* Taking and leaving locks. *)

LocksInit ==
    /\ asks = [t \in Transactions |-> {}]
    /\ holds = [t \in Transactions |-> {}]

Before(l, m) ==
    \/ Turn[l.stage] < Turn[m.stage]
    \/ l.stage = m.stage /\ l.stage \in Sorted /\ l.row.id < m.row.id

\* A command waits for one of these, if it waits.
NextLocks(t) == {l \in asks[t] : \A m \in asks[t] : ~Before(m, l)}

Conflict(l, m) == l.row = m.row /\ (l.mode = "UPDATE" \/ m.mode = "UPDATE")

Stops(u, t, l) == u # t /\ \E m \in holds[u] : Conflict(l, m)

TakeLock(t) ==
    \E l \in NextLocks(t) :
        /\ \A u \in Transactions : ~Stops(u, t, l)
        /\ asks' = [asks EXCEPT ![t] = @ \ {l}]
        /\ holds' = [holds EXCEPT ![t] = @ \cup {l}]

\* A refusal rolls back to the savepoint after the claim.
RefuseCommand(t) ==
    /\ \E l \in holds[t] : l.stage \notin {"KEY", "CALLER"}
    /\ asks' = [asks EXCEPT ![t] = {}]
    /\ holds' = [holds EXCEPT ![t] = {l \in @ : l.stage \in {"KEY", "CALLER"}}]

\* Commit, or a rollback: an error, a lock_timeout, or PostgreSQL breaking a
\* circle of waits.
EndCommand(t) ==
    /\ asks[t] \cup holds[t] # {}
    /\ asks' = [asks EXCEPT ![t] = {}]
    /\ holds' = [holds EXCEPT ![t] = {}]

LocksNext ==
    \E t \in Transactions :
        \/ LockForCreate(t) \/ LockForReservation(t) \/ LockForRestrict(t) \/ LockForReturn(t)
        \/ LockForReclassify(t) \/ LockForCapacity(t) \/ LockForEvent(t)
        \/ TakeLock(t) \/ RefuseCommand(t) \/ EndCommand(t)

LocksSpec == LocksInit /\ [][LocksNext]_lockVars

-----------------------------------------------------------------------------
(* The type invariant: a lock is of a row and is not asked for once held. *)
LocksTypeOK ==
    /\ asks \in [Transactions -> SUBSET Lock]
    /\ holds \in [Transactions -> SUBSET Lock]
    /\ \A t \in Transactions : asks[t] \cap holds[t] = {}

\* ReleaseAllocation has its own Allocation when it asks for the destination,
\* whatever the order of the two.
Backward(t, l) ==
    l.stage = "DESTINATION" /\ \E h \in holds[t] : h.stage = "RESTRICTION" /\ l.row.id < h.row.id

WaitsInOrder(t, u) ==
    \E l \in NextLocks(t) :
        Stops(u, t, l) /\ l.row.kind # "partner" /\ ~Backward(t, l)

\* Nobody waits for a row of the ledger: its seat, pool or Event keeps others away.
LedgerIsNotAwaited ==
    \A t, u \in Transactions : \A l \in NextLocks(t) : Stops(u, t, l) => l.stage # "LEDGER"

(* The inventory locks have one order: commands that wait for each other in *)
(* a circle do so over the Partner row, which a key or a fact brings in out *)
(* of turn, or over the destination of ReleaseAllocation; never over keys,  *)
(* Events, Reservations, Allocations in lockMutationResources, seats, pools *)
(* or the ledger, although the ledger and pricing have no order of their    *)
(* own.                                                                     *)
OtherLocksHaveAnOrder ==
    \A C \in SUBSET Transactions :
        C # {} => \E t \in C : \A u \in C : ~WaitsInOrder(t, u)
===============================================================================
