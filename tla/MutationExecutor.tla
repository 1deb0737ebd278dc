--------------------------- MODULE MutationExecutor ----------------------------
(***************************************************************************)
(* How a Partner's command is run (runPartnerMutation in                   *)
(* backend/internal/partnerapi/reservation_executor.go, with               *)
(* idempotency/store.go and platform/database/transaction.go).             *)
(*                                                                         *)
(* One transaction claims the key, runs the command under a savepoint,     *)
(* stores the outcome with the key and commits.  A second request with the *)
(* key waits for the first one's transaction, and then reads its outcome   *)
(* or, when it rolled back, claims the key itself.  A deadlock starts the  *)
(* transaction over.  The answer is taken from variables that live outside *)
(* of the transaction's function and survive such a restart.               *)
(*                                                                         *)
(* The commands act on one Reservation, under its row lock; what they do   *)
(* is the matter of Reservation, here it is one effect each.  A COMMIT     *)
(* reports no deadlock: the constraint triggers that are deferred to it    *)
(* only read, and wait for no lock.  When one of them refuses, nothing is  *)
(* committed and the answer is an error, as when a COMMIT is lost.         *)
(* What a replay recovers (the reservation token, the selection URL) and   *)
(* the authentication before are left out.                                 *)
(***************************************************************************)
EXTENDS Naturals

CONSTANTS
    Requests,   \* HTTP requests
    Keys,       \* Idempotency-Keys
    Intents,    \* operation, path and body: what the fingerprint is of
    MaxRuns     \* attempts of the transaction runner

ASSUME ExecutorAssumption == MaxRuns \in Nat \ {0}

VARIABLES
    rows,       \* idempotency_operations, as committed
    effects,    \* how often each key's command took effect, as committed
    lapsed,     \* the Reservation is expired, as committed
    due,        \* the deadline of its hold has passed
    request     \* each request, its transaction and its answer

executorVars == <<rows, effects, lapsed, due, request>>

NoRow == [code |-> "NONE"]
Codes == {"OK", "REFUSED", "HOLD_EXPIRED"}

\* What the business transaction has written.
NoWrites == "NOTHING"
WritesFor(code) == IF code = "HOLD_EXPIRED" THEN "EXPIRY" ELSE "EFFECT"

\* failure and response are businessErr and finalResponse.
Waiting(k, i) ==
    [phase |-> "WAITING", key |-> k, intent |-> i, run |-> 1, owner |-> FALSE,
     writes |-> NoWrites, result |-> "NONE",
     failure |-> "NONE", response |-> "NONE", answer |-> "NONE"]

NoRequest == [phase |-> "IDLE", writes |-> NoWrites, answer |-> "NONE"]

ExecutorInit ==
    /\ rows = [k \in Keys |-> NoRow]
    /\ effects = [k \in Keys |-> 0]
    /\ lapsed = FALSE /\ due = FALSE
    /\ request = [r \in Requests |-> NoRequest]

-----------------------------------------------------------------------------
InTransaction == {"CLAIMED", "MUTATED", "STAGED"}

\* The unique index makes an INSERT wait for the transaction that holds the
\* key, and FOR UPDATE makes a replay wait for another replay.
KeyIsFree(r) ==
    \A o \in Requests \ {r} :
        request[o].phase \in InTransaction => request[o].key # request[r].key

\* The lock on the Reservation is held until the writes are committed or
\* rolled back.
ReservationIsFree == \A o \in Requests : request[o].writes = NoWrites

Set(r, row) == request' = [request EXCEPT ![r] = row]

Answer(r, answer) ==
    Set(r, [request[r] EXCEPT !.phase = "DONE", !.writes = NoWrites,
                              !.answer = answer])

Committed == <<rows, effects, lapsed>>

Receive(r, k, i) ==
    /\ request[r].phase = "IDLE"
    /\ Set(r, Waiting(k, i))
    /\ UNCHANGED <<Committed, due>>

-----------------------------------------------------------------------------
(* Store.Claim. *)

ClaimNew(r) ==
    /\ request[r].phase = "WAITING" /\ KeyIsFree(r)
    /\ rows[request[r].key] = NoRow
    /\ Set(r, [request[r] EXCEPT !.phase = "CLAIMED", !.owner = TRUE])
    /\ UNCHANGED <<Committed, due>>

\* Mutant: any request with the key is a retry.
SameIntentAlways(r) == TRUE

SameIntent(r) == rows[request[r].key].intent = request[r].intent

ClaimConflict(r) ==
    /\ request[r].phase = "WAITING" /\ KeyIsFree(r)
    /\ rows[request[r].key] # NoRow /\ ~SameIntent(r)
    /\ Answer(r, "IDEMPOTENCY_CONFLICT")
    /\ UNCHANGED <<Committed, due>>

\* The variables outside of the function, when the outcome is code.
Captured(row, code) ==
    IF code = "OK" THEN [row EXCEPT !.response = code]
                   ELSE [row EXCEPT !.failure = code]

ClaimReplay(r) ==
    /\ request[r].phase = "WAITING" /\ KeyIsFree(r)
    /\ rows[request[r].key] # NoRow /\ SameIntent(r)
    /\ Set(r, [Captured(request[r], rows[request[r].key].code)
                 EXCEPT !.phase = "STAGED", !.owner = FALSE])
    /\ UNCHANGED <<Committed, due>>

-----------------------------------------------------------------------------
(* The command, under its savepoint. *)

\* A refusal comes after some of the writes.  When the hold has run out the
\* command expires the Reservation and says so.
Outcomes == IF due \/ lapsed THEN {"HOLD_EXPIRED"} ELSE {"OK", "REFUSED"}

Mutate(r, code) ==
    /\ request[r].phase = "CLAIMED" /\ ReservationIsFree
    /\ code \in Outcomes
    /\ Set(r, [request[r] EXCEPT
                 !.phase = "MUTATED", !.result = code,
                 !.writes = WritesFor(code)])
    /\ UNCHANGED <<Committed, due>>

\* Mutant: what a refused command wrote is kept, whatever the code.
materializedAlways(code) == TRUE

\* A refusal whose writes are kept.
materializedBusinessError(code) == code = "HOLD_EXPIRED"

\* The savepoint is released or rolled back, and the outcome stored.
Complete(r) ==
    /\ request[r].phase = "MUTATED"
    /\ LET code == request[r].result IN
       Set(r, [Captured(request[r], code) EXCEPT
                 !.phase = "STAGED",
                 !.writes = IF code = "OK" \/ materializedBusinessError(code)
                            THEN request[r].writes ELSE NoWrites])
    /\ UNCHANGED <<Committed, due>>

-----------------------------------------------------------------------------
(* Runner.Run. *)

\* The row of the key, and the writes under the savepoint.
Apply(r) ==
    LET q == request[r] IN
    IF q.owner
    THEN /\ rows' = [rows EXCEPT ![q.key] = [intent |-> q.intent, code |-> q.result]]
         /\ effects' = [effects EXCEPT ![q.key] = IF q.writes = "EFFECT" THEN @ + 1 ELSE @]
         /\ lapsed' = (lapsed \/ q.writes = "EXPIRY")
    ELSE UNCHANGED Committed

Commit(r) ==
    /\ request[r].phase = "STAGED"
    /\ Apply(r)
    /\ Answer(r, IF request[r].failure # "NONE" THEN request[r].failure
                                                ELSE request[r].response)
    /\ UNCHANGED due

\* The connection is lost at COMMIT: whether it happened is not known, and it
\* is not tried again.
CommitUnknown(r) ==
    /\ request[r].phase = "STAGED"
    /\ Apply(r) \/ UNCHANGED Committed
    /\ Answer(r, "ERROR")
    /\ UNCHANGED due

\* Statements are running.
Running(r) == request[r].phase \in {"WAITING", "CLAIMED", "MUTATED"}

\* A statement reports 40P01: rolled back, and started over after a pause.
Deadlock(r) ==
    /\ Running(r) /\ request[r].run < MaxRuns
    /\ Set(r, [request[r] EXCEPT !.phase = "WAITING", !.run = @ + 1,
                                 !.owner = FALSE, !.writes = NoWrites])
    /\ UNCHANGED <<Committed, due>>

\* Any other error, the last run, the request's deadline, or the process ends.
Fail(r) ==
    /\ Running(r)
    /\ Answer(r, "ERROR")
    /\ UNCHANGED <<Committed, due>>

-----------------------------------------------------------------------------
HoldRunsOut == ~due /\ due' = TRUE /\ UNCHANGED <<Committed, request>>

\* The worker.
Materialized ==
    /\ due /\ ~lapsed /\ ReservationIsFree
    /\ lapsed' = TRUE
    /\ UNCHANGED <<rows, effects, due, request>>

ExecutorNext ==
    \/ \E r \in Requests :
         \/ \E k \in Keys, i \in Intents : Receive(r, k, i)
         \/ ClaimNew(r) \/ ClaimConflict(r) \/ ClaimReplay(r)
         \/ \E code \in Codes : Mutate(r, code)
         \/ Complete(r) \/ Commit(r) \/ CommitUnknown(r)
         \/ Deadlock(r) \/ Fail(r)
    \/ HoldRunsOut \/ Materialized

ExecutorSpec == ExecutorInit /\ [][ExecutorNext]_executorVars

-----------------------------------------------------------------------------
\* An answer a Partner acts on is the outcome stored for the key and for the
\* very intent of the request, so that a retry is answered alike; and only a
\* request with another intent is told that the key was used before.
AnswersAreStored ==
    \A r \in Requests :
        LET q == request[r] IN
        /\ q.answer \in Codes =>
             rows[q.key] = [intent |-> q.intent, code |-> q.answer]
        /\ q.answer = "IDEMPOTENCY_CONFLICT" =>
             rows[q.key] # NoRow /\ rows[q.key].intent # q.intent

Once == INSTANCE RunOnce WITH
            outcome <- [k \in Keys |-> rows[k].code], expired <- lapsed

\* However requests repeat, overlap, restart and break, the command of a key is
\* decided once, and the Reservation changes exactly as decided.
ImplementsRunOnce == Once!RunOnceSpec
================================================================================
