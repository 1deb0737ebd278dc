------------------------------ MODULE ApiProofs -------------------------------
(***************************************************************************)
(* Proofs about the API process.                                           *)
(*                                                                         *)
(* The Partner executor, for any requests, keys, intents and number of     *)
(* runs: every answer is the stored outcome, and the executor implements   *)
(* RunOnce.  What each request may be in (Local) is an invariant together  *)
(* with the two exclusions of the database (Apart): two transactions never *)
(* hold one key, and never write the Reservation at once.                  *)
(*                                                                         *)
(* The realtime hub, for any streams and any size of channel: what a       *)
(* channel loses is announced.  The push after a drop finds room, because  *)
(* Publish is the only one that puts messages in.                          *)
(*                                                                         *)
(* PATCH requests, for any number at a time: whatever they read before the *)
(* lock, each is one Modify of Reservation.                                *)
(*                                                                         *)
(* The locks of the commands on an Event, for any number of transactions   *)
(* and rows: a circle of waits is over a Partner row or a destination.     *)
(* Nobody waits for a row of the ledger, so what else is waited for goes   *)
(* up in one order of rows, which ends.                                    *)
(***************************************************************************)
EXTENDS PatchRequests, MutationExecutor, RealtimeHub, InventoryLocks, ReservationProofs,
        SequenceTheorems, TLAPS

-----------------------------------------------------------------------------
(* The executor. *)

Decisions == Codes \cup {"NONE"}

RequestRow ==
  [phase : {"WAITING", "CLAIMED", "MUTATED", "STAGED", "DONE"},
   key : Keys, intent : Intents, run : Nat, owner : BOOLEAN,
   writes : {"NOTHING", "EFFECT", "EXPIRY"}, result : Decisions,
   failure : Decisions, response : Decisions,
   answer : Decisions \cup {"IDEMPOTENCY_CONFLICT", "ERROR"}]

StoredRow == [intent : Intents, code : Codes]

CommittedTypes ==
  /\ rows \in [Keys -> StoredRow \cup {NoRow}]
  /\ effects \in [Keys -> Nat]
  /\ lapsed \in BOOLEAN /\ due \in BOOLEAN

\* A request whose transaction owns its key, which R has no row of.
Owning(q, R) ==
  /\ q.owner = TRUE /\ R[q.key] = NoRow
  /\ q.phase = "CLAIMED" => q.writes = NoWrites
  /\ q.phase # "CLAIMED" =>
       /\ q.result \in Codes
       /\ \/ q.writes = WritesFor(q.result)
          \/ q.phase = "STAGED" /\ q.result = "REFUSED" /\ q.writes = NoWrites
  /\ q.phase = "STAGED" /\ q.result = "REFUSED" => q.writes = NoWrites

\* A request that found the outcome of its intent.
Replaying(q, R) ==
  /\ q.owner = FALSE /\ q.writes = NoWrites
  /\ R[q.key] \in StoredRow /\ R[q.key].intent = q.intent

\* The captured variables are those of this run, and hold its outcome.
CapturedIs(q, code) ==
  /\ q.failure = IF code = "OK" THEN "NONE" ELSE code
  /\ q.response = IF code = "OK" THEN "OK" ELSE "NONE"

NothingCaptured(q) == q.failure = "NONE" /\ q.response = "NONE"

Stored(q, R) ==
  /\ q.answer \in Codes =>
       R[q.key] \in StoredRow /\ R[q.key].intent = q.intent /\ R[q.key].code = q.answer
  /\ q.answer = "IDEMPOTENCY_CONFLICT" =>
       R[q.key] \in StoredRow /\ R[q.key].intent # q.intent

\* What a request may be in, over the rows R and with the Reservation expired
\* or not.
Local(q, R, expired) ==
  /\ q.phase # "DONE" => q.answer = "NONE"
  /\ q.phase = "WAITING" => q.writes = NoWrites /\ NothingCaptured(q)
  /\ q.phase \in {"CLAIMED", "MUTATED"} => Owning(q, R) /\ NothingCaptured(q)
  /\ q.phase = "STAGED" =>
       \/ Owning(q, R) /\ CapturedIs(q, q.result)
       \/ Replaying(q, R) /\ CapturedIs(q, R[q.key].code)
  /\ q.phase = "DONE" => q.writes = NoWrites /\ Stored(q, R)
  /\ q.writes = "EFFECT" => expired = FALSE

Apart(p, q) ==
  /\ p.phase \in InTransaction /\ q.phase \in InTransaction => p.key # q.key
  /\ p.writes = NoWrites \/ q.writes = NoWrites

ExecutorInv ==
  /\ CommittedTypes
  /\ request \in [Requests -> RequestRow \cup {NoRequest}]
  /\ \A r \in Requests : request[r] = NoRequest \/ Local(request[r], rows, lapsed)
  /\ \A r, o \in Requests : r # o => Apart(request[r], request[o])

-----------------------------------------------------------------------------
\* No request has come.
LEMMA InitExecutor == ExecutorInit => ExecutorInv
<1> SUFFICES ASSUME ExecutorInit PROVE ExecutorInv
  OBVIOUS
<1>1. CommittedTypes
  BY DEF ExecutorInit, CommittedTypes
<1>2. \A r \in Requests : request[r] = NoRequest
  BY DEF ExecutorInit
<1>3. request \in [Requests -> RequestRow \cup {NoRequest}]
  BY DEF ExecutorInit
<1>4. Apart(NoRequest, NoRequest)
  BY DEF Apart, NoRequest, InTransaction
<1> QED
  BY <1>1, <1>2, <1>3, <1>4 DEF ExecutorInv

\* Being apart does not depend on the order.
LEMMA ApartBoth ==
  ASSUME NEW p, NEW q, Apart(p, q)
  PROVE  Apart(q, p)
  BY DEF Apart

\* A step of one request that leaves alone what is committed.
LEMMA OneRequest ==
  ASSUME ExecutorInv, NEW r \in Requests, NEW q \in RequestRow,
         Set(r, q), UNCHANGED <<Committed, due>>,
         Local(q, rows, lapsed), \A o \in Requests \ {r} : Apart(request[o], q)
  PROVE  ExecutorInv'
<1>1. request' \in [Requests -> RequestRow \cup {NoRequest}]
  BY DEF ExecutorInv, Set
<1>2. \A o \in Requests : request'[o] = IF o = r THEN q ELSE request[o]
  BY DEF ExecutorInv, Set
<1>3. CommittedTypes'
  BY DEF ExecutorInv, CommittedTypes, Committed
<1>4. \A o \in Requests : request'[o] = NoRequest \/ Local(request'[o], rows', lapsed')
  BY <1>2 DEF ExecutorInv, Committed
<1>5. \A s, o \in Requests : s # o => Apart(request'[s], request'[o])
  BY <1>2, ApartBoth DEF ExecutorInv
<1> QED
  BY <1>1, <1>3, <1>4, <1>5 DEF ExecutorInv

\* A request that takes part in no transaction and writes nothing is apart from
\* any other.
LEMMA IdleIsApart ==
  ASSUME NEW p, NEW q, q.phase \notin InTransaction, q.writes = NoWrites
  PROVE  Apart(p, q)
  BY DEF Apart

\* A request that claims a free key, and writes nothing, is apart from the others.
LEMMA ClaimIsApart ==
  ASSUME NEW r \in Requests, KeyIsFree(r), NEW q, q.key = request[r].key,
         q.writes = NoWrites
  PROVE  \A o \in Requests \ {r} : Apart(request[o], q)
  BY DEF KeyIsFree, Apart

\* What is known of a request that has come.
LEMMA RequestIs ==
  ASSUME ExecutorInv, NEW r \in Requests, request[r].phase # "IDLE"
  PROVE  request[r] \in RequestRow /\ Local(request[r], rows, lapsed)
  BY DEF ExecutorInv, NoRequest

-----------------------------------------------------------------------------
(* The steps that leave alone what is committed. *)

\* A new request waits for its key.
LEMMA ReceiveStep ==
  ASSUME ExecutorInv, NEW r \in Requests, NEW k \in Keys, NEW i \in Intents,
         Receive(r, k, i)
  PROVE  ExecutorInv'
<1>1. Waiting(k, i) \in RequestRow
  BY DEF Waiting, RequestRow, NoWrites, Decisions
<1>2. Local(Waiting(k, i), rows, lapsed)
  BY DEF Waiting, Local, NothingCaptured, NoWrites
<1>3. \A o \in Requests \ {r} : Apart(request[o], Waiting(k, i))
  BY IdleIsApart DEF Waiting, InTransaction
<1> QED
  BY <1>1, <1>2, <1>3, OneRequest DEF Receive

\* A request is answered without anything being committed.
LEMMA AnswerStep ==
  ASSUME ExecutorInv, NEW r \in Requests, request[r].phase # "IDLE",
         NEW answer \in {"IDEMPOTENCY_CONFLICT", "ERROR"}, Answer(r, answer),
         answer = "IDEMPOTENCY_CONFLICT" =>
           rows[request[r].key] # NoRow /\ ~SameIntent(r),
         UNCHANGED <<Committed, due>>
  PROVE  ExecutorInv'
<1> DEFINE q == [request[r] EXCEPT !.phase = "DONE", !.writes = NoWrites,
                                   !.answer = answer]
<1>1. request[r] \in RequestRow
  BY RequestIs
<1>2. /\ q \in RequestRow /\ q.phase = "DONE" /\ q.writes = NoWrites
      /\ q.answer = answer /\ q.key = request[r].key /\ q.intent = request[r].intent
  BY <1>1 DEF RequestRow, NoWrites
<1>3. Stored(q, rows)
  <2>1. q.key \in Keys
    BY <1>2 DEF RequestRow
  <2>2. q.answer \notin Codes
    BY <1>2 DEF Codes
  <2> QED
    BY <2>1, <2>2, <1>2 DEF Stored, SameIntent, ExecutorInv, CommittedTypes
<1>4. Local(q, rows, lapsed)
  BY <1>2, <1>3 DEF Local, NoWrites
<1>5. \A o \in Requests \ {r} : Apart(request[o], q)
  BY <1>2, IdleIsApart DEF InTransaction
<1> QED
  BY <1>2, <1>4, <1>5, OneRequest DEF Answer

\* The transaction claims a key without a row.
LEMMA ClaimNewStep ==
  ASSUME ExecutorInv, NEW r \in Requests, ClaimNew(r)
  PROVE  ExecutorInv'
<1> DEFINE q == [request[r] EXCEPT !.phase = "CLAIMED", !.owner = TRUE]
<1>1. request[r] \in RequestRow /\ Local(request[r], rows, lapsed)
  BY RequestIs DEF ClaimNew
<1>2. /\ q \in RequestRow /\ q.phase = "CLAIMED" /\ q.owner = TRUE
      /\ q.writes = request[r].writes /\ q.key = request[r].key
      /\ q.failure = request[r].failure /\ q.response = request[r].response
      /\ q.answer = request[r].answer
  BY <1>1 DEF RequestRow
<1>3. q.writes = NoWrites /\ NothingCaptured(q) /\ q.answer = "NONE"
  BY <1>1, <1>2 DEF Local, NothingCaptured, ClaimNew
<1>4. Local(q, rows, lapsed)
  BY <1>2, <1>3 DEF Local, Owning, ClaimNew, NoWrites
<1> QED
  BY <1>2, <1>3, <1>4, ClaimIsApart, OneRequest DEF ClaimNew

\* The transaction finds the outcome of its intent.
LEMMA ClaimReplayStep ==
  ASSUME ExecutorInv, NEW r \in Requests, ClaimReplay(r)
  PROVE  ExecutorInv'
<1> DEFINE code == rows[request[r].key].code
           q == [Captured(request[r], code) EXCEPT !.phase = "STAGED", !.owner = FALSE]
<1>1. request[r] \in RequestRow /\ Local(request[r], rows, lapsed)
  BY RequestIs DEF ClaimReplay
<1>2. rows[request[r].key] \in StoredRow /\ code \in Codes
  <2>1. request[r].key \in Keys
    BY <1>1 DEF RequestRow
  <2>2. rows[request[r].key] \in StoredRow
    BY <2>1 DEF ExecutorInv, CommittedTypes, ClaimReplay
  <2> QED
    BY <2>2 DEF StoredRow
<1>3. request[r].failure = "NONE" /\ request[r].response = "NONE"
      /\ request[r].writes = NoWrites /\ request[r].answer = "NONE"
  BY <1>1 DEF Local, NothingCaptured, ClaimReplay
<1>4. /\ q \in RequestRow /\ q.phase = "STAGED" /\ q.owner = FALSE
      /\ q.writes = NoWrites /\ q.key = request[r].key
      /\ q.intent = request[r].intent /\ q.answer = "NONE"
      /\ CapturedIs(q, code)
  <2> HIDE DEF code
  <2>1. CASE code = "OK"
    BY <2>1, <1>1, <1>3 DEF RequestRow, Captured, CapturedIs, Decisions, Codes
  <2>2. CASE code # "OK"
    BY <2>2, <1>1, <1>2, <1>3 DEF RequestRow, Captured, CapturedIs, Decisions
  <2> QED
    BY <2>1, <2>2
<1>5. Local(q, rows, lapsed)
  BY <1>2, <1>4 DEF Local, Replaying, SameIntent, ClaimReplay, NoWrites
<1> QED
  BY <1>4, <1>5, ClaimIsApart, OneRequest DEF ClaimReplay

\* The command runs, alone on the Reservation.
LEMMA MutateStep ==
  ASSUME ExecutorInv, NEW r \in Requests, NEW code \in Codes, Mutate(r, code)
  PROVE  ExecutorInv'
<1> DEFINE q == [request[r] EXCEPT
                   !.phase = "MUTATED", !.result = code,
                   !.writes = WritesFor(code)]
<1>1. request[r] \in RequestRow /\ Local(request[r], rows, lapsed)
  BY RequestIs DEF Mutate
<1>2. /\ q \in RequestRow /\ q.phase = "MUTATED" /\ q.result = code
      /\ q.writes = WritesFor(code) /\ q.key = request[r].key
      /\ q.owner = request[r].owner /\ q.failure = request[r].failure
      /\ q.response = request[r].response /\ q.answer = request[r].answer
  <2>1. code \in Decisions /\ WritesFor(code) \in {"EFFECT", "EXPIRY"}
    BY DEF WritesFor, Decisions
  <2> HIDE DEF q
  <2>2. q = [request[r] EXCEPT !.phase = "MUTATED", !.result = code, !.writes = WritesFor(code)]
    BY DEF q
  <2> QED
    BY <1>1, <2>1, <2>2 DEF RequestRow
<1>3. q.writes = "EFFECT" => lapsed = FALSE
  BY <1>2 DEF WritesFor, Mutate, Outcomes, ExecutorInv, CommittedTypes
<1>4. Local(q, rows, lapsed)
  BY <1>1, <1>2, <1>3 DEF Local, Owning, NothingCaptured, Mutate
<1>5. \A o \in Requests \ {r} : Apart(request[o], q)
  BY <1>2 DEF Mutate, ReservationIsFree, Apart, ExecutorInv, InTransaction
<1> QED
  BY <1>2, <1>4, <1>5, OneRequest DEF Mutate

\* The savepoint ends as the outcome says, and the outcome is captured.
LEMMA CompleteStep ==
  ASSUME ExecutorInv, NEW r \in Requests, Complete(r)
  PROVE  ExecutorInv'
<1> DEFINE code == request[r].result
           kept == IF code = "OK" \/ materializedBusinessError(code)
                   THEN request[r].writes ELSE NoWrites
           q == [Captured(request[r], code) EXCEPT !.phase = "STAGED", !.writes = kept]
<1>1. request[r] \in RequestRow /\ Local(request[r], rows, lapsed)
  BY RequestIs DEF Complete
<1>2. /\ Owning(request[r], rows) /\ request[r].failure = "NONE"
      /\ request[r].response = "NONE" /\ request[r].answer = "NONE"
      /\ code \in Codes /\ request[r].writes = WritesFor(code)
  BY <1>1 DEF Local, NothingCaptured, Complete, Owning
<1>3. kept = IF code = "REFUSED" THEN NoWrites ELSE WritesFor(code)
  BY <1>2 DEF materializedBusinessError, Codes
<1>4. kept \in {"NOTHING", "EFFECT", "EXPIRY"}
  BY <1>3 DEF NoWrites, WritesFor
<1>5. /\ q \in RequestRow /\ q.phase = "STAGED" /\ q.owner = request[r].owner
      /\ q.writes = kept /\ q.key = request[r].key /\ q.result = code
      /\ q.answer = "NONE" /\ CapturedIs(q, code)
  <2> HIDE DEF kept
  <2>1. CASE code = "OK"
    BY <2>1, <1>1, <1>2, <1>4 DEF RequestRow, Captured, CapturedIs, Decisions, Codes
  <2>2. CASE code # "OK"
    BY <2>2, <1>1, <1>2, <1>4 DEF RequestRow, Captured, CapturedIs, Decisions
  <2> QED
    BY <2>1, <2>2
<1>6. q.writes = NoWrites \/ q.writes = request[r].writes
  BY <1>2, <1>3, <1>5
<1>7. q.writes = "EFFECT" => lapsed = FALSE
  BY <1>1, <1>6 DEF Local, NoWrites
<1>8. Local(q, rows, lapsed)
  BY <1>2, <1>3, <1>5, <1>7 DEF Local, Owning
<1>9. \A o \in Requests \ {r} : Apart(request[o], q)
  BY <1>5, <1>6 DEF Apart, ExecutorInv, InTransaction, Complete
<1> QED
  BY <1>5, <1>8, <1>9, OneRequest DEF Complete, Captured

\* A deadlock starts the transaction over, with nothing captured.
LEMMA DeadlockStep ==
  ASSUME ExecutorInv, NEW r \in Requests, Deadlock(r)
  PROVE  ExecutorInv'
<1> DEFINE q == [request[r] EXCEPT !.phase = "WAITING", !.run = @ + 1,
                                   !.owner = FALSE, !.writes = NoWrites]
<1>1. request[r] \in RequestRow /\ Local(request[r], rows, lapsed)
  BY RequestIs DEF Deadlock, Running
<1> DEFINE again == request[r].run + 1
<1>5. again \in Nat
  BY <1>1 DEF RequestRow
<1>2. /\ q \in RequestRow /\ q.phase = "WAITING" /\ q.writes = NoWrites
      /\ q.failure = request[r].failure /\ q.response = request[r].response
      /\ q.answer = request[r].answer
  <2>1. q = [request[r] EXCEPT !.phase = "WAITING", !.run = again,
                               !.owner = FALSE, !.writes = NoWrites]
    OBVIOUS
  <2> HIDE DEF again, q
  <2> QED
    BY <1>5, <1>1, <2>1 DEF RequestRow, NoWrites
<1>3. Local(q, rows, lapsed)
  BY <1>1, <1>2 DEF Local, NothingCaptured, Deadlock, Running, NoWrites
<1>4. \A o \in Requests \ {r} : Apart(request[o], q)
  BY <1>2, IdleIsApart DEF InTransaction
<1> QED
  BY <1>2, <1>3, <1>4, OneRequest DEF Deadlock

-----------------------------------------------------------------------------
(* The steps that commit. *)

\* What another request is in stays true when r commits: a transaction that is
\* under way holds another key, an answered request relies on a row that is
\* there already, and the writes of two are never there at once.
LEMMA OthersStay ==
  ASSUME ExecutorInv, NEW r \in Requests, request[r].phase = "STAGED",
         request[r].owner = TRUE, Apply(r),
         NEW o \in Requests \ {r}, request[o] # NoRequest
  PROVE  Local(request[o], rows', lapsed')
<1> DEFINE k == request[r].key
           l == request[o].key
<1>1. /\ request[r] \in RequestRow /\ Local(request[r], rows, lapsed)
      /\ request[o] \in RequestRow /\ Local(request[o], rows, lapsed)
      /\ Apart(request[r], request[o])
  BY RequestIs DEF ExecutorInv
<1>2. k \in Keys /\ l \in Keys
  BY <1>1 DEF RequestRow
<1>3. l # k => rows'[l] = rows[l]
  BY <1>2 DEF Apply, ExecutorInv, CommittedTypes
<1>4. rows[k] = NoRow
  BY <1>1 DEF Local, Owning, Replaying
<1>5. rows[l] \in StoredRow => l # k
  BY <1>4 DEF StoredRow, NoRow, Codes
<1>6. request[o].phase \in InTransaction => l # k
  BY <1>1 DEF Apart, InTransaction
<1>7. request[o].writes = "EFFECT" => lapsed' = FALSE
  BY <1>1 DEF Apart, Apply, Local, NoWrites
<1>8. request[o].phase = "DONE" => Stored(request[o], rows')
  BY <1>1, <1>3, <1>5 DEF Local, Stored
<1>9. CASE request[o].phase \in InTransaction
  <2>1. rows'[l] = rows[l]
    BY <1>3, <1>6, <1>9
  <2> QED
    BY <1>1, <1>7, <1>8, <2>1 DEF Local, Owning, Replaying
<1>10. CASE request[o].phase \notin InTransaction
  BY <1>1, <1>7, <1>8, <1>10 DEF Local, InTransaction
<1> QED
  BY <1>9, <1>10

\* A transaction is committed, and the request answered with its outcome or,
\* when the connection is lost, with an error.
LEMMA CommittedStep ==
  ASSUME ExecutorInv, NEW r \in Requests, request[r].phase = "STAGED", Apply(r),
         NEW answer, Answer(r, answer), UNCHANGED due,
         \/ answer = "ERROR"
         \/ answer = IF request[r].failure # "NONE" THEN request[r].failure
                                                    ELSE request[r].response
  PROVE  ExecutorInv'
<1> DEFINE p == request[r]
           q == [p EXCEPT !.phase = "DONE", !.writes = NoWrites, !.answer = answer]
<1>1. p \in RequestRow /\ Local(p, rows, lapsed)
  BY RequestIs
<1>2. p.key \in Keys /\ p.intent \in Intents /\ p.owner \in BOOLEAN
  BY <1>1 DEF RequestRow
<1>3. CASE p.owner = TRUE
  <2>1. /\ Owning(p, rows) /\ p.result \in Codes
        /\ answer \in {"ERROR", p.result}
    BY <1>1, <1>3 DEF Local, Owning, Replaying, CapturedIs, Codes
  <2>2. /\ q \in RequestRow /\ q.phase = "DONE" /\ q.writes = NoWrites
        /\ q.answer = answer /\ q.key = p.key /\ q.intent = p.intent
    BY <1>1, <2>1 DEF RequestRow, NoWrites, Decisions
  <2>3. rows'[p.key] = [intent |-> p.intent, code |-> p.result]
    BY <1>2, <1>3 DEF Apply, ExecutorInv, CommittedTypes
  <2>4. rows'[p.key] \in StoredRow /\ rows'[p.key].intent = p.intent
        /\ rows'[p.key].code = p.result
    BY <1>2, <2>1, <2>3 DEF StoredRow
  <2>5. Stored(q, rows')
    BY <2>1, <2>2, <2>4 DEF Stored, Codes
  <2>6. Local(q, rows', lapsed')
    BY <2>2, <2>5 DEF Local, NoWrites
  <2>7. CommittedTypes'
    BY <1>2, <1>3, <2>1 DEF CommittedTypes, ExecutorInv, Apply, StoredRow
  <2>8. \A o \in Requests : request'[o] = IF o = r THEN q ELSE request[o]
    BY DEF Answer, Set, ExecutorInv
  <2>9. request' \in [Requests -> RequestRow \cup {NoRequest}]
    BY <2>2 DEF Answer, Set, ExecutorInv
  <2>10. \A o \in Requests : request'[o] = NoRequest \/ Local(request'[o], rows', lapsed')
    BY <1>3, <2>6, <2>8, OthersStay
  <2>11. \A o \in Requests : Apart(request[o], q) /\ Apart(q, request[o])
    BY <2>2, IdleIsApart, ApartBoth DEF InTransaction
  <2>12. \A s, o \in Requests : s # o => Apart(request'[s], request'[o])
    BY <2>8, <2>11 DEF ExecutorInv
  <2> QED
    BY <2>7, <2>9, <2>10, <2>12 DEF ExecutorInv
<1>4. CASE p.owner = FALSE
  <2>1. /\ Replaying(p, rows) /\ UNCHANGED Committed
        /\ answer \in {"ERROR", rows[p.key].code}
    BY <1>1, <1>4 DEF Local, Owning, Replaying, CapturedIs, Apply, StoredRow, Codes
  <2>2. /\ q \in RequestRow /\ q.phase = "DONE" /\ q.writes = NoWrites
        /\ q.answer = answer /\ q.key = p.key /\ q.intent = p.intent
    BY <1>1, <2>1 DEF RequestRow, NoWrites, Decisions, Replaying, StoredRow
  <2>3. Stored(q, rows)
    BY <2>1, <2>2 DEF Stored, Replaying, Codes, StoredRow
  <2>4. Local(q, rows, lapsed)
    BY <2>2, <2>3 DEF Local, NoWrites
  <2>5. \A o \in Requests \ {r} : Apart(request[o], q)
    BY <2>2, IdleIsApart DEF InTransaction
  <2> QED
    BY <2>1, <2>2, <2>4, <2>5, OneRequest DEF Answer
<1> QED
  BY <1>2, <1>3, <1>4

\* Time and the worker.
LEMMA UnaskedStep ==
  ASSUME ExecutorInv, HoldRunsOut \/ Materialized
  PROVE  ExecutorInv'
<1>1. request' = request /\ rows' = rows /\ CommittedTypes'
  BY DEF HoldRunsOut, Materialized, Committed, ExecutorInv, CommittedTypes
<1>2. lapsed' = lapsed \/ \A r \in Requests : request[r].writes = NoWrites
  BY DEF HoldRunsOut, Materialized, Committed, ReservationIsFree
<1>3. \A r \in Requests : request[r] = NoRequest \/ Local(request[r], rows, lapsed')
  BY <1>2 DEF ExecutorInv, Local, NoWrites
<1> QED
  BY <1>1, <1>3 DEF ExecutorInv

-----------------------------------------------------------------------------
\* Every step keeps the invariant.
LEMMA StepExecutor == ExecutorInv /\ [ExecutorNext]_executorVars => ExecutorInv'
<1> SUFFICES ASSUME ExecutorInv, [ExecutorNext]_executorVars PROVE ExecutorInv'
  OBVIOUS
<1>1. CASE UNCHANGED executorVars
  BY <1>1 DEF executorVars, ExecutorInv, CommittedTypes
<1>2. CASE HoldRunsOut \/ Materialized
  BY <1>2, UnaskedStep
<1>3. ASSUME NEW r \in Requests, NEW k \in Keys, NEW i \in Intents, Receive(r, k, i)
      PROVE  ExecutorInv'
  BY <1>3, ReceiveStep
<1>4. ASSUME NEW r \in Requests, ClaimNew(r) \/ ClaimReplay(r) \/ Complete(r) \/ Deadlock(r)
      PROVE  ExecutorInv'
  BY <1>4, ClaimNewStep, ClaimReplayStep, CompleteStep, DeadlockStep
<1>5. ASSUME NEW r \in Requests, NEW code \in Codes, Mutate(r, code)
      PROVE  ExecutorInv'
  BY <1>5, MutateStep
<1>6. ASSUME NEW r \in Requests, ClaimConflict(r) \/ Fail(r)
      PROVE  ExecutorInv'
  BY <1>6, AnswerStep DEF ClaimConflict, Fail, Running
<1>7. ASSUME NEW r \in Requests, Commit(r) PROVE ExecutorInv'
  BY <1>7, CommittedStep DEF Commit
<1>8. ASSUME NEW r \in Requests, CommitUnknown(r) PROVE ExecutorInv'
  <2>1. CASE Apply(r)
    BY <1>8, <2>1, CommittedStep DEF CommitUnknown
  <2>2. CASE UNCHANGED Committed
    BY <1>8, <2>2, AnswerStep DEF CommitUnknown
  <2> QED
    BY <1>8, <2>1, <2>2 DEF CommitUnknown
<1> QED
  BY <1>1, <1>2, <1>3, <1>4, <1>5, <1>6, <1>7, <1>8 DEF ExecutorNext

\* The invariant of the executor, the basis of both results.
THEOREM ExecutorInvariant == ExecutorSpec => []ExecutorInv
  BY InitExecutor, StepExecutor, PTL DEF ExecutorSpec

\* Answers agree with what is stored in any state the invariant describes.
LEMMA InvariantAnswers == ExecutorInv => AnswersAreStored
<1> SUFFICES ASSUME ExecutorInv, NEW r \in Requests
             PROVE  /\ request[r].answer \in Codes =>
                         rows[request[r].key] =
                           [intent |-> request[r].intent, code |-> request[r].answer]
                    /\ request[r].answer = "IDEMPOTENCY_CONFLICT" =>
                         /\ rows[request[r].key] # NoRow
                         /\ rows[request[r].key].intent # request[r].intent
  BY DEF AnswersAreStored
<1>1. CASE request[r].phase = "DONE"
  <2>1. Stored(request[r], rows)
    BY <1>1, RequestIs DEF Local
  <2> QED
    BY <2>1 DEF Stored, StoredRow, NoRow, Codes
<1>2. CASE request[r].phase # "DONE"
  BY <1>2 DEF ExecutorInv, Local, NoRequest, Codes
<1> QED
  BY <1>1, <1>2

\* No repetition, overlap, restart or lost connection makes the executor answer
\* anything but the outcome stored for the key and the intent of the request.
THEOREM EveryAnswerIsStored == ExecutorSpec => []AnswersAreStored
  BY ExecutorInvariant, InvariantAnswers, PTL

-----------------------------------------------------------------------------
(* The refinement. *)

\* A request's step that leaves alone what is committed is a stutter.
LEMMA StutterOnce ==
  ASSUME UNCHANGED Committed
  PROVE  UNCHANGED Once!runOnceVars
  BY DEF Committed, Once!runOnceVars

\* A commit decides the key of the transaction that owns it.
LEMMA ApplyDecides ==
  ASSUME ExecutorInv, NEW r \in Requests, request[r].phase = "STAGED", Apply(r),
         NEW k \in Keys, request[r].key = k,
         NEW code, request[r].result = code, request[r].owner = TRUE
  PROVE  Once!RunOnceNext
<1> DEFINE p == request[r]
<1>1. Local(p, rows, lapsed)
  BY RequestIs
<1>2. rows[k] = NoRow /\ code \in Codes
      /\ p.writes = IF code = "REFUSED" THEN NoWrites ELSE WritesFor(code)
  BY <1>1 DEF Local, Owning, Replaying
<1>3. /\ rows \in [Keys -> StoredRow \cup {NoRow}] /\ effects \in [Keys -> Nat]
      /\ lapsed \in BOOLEAN
  BY DEF ExecutorInv, CommittedTypes
<1>4. /\ rows' = [rows EXCEPT ![k] = [intent |-> p.intent, code |-> code]]
      /\ effects' = [effects EXCEPT ![k] = IF p.writes = "EFFECT" THEN @ + 1 ELSE @]
      /\ lapsed' = (lapsed \/ p.writes = "EXPIRY")
  BY DEF Apply
<1>5. Once!Decide(k, code)
  <2>1. \A l \in Keys : rows'[l].code = IF l = k THEN code ELSE rows[l].code
    BY <1>3, <1>4
  <2>2. [l \in Keys |-> rows'[l].code] = [[l \in Keys |-> rows[l].code] EXCEPT ![k] = code]
    BY <2>1
  <2>3. rows[k].code = "NONE"
    BY <1>2 DEF NoRow
  <2> QED
    BY <2>2, <2>3 DEF Once!Decide, Once!Undecided
<1>6. CASE code = "OK"
  <2>1. p.writes = "EFFECT" /\ lapsed = FALSE
    BY <1>1, <1>2, <1>6 DEF WritesFor, Local
  <2>2. effects' = [effects EXCEPT ![k] = @ + 1] /\ lapsed' = lapsed
    BY <1>3, <1>4, <2>1
  <2>3. Once!Accept(k)
    BY <1>5, <1>6, <2>1, <2>2 DEF Once!Accept
  <2> QED
    BY <2>3 DEF Once!RunOnceNext
<1>7. CASE code = "REFUSED"
  <2>1. effects' = effects /\ lapsed' = lapsed
    BY <1>2, <1>3, <1>4, <1>7 DEF NoWrites
  <2>2. Once!Refuse(k)
    BY <1>5, <1>7, <2>1 DEF Once!Refuse
  <2> QED
    BY <2>2 DEF Once!RunOnceNext
<1>8. CASE code = "HOLD_EXPIRED"
  <2>1. effects' = effects /\ lapsed' = TRUE
    BY <1>2, <1>3, <1>4, <1>8 DEF WritesFor
  <2>2. Once!RefuseExpired(k)
    BY <1>5, <1>8, <2>1 DEF Once!RefuseExpired
  <2> QED
    BY <2>2 DEF Once!RunOnceNext
<1> QED
  BY <1>2, <1>6, <1>7, <1>8 DEF Codes

\* Every step of the executor is a step of RunOnce or none.
LEMMA StepOnce ==
  ASSUME ExecutorInv, [ExecutorNext]_executorVars
  PROVE  [Once!RunOnceNext]_(Once!runOnceVars)
<1>1. CASE UNCHANGED Committed
  BY <1>1, StutterOnce
<1>2. ASSUME NEW r \in Requests, Commit(r) \/ CommitUnknown(r)
      PROVE  [Once!RunOnceNext]_(Once!runOnceVars)
  <2>1. CASE request[r].owner # TRUE
    BY <1>1, <1>2, <2>1 DEF Commit, CommitUnknown, Apply
  <2>2. CASE request[r].owner = TRUE
    <3>1. request[r].phase = "STAGED" /\ (Apply(r) \/ UNCHANGED Committed)
      BY <1>2 DEF Commit, CommitUnknown
    <3>2. request[r].key \in Keys
      BY <3>1, RequestIs DEF RequestRow
    <3> QED
      BY <1>1, <2>2, <3>1, <3>2, ApplyDecides
  <2> QED
    BY <2>1, <2>2
<1>3. CASE Materialized
  <2>1. Once!ExpireUnasked
    BY <1>3 DEF Materialized, Once!ExpireUnasked, ExecutorInv, CommittedTypes
  <2> QED
    BY <2>1 DEF Once!RunOnceNext
<1> QED
  BY <1>1, <1>2, <1>3
  DEF ExecutorNext, executorVars, Committed, Receive, ClaimNew, ClaimConflict, ClaimReplay,
      Mutate, Complete, Deadlock, Fail, HoldRunsOut

\* The executor implements RunOnce: each key is decided once, and takes effect
\* exactly as decided.
THEOREM ExecutorRunsOnce == ExecutorSpec => ImplementsRunOnce
<1>1. ExecutorInit => Once!RunOnceInit
  BY DEF ExecutorInit, Once!RunOnceInit, Once!Undecided, NoRow
<1>2. ExecutorInv /\ [ExecutorNext]_executorVars => [Once!RunOnceNext]_(Once!runOnceVars)
  BY StepOnce
<1> QED
  BY <1>1, <1>2, ExecutorInvariant, PTL
  DEF ExecutorSpec, ImplementsRunOnce, Once!RunOnceSpec

-----------------------------------------------------------------------------
(* The hub. *)

Messages == [resync : BOOLEAN, at : Nat]

HubTypes ==
  /\ heard \in Nat
  /\ stream \in [Streams -> {"CLOSED", "SUBSCRIBED", "OPEN"}]
  /\ queue \in [Streams -> Seq(Messages)]
  /\ told \in [Streams -> Nat]
  /\ owed \in [Streams -> BOOLEAN]
  /\ publish \in [todo : SUBSET Streams, at : Streams \cup {NoStream},
                  step : {"SEND", "DROP", "PUSH"}]

\* Publish is at one of the streams it has still to serve, or at none.
PublishIsAt ==
  /\ publish.at # NoStream => publish.at \in publish.todo
  /\ publish.at = NoStream => publish.step = "SEND"
  /\ publish.step = "PUSH" => HasRoom(publish.at)

\* No channel holds more than it can, nor anything not yet heard.
NothingAhead ==
  \A s \in Streams :
    /\ Len(queue[s]) <= QueueSize
    /\ told[s] <= heard
    /\ \A i \in 1 .. Len(queue[s]) : queue[s][i].at <= heard

\* A stream that Publish is done with has the newest fact last.
NewestIsLast ==
  \A s \in Streams : stream[s] # "CLOSED" /\ s \notin publish.todo =>
    /\ queue[s] # <<>> => queue[s][Len(queue[s])].at = heard
    /\ queue[s] = <<>> /\ stream[s] = "OPEN" => told[s] = heard

\* What a channel lost is announced, or about to be.
OwedIsAnnounced ==
  \A s \in Streams : stream[s] # "CLOSED" /\ owed[s] = TRUE =>
    \/ \E i \in 1 .. Len(queue[s]) : queue[s][i].resync = TRUE
    \/ publish.at = s /\ publish.step = "PUSH"

HubInv == HubTypes /\ PublishIsAt /\ NothingAhead /\ NewestIsLast /\ OwedIsAnnounced

-----------------------------------------------------------------------------
\* No stream is open.
LEMMA InitHub == HubInit => HubInv
  BY HubAssumption
  DEF HubInit, HubInv, HubTypes, PublishIsAt, NothingAhead, NewestIsLast, OwedIsAnnounced,
      Quiet, Messages

\* The invariant says what is to be shown.
LEMMA InvariantAnnounces == HubInv => LossIsAnnounced
<1> SUFFICES ASSUME HubInv, NEW s \in Streams, stream[s] = "OPEN", s \notin publish.todo
             PROVE  /\ owed[s] => Announced(s)
                    /\ heard = IF queue[s] = <<>> THEN told[s]
                                                  ELSE queue[s][Len(queue[s])].at
  BY DEF LossIsAnnounced
<1>1. queue[s] \in Seq(Messages) /\ owed[s] \in BOOLEAN
  BY DEF HubInv, HubTypes
<1>2. owed[s] => Announced(s)
  <2>1. owed[s] = TRUE => \E i \in 1 .. Len(queue[s]) : queue[s][i].resync = TRUE
    BY HubAssumption DEF HubInv, OwedIsAnnounced, PublishIsAt
  <2> QED
    BY <1>1, <2>1 DEF Announced
<1>3. heard = IF queue[s] = <<>> THEN told[s] ELSE queue[s][Len(queue[s])].at
  BY <1>1 DEF HubInv, NewestIsLast
<1> QED
  BY <1>2, <1>3

-----------------------------------------------------------------------------
(* The steps of a handler. *)

LEMMA SubscribeStep ==
  ASSUME HubInv, NEW s \in Streams, Subscribe(s)
  PROVE  HubInv'
<1>1. queue'[s] = <<>> /\ owed'[s] = FALSE /\ publish.todo = {}
      /\ \A o \in Streams \ {s} :
           queue'[o] = queue[o] /\ owed'[o] = owed[o] /\ stream'[o] = stream[o]
  BY DEF Subscribe, HubInv, HubTypes, Quiet
<1>2. stream'[s] = "SUBSCRIBED"
  BY DEF Subscribe, HubInv, HubTypes
<1>3. HubTypes'
  BY DEF HubInv, HubTypes, Subscribe
<1>4. PublishIsAt'
  BY DEF HubInv, PublishIsAt, Subscribe, Quiet
<1>5. NothingAhead'
  BY <1>1, HubAssumption DEF HubInv, NothingAhead, HubTypes, Subscribe
<1>6. NewestIsLast'
  BY <1>1, <1>2 DEF HubInv, NewestIsLast, Subscribe
<1>7. OwedIsAnnounced'
  BY <1>1 DEF HubInv, OwedIsAnnounced, Subscribe
<1> QED
  BY <1>3, <1>4, <1>5, <1>6, <1>7 DEF HubInv

LEMMA ConnectedStep ==
  ASSUME HubInv, NEW s \in Streams, WriteConnected(s)
  PROVE  HubInv'
<1>1. HubTypes'
  BY DEF HubInv, HubTypes, WriteConnected
<1>2. PublishIsAt'
  BY DEF HubInv, PublishIsAt, WriteConnected, HasRoom
<1>3. NothingAhead'
  <2>1. \A o \in Streams : told'[o] = IF o = s THEN heard ELSE told[o]
    BY DEF HubInv, HubTypes, WriteConnected
  <2>2. heard <= heard
    BY DEF HubInv, HubTypes
  <2> QED
    BY <2>1, <2>2 DEF HubInv, NothingAhead, WriteConnected
<1>4. NewestIsLast'
  BY DEF HubInv, HubTypes, NewestIsLast, WriteConnected
<1>5. OwedIsAnnounced'
  BY DEF HubInv, HubTypes, OwedIsAnnounced, WriteConnected
<1> QED
  BY <1>1, <1>2, <1>3, <1>4, <1>5 DEF HubInv

LEMMA LeaveStep ==
  ASSUME HubInv, NEW s \in Streams, Leave(s)
  PROVE  HubInv'
<1>1. HubTypes'
  BY DEF HubInv, HubTypes, Leave
<1>2. PublishIsAt'
  BY DEF HubInv, PublishIsAt, Leave, HasRoom
<1>3. NothingAhead'
  BY DEF HubInv, NothingAhead, Leave
<1>4. \A o \in Streams : stream'[o] # "CLOSED" => stream'[o] = stream[o]
  BY DEF HubInv, HubTypes, Leave
<1>5. NewestIsLast'
  BY <1>4 DEF HubInv, NewestIsLast, Leave
<1>6. OwedIsAnnounced'
  BY <1>4 DEF HubInv, OwedIsAnnounced, Leave
<1> QED
  BY <1>1, <1>2, <1>3, <1>5, <1>6 DEF HubInv

LEMMA WriteStep ==
  ASSUME HubInv, NEW s \in Streams, WriteNext(s)
  PROVE  HubInv'
<1> DEFINE q == queue[s]
           m == Head(q)
<1>1. q \in Seq(Messages) /\ q # <<>> /\ m \in Messages /\ m = q[1]
      /\ Len(q) \in Nat /\ Len(q) >= 1 /\ Len(q) <= QueueSize
  BY DEF HubInv, HubTypes, NothingAhead, WriteNext
<1>2. /\ Tail(q) \in Seq(Messages) /\ Len(Tail(q)) = Len(q) - 1
      /\ \A i \in 1 .. Len(q) - 1 : Tail(q)[i] = q[i + 1]
  BY <1>1
<1>3. /\ queue'[s] = Tail(q) /\ told'[s] = (IF m.at > told[s] THEN m.at ELSE told[s])
      /\ owed'[s] = (owed[s] /\ ~m.resync)
      /\ \A o \in Streams \ {s} :
           queue'[o] = queue[o] /\ told'[o] = told[o] /\ owed'[o] = owed[o]
      /\ heard' = heard /\ publish' = publish /\ stream' = stream /\ stream[s] = "OPEN"
  BY DEF WriteNext, HubInv, HubTypes
<1>4. m.at \in Nat /\ m.at <= heard /\ m.resync \in BOOLEAN
      /\ told[s] \in Nat /\ told[s] <= heard /\ heard \in Nat /\ owed[s] \in BOOLEAN
  BY <1>1 DEF Messages, HubInv, HubTypes, NothingAhead
<1>5. HubTypes'
  <2>1. queue' \in [Streams -> Seq(Messages)]
    BY <1>2 DEF HubInv, HubTypes, WriteNext
  <2>2. told' \in [Streams -> Nat]
    BY <1>4 DEF HubInv, HubTypes, WriteNext
  <2>3. owed' \in [Streams -> BOOLEAN]
    BY <1>4 DEF HubInv, HubTypes, WriteNext
  <2> QED
    BY <1>3, <2>1, <2>2, <2>3 DEF HubInv, HubTypes
<1>6. PublishIsAt'
  <2>1. Len(queue'[s]) = Len(queue[s]) - 1
    BY <1>2, <1>3
  <2>2. publish.step = "PUSH" => HasRoom(publish.at)'
    <3>1. CASE publish.at = s
      <4>1. Len(queue'[s]) < QueueSize
        BY <1>1, <2>1, HubAssumption
      <4>2. publish' = publish
        BY <1>3
      <4> QED
        BY <3>1, <4>1, <4>2 DEF HasRoom
    <3>2. CASE publish.at # s
      <4>1. publish.at \in Streams \cup {NoStream}
        BY DEF HubInv, HubTypes
      <4>2. CASE publish.at \in Streams
        <5>1. queue'[publish.at] = queue[publish.at]
          BY <1>3, <3>2, <4>2
        <5> QED
          BY <1>3, <5>1 DEF HubInv, PublishIsAt, HasRoom
      <4>3. CASE publish.at = NoStream
        BY <4>3 DEF HubInv, PublishIsAt
      <4> QED
        BY <4>1, <4>2, <4>3
    <3> QED
      BY <3>1, <3>2
  <2> QED
    BY <1>3, <2>2 DEF HubInv, PublishIsAt, HasRoom
<1>7. NothingAhead'
  <2>1. /\ Len(queue'[s]) <= QueueSize /\ told'[s] <= heard
        /\ \A i \in 1 .. Len(queue'[s]) : queue'[s][i].at <= heard
    BY <1>1, <1>2, <1>3, <1>4, HubAssumption DEF HubInv, NothingAhead
  <2> QED
    BY <1>3, <2>1 DEF HubInv, NothingAhead
<1>8. NewestIsLast'
  <2>1. ASSUME s \notin publish.todo
        PROVE  /\ queue'[s] # <<>> => queue'[s][Len(queue'[s])].at = heard
               /\ queue'[s] = <<>> => told'[s] = heard
    <3>1. q[Len(q)].at = heard
      BY <1>1, <1>3, <2>1 DEF HubInv, NewestIsLast
    <3>2. CASE Len(q) = 1
      BY <1>1, <1>2, <1>3, <1>4, <3>1, <3>2
    <3>3. CASE Len(q) # 1
      <4> HIDE DEF q, m
      <4>1. Len(q) - 1 \in 1 .. Len(q) - 1 /\ (Len(q) - 1) + 1 = Len(q)
        <5>1. Len(q) \in Nat /\ Len(q) >= 1 /\ Len(q) # 1
          BY <1>1, <3>3
        <5>2. \A n \in Nat : n >= 1 /\ n # 1 => n - 1 \in 1 .. n - 1 /\ (n - 1) + 1 = n
          OBVIOUS
        <5> QED
          BY <5>1, <5>2
      <4>2. Tail(q)[Len(q) - 1] = q[Len(q)] /\ Len(Tail(q)) = Len(q) - 1
        BY <1>2, <4>1
      <4>3. queue'[s][Len(queue'[s])] = q[Len(q)]
        BY <1>3, <4>2
      <4>4. queue'[s] # <<>>
        <5>1. Len(Tail(q)) # 0 /\ Len(<<>>) = 0
          BY <4>1, <4>2
        <5> QED
          BY <1>3, <5>1
      <4> QED
        BY <3>1, <4>3, <4>4
    <3> QED
      BY <3>2, <3>3
  <2> QED
    BY <1>3, <2>1 DEF HubInv, NewestIsLast
<1>9. OwedIsAnnounced'
  <2>1. ASSUME owed'[s] = TRUE, ~(publish.at = s /\ publish.step = "PUSH")
        PROVE  \E i \in 1 .. Len(queue'[s]) : queue'[s][i].resync = TRUE
    <3>1. owed[s] = TRUE /\ m.resync = FALSE
      BY <1>3, <1>4, <2>1
    <3>2. PICK i \in 1 .. Len(q) : q[i].resync = TRUE
      BY <1>3, <2>1, <3>1 DEF HubInv, OwedIsAnnounced
    <3>3. i # 1
      BY <1>1, <3>1, <3>2
    <3>4. i - 1 \in 1 .. Len(queue'[s]) /\ queue'[s][i - 1] = q[i]
      BY <1>1, <1>2, <1>3, <3>3
    <3> QED
      BY <3>2, <3>4
  <2> QED
    BY <1>3, <2>1 DEF HubInv, OwedIsAnnounced
<1> QED
  BY <1>5, <1>6, <1>7, <1>8, <1>9 DEF HubInv

-----------------------------------------------------------------------------
(* The steps of Publish. *)

LEMMA HearStep ==
  ASSUME HubInv, Hear
  PROVE  HubInv'
<1>1. /\ publish'.todo = {s \in Streams : stream[s] # "CLOSED"}
      /\ publish'.at = NoStream /\ publish'.step = "SEND" /\ heard' = heard + 1
      /\ publish.at = NoStream /\ UNCHANGED <<stream, queue, told, owed>>
      /\ publish.step = "SEND"
  BY DEF Hear, Quiet
<1>2. HubTypes'
  BY DEF HubInv, HubTypes, Hear, Quiet
<1>3. PublishIsAt'
  BY <1>1 DEF PublishIsAt
<1>4. NothingAhead'
  <2>1. ASSUME NEW s \in Streams
        PROVE  /\ told[s] <= heard'
               /\ \A i \in 1 .. Len(queue[s]) : queue[s][i].at <= heard'
    <3>1. told[s] \in Nat /\ heard \in Nat /\ queue[s] \in Seq(Messages)
      BY DEF HubInv, HubTypes
    <3>2. \A i \in 1 .. Len(queue[s]) : queue[s][i] \in Messages
      BY <3>1
    <3>3. \A i \in 1 .. Len(queue[s]) : queue[s][i].at \in Nat
      BY <3>2 DEF Messages
    <3> QED
      BY <1>1, <3>1, <3>3 DEF HubInv, NothingAhead
  <2> QED
    BY <1>1, <2>1 DEF HubInv, NothingAhead
<1>5. NewestIsLast'
  BY <1>1 DEF NewestIsLast
<1>6. OwedIsAnnounced'
  BY <1>1 DEF HubInv, OwedIsAnnounced
<1> QED
  BY <1>2, <1>3, <1>4, <1>5, <1>6 DEF HubInv

\* A message put into a channel that has room is the newest there, and hides
\* none that was there.
LEMMA PutOne ==
  ASSUME HubInv, NEW s \in Streams, s \in publish.todo, HasRoom(s),
         publish.at # NoStream => publish.at = s,
         NEW resync \in BOOLEAN, Put(s, Message(resync)), Served(s),
         resync = TRUE \/ publish.step # "PUSH",
         UNCHANGED <<heard, stream, told, owed>>
  PROVE  HubInv'
<1> DEFINE q == queue[s]
           m == Message(resync)
<1>1. q \in Seq(Messages) /\ m \in Messages /\ heard \in Nat /\ Len(q) \in Nat
      /\ m.at = heard /\ m.resync = resync
  BY DEF HubInv, HubTypes, Message, Messages
<1>2. /\ Append(q, m) \in Seq(Messages) /\ Len(Append(q, m)) = Len(q) + 1
      /\ \A i \in 1 .. Len(q) : Append(q, m)[i] = q[i]
      /\ Append(q, m)[Len(q) + 1] = m /\ Append(q, m) # <<>>
  BY <1>1
<1>3. /\ queue'[s] = Append(q, m)
      /\ \A o \in Streams \ {s} : queue'[o] = queue[o]
      /\ publish'.todo = publish.todo \ {s}
      /\ publish'.at = NoStream /\ publish'.step = "SEND"
  BY DEF Put, Served, HubInv, HubTypes, Quiet
<1>4. HubTypes'
  <2>1. queue' \in [Streams -> Seq(Messages)]
    BY <1>2 DEF Put, HubInv, HubTypes
  <2>2. publish' \in [todo : SUBSET Streams, at : Streams \cup {NoStream},
                      step : {"SEND", "DROP", "PUSH"}]
    BY DEF Served, Quiet, HubInv, HubTypes
  <2> QED
    BY <2>1, <2>2 DEF HubInv, HubTypes
<1>5. PublishIsAt'
  BY <1>3 DEF PublishIsAt
<1>6. NothingAhead'
  <2>1. Len(queue'[s]) <= QueueSize
    BY <1>1, <1>2, <1>3, HubAssumption DEF HasRoom
  <2>2. \A i \in 1 .. Len(queue'[s]) : queue'[s][i].at <= heard
    <3>1. ASSUME NEW i \in 1 .. Len(q) + 1
          PROVE  Append(q, m)[i].at <= heard
      <4>1. CASE i = Len(q) + 1
        BY <1>1, <1>2, <4>1
      <4>2. CASE i # Len(q) + 1
        BY <1>1, <1>2, <4>2 DEF HubInv, NothingAhead
      <4> QED
        BY <4>1, <4>2
    <3> QED
      BY <1>2, <1>3, <3>1
  <2> QED
    BY <1>3, <2>1, <2>2 DEF HubInv, NothingAhead
<1>7. NewestIsLast'
  <2>1. queue'[s] # <<>> /\ queue'[s][Len(queue'[s])].at = heard
    BY <1>1, <1>2, <1>3
  <2> QED
    BY <1>3, <2>1 DEF HubInv, NewestIsLast
<1>8. OwedIsAnnounced'
  <2>1. ASSUME stream[s] # "CLOSED", owed[s] = TRUE
        PROVE  \E i \in 1 .. Len(queue'[s]) : queue'[s][i].resync = TRUE
    <3>1. CASE resync = TRUE
      <4> HIDE DEF q, m
      <4>1. Len(q) + 1 \in 1 .. Len(Append(q, m))
        BY <1>1, <1>2
      <4>2. Append(q, m)[Len(q) + 1].resync = TRUE
        BY <1>1, <1>2, <3>1
      <4> QED
        BY <1>3, <4>1, <4>2
    <3>2. CASE publish.step # "PUSH"
      <4>1. PICK i \in 1 .. Len(q) : q[i].resync = TRUE
        BY <2>1, <3>2 DEF HubInv, OwedIsAnnounced
      <4>2. i \in 1 .. Len(queue'[s]) /\ queue'[s][i].resync = TRUE
        BY <1>1, <1>2, <1>3, <4>1
      <4> QED
        BY <4>2
    <3> QED
      BY <3>1, <3>2
  <2>2. ASSUME NEW o \in Streams \ {s}, stream[o] # "CLOSED", owed[o] = TRUE
        PROVE  \E i \in 1 .. Len(queue[o]) : queue[o][i].resync = TRUE
    <3>1. publish.at # o
      BY HubAssumption
    <3> QED
      BY <2>2, <3>1 DEF HubInv, OwedIsAnnounced
  <2> QED
    BY <1>3, <2>1, <2>2 DEF OwedIsAnnounced
<1> QED
  BY <1>4, <1>5, <1>6, <1>7, <1>8 DEF HubInv

\* A full channel is gone into.
LEMMA SendStep ==
  ASSUME HubInv, NEW s \in Streams, Send(s)
  PROVE  HubInv'
<1>1. CASE HasRoom(s)
  <2>1. publish.step # "PUSH"
    BY DEF Send, HubInv, PublishIsAt
  <2> QED
    BY <1>1, <2>1, PutOne DEF Send
<1>2. CASE ~HasRoom(s)
  <2>1. /\ publish'.todo = publish.todo /\ publish'.at = s /\ publish'.step = "DROP"
        /\ publish.at = NoStream /\ s \in publish.todo
        /\ UNCHANGED <<heard, stream, queue, told, owed>>
    BY <1>2 DEF Send, GoTo, HubInv, HubTypes
  <2>2. HubTypes'
    BY <1>2, <2>1 DEF Send, GoTo, HubInv, HubTypes
  <2>3. PublishIsAt'
    BY <2>1, HubAssumption DEF PublishIsAt
  <2>4. OwedIsAnnounced'
    BY <2>1, HubAssumption DEF HubInv, OwedIsAnnounced
  <2> QED
    BY <2>1, <2>2, <2>3, <2>4 DEF HubInv, NothingAhead, NewestIsLast
<1> QED
  BY <1>1, <1>2

\* The oldest message goes, and there is room.
LEMMA DropStep ==
  ASSUME HubInv, NEW s \in Streams, DropOldest(s)
  PROVE  HubInv'
<1> DEFINE q == queue[s]
           rest == IF q = <<>> THEN q ELSE Tail(q)
<1>1. q \in Seq(Messages) /\ Len(q) \in Nat /\ Len(q) <= QueueSize
      /\ \A i \in 1 .. Len(q) : q[i].at <= heard
  BY DEF HubInv, HubTypes, NothingAhead
<1>2. /\ rest \in Seq(Messages) /\ Len(rest) < QueueSize
      /\ \A i \in 1 .. Len(rest) : rest[i].at <= heard
  <2>1. CASE q = <<>>
    BY <1>1, <2>1, HubAssumption
  <2>2. CASE q # <<>>
    BY <1>1, <2>2, HubAssumption
  <2> QED
    BY <2>1, <2>2
<1>3. /\ queue'[s] = rest /\ \A o \in Streams \ {s} : queue'[o] = queue[o] /\ owed'[o] = owed[o]
      /\ publish'.todo = publish.todo /\ publish'.at = s /\ publish'.step = "PUSH"
      /\ publish.at = s /\ s \in publish.todo /\ s # NoStream
      /\ UNCHANGED <<heard, stream, told>>
  BY HubAssumption DEF DropOldest, At, GoTo, HubInv, HubTypes, PublishIsAt
<1>4. HubTypes'
  <2>1. queue' \in [Streams -> Seq(Messages)] /\ owed' \in [Streams -> BOOLEAN]
    BY <1>2 DEF DropOldest, HubInv, HubTypes
  <2>2. publish' \in [todo : SUBSET Streams, at : Streams \cup {NoStream},
                      step : {"SEND", "DROP", "PUSH"}]
    BY DEF DropOldest, GoTo, HubInv, HubTypes
  <2> QED
    BY <1>3, <2>1, <2>2 DEF HubInv, HubTypes
<1>5. PublishIsAt'
  BY <1>2, <1>3 DEF PublishIsAt, HasRoom
<1>6. NothingAhead'
  <2> HIDE DEF rest
  <2>1. QueueSize \in Nat /\ Len(rest) \in Nat
    BY <1>2, HubAssumption
  <2>2. /\ Len(queue'[s]) <= QueueSize /\ told'[s] <= heard'
        /\ \A i \in 1 .. Len(queue'[s]) : queue'[s][i].at <= heard'
    BY <1>2, <1>3, <2>1 DEF HubInv, NothingAhead
  <2> QED
    BY <1>3, <2>2 DEF HubInv, NothingAhead
<1>7. NewestIsLast'
  BY <1>3 DEF HubInv, NewestIsLast
<1>8. OwedIsAnnounced'
  BY <1>3 DEF HubInv, OwedIsAnnounced
<1> QED
  BY <1>4, <1>5, <1>6, <1>7, <1>8 DEF HubInv

\* The resync finds the room the drop has made.
LEMMA PushStep ==
  ASSUME HubInv, NEW s \in Streams, PushResync(s)
  PROVE  HubInv'
<1>1. publish.at = s /\ s \in publish.todo /\ HasRoom(s)
  BY HubAssumption DEF PushResync, At, HubInv, PublishIsAt
<1> QED
  BY <1>1, PutOne DEF PushResync

-----------------------------------------------------------------------------
\* Every step keeps the invariant.
LEMMA StepHub == HubInv /\ [HubNext]_hubVars => HubInv'
<1> SUFFICES ASSUME HubInv, [HubNext]_hubVars PROVE HubInv'
  OBVIOUS
<1>1. CASE UNCHANGED hubVars
  BY <1>1
  DEF hubVars, HubInv, HubTypes, PublishIsAt, HasRoom, NothingAhead, NewestIsLast, OwedIsAnnounced
<1>2. CASE Hear
  BY <1>2, HearStep
<1>3. ASSUME NEW s \in Streams,
             Subscribe(s) \/ WriteConnected(s) \/ WriteNext(s) \/ Leave(s)
      PROVE  HubInv'
  BY <1>3, SubscribeStep, ConnectedStep, WriteStep, LeaveStep
<1>4. ASSUME NEW s \in Streams, Send(s) \/ DropOldest(s) \/ PushResync(s)
      PROVE  HubInv'
  BY <1>4, SendStep, DropStep, PushStep
<1> QED
  BY <1>1, <1>2, <1>3, <1>4 DEF HubNext

\* Whatever the pace of a reader and the size of its channel, nothing is lost
\* without being announced, and the newest fact never.
THEOREM EveryLossIsAnnounced == HubSpec => []LossIsAnnounced
  BY InitHub, StepHub, InvariantAnnounces, PTL DEF HubSpec

-----------------------------------------------------------------------------
(* PATCH requests. *)

\* What a request names, and what it has read.
PatchRow ==
  [r : Reservations, remove : SUBSET Seat, add : SUBSET Seat, seen : SUBSET Seat,
   lost : SUBSET Seat]

PatchInv == CoreTypeOK /\ patch \in [Calls -> PatchRow \cup {NoPatch}]

\* No request is in progress at first.
LEMMA InitPatch == PatchInit => PatchInv
BY InitType DEF PatchInit, PatchInv

\* A PATCH is a Modify whose composition a client could have asked for.
LEMMA PatchModifies ==
  ASSUME PatchInv, NEW c \in Calls, NEW r \in Reservations, ApplyPatch(c, r)
  PROVE  FinalItems(c) \in Orders /\ Handler(r)
<1>1. patch[c] \in PatchRow
  BY DEF PatchInv, ApplyPatch
<1>2. FinalItems(c).seats \in SUBSET Seat
  BY <1>1 DEF FinalItems, Kept, PatchRow
<1>3. FinalItems(c) \in Orders
  <2>1. FinalItems(c) = [seats |-> FinalItems(c).seats, places |-> NoPlaces]
    BY DEF FinalItems
  <2>2. FinalItems(c).seats # {}
        /\ \A k, l \in FinalItems(c).seats : k.unit = l.unit => k = l
    BY DEF ApplyPatch, Normalized
  <2> QED
    BY <1>2, <2>1, <2>2, PatchAssumption
<1> QED
  BY <1>3 DEF ApplyPatch, Handler

\* What the others named and read stays, up to the seats they lost.
LEMMA PatchedTypes ==
  ASSUME PatchInv, NEW c \in Calls, NEW r \in Reservations, ApplyPatch(c, r)
  PROVE  patch' \in [Calls -> PatchRow \cup {NoPatch}]
<1>1. items[r].seats \in SUBSET Seat
  BY DEF PatchInv, CoreTypeOK, ReservationTypeOK
<1>2. ASSUME NEW d \in Calls
      PROVE  patch'[d] \in PatchRow \cup {NoPatch}
  <2>1. CASE d = c
    BY <2>1 DEF ApplyPatch
  <2>2. CASE patch[d] # NoPatch /\ d # c /\ patch[d].r = r
    <3>1. patch[d] \in PatchRow
      BY <2>2 DEF PatchInv
    <3>2. patch'[d] = [patch[d] EXCEPT !.lost = @ \cup (items[r].seats \ Kept(c))]
      BY <2>2 DEF ApplyPatch
    <3> QED
      BY <1>1, <3>1, <3>2 DEF PatchRow
  <2>3. CASE d # c /\ ~(patch[d] # NoPatch /\ patch[d].r = r)
    BY <2>3 DEF ApplyPatch, PatchInv
  <2> QED
    BY <2>1, <2>2, <2>3
<1> QED
  BY <1>2 DEF ApplyPatch

\* Every step of the requests is a step of Reservation, or none.
LEMMA StepPatch ==
  PatchInv /\ [PatchNext]_patchVars => [Next]_vars /\ PatchInv'
<1> SUFFICES ASSUME PatchInv, [PatchNext]_patchVars PROVE [Next]_vars /\ PatchInv'
  OBVIOUS
<1>1. [Next]_vars => CoreTypeOK'
  BY StepType DEF PatchInv
<1>2. ASSUME NEW c \in Calls, NEW r \in Reservations, NEW remove \in SUBSET Seat,
             NEW add \in SUBSET Seat, LoadItems(c, r, remove, add)
      PROVE  [Next]_vars /\ PatchInv'
  <2>1. [r |-> r, remove |-> remove, add |-> add, seen |-> items[r].seats, lost |-> {}]
          \in PatchRow
    BY DEF PatchInv, CoreTypeOK, ReservationTypeOK, PatchRow
  <2> QED
    BY <1>1, <1>2, <2>1 DEF LoadItems, PatchInv
<1>3. ASSUME NEW c \in Calls, NEW r \in Reservations, ApplyPatch(c, r)
      PROVE  [Next]_vars /\ PatchInv'
  <2>1. [Next]_vars
    BY <1>3, PatchModifies DEF Next
  <2> QED
    BY <1>1, <1>3, <2>1, PatchedTypes DEF PatchInv
<1>4. ASSUME NEW c \in Calls, AbandonPatch(c)
      PROVE  [Next]_vars /\ PatchInv'
  BY <1>1, <1>4 DEF AbandonPatch, PatchInv
<1>5. CASE /\ \/ Tick
              \/ Operator
              \/ Materialize
              \/ \E r \in Reservations : Settlement(r) \/ \E q \in Orders : Create(r, q)
           /\ UNCHANGED patch
  <2>1. Next
    BY <1>5 DEF Next, Handler
  <2> QED
    BY <1>1, <1>5, <2>1 DEF PatchInv
<1>6. CASE UNCHANGED patchVars
  <2>1. UNCHANGED vars /\ patch' = patch
    BY <1>6 DEF patchVars
  <2> QED
    BY <1>1, <2>1 DEF PatchInv
<1> QED
  BY <1>2, <1>3, <1>4, <1>5, <1>6 DEF PatchNext

\* Whatever two PATCH requests have read before the other one commits, the Reservation sees
\* Modify with a composition of seats, and nothing else.
THEOREM StaleReadsAreModifications == PatchSpec => PatchesAreModifications
<1>1. PatchInit => Init
  BY DEF PatchInit
<1> QED
  BY <1>1, InitPatch, StepPatch, PTL DEF PatchSpec, PatchesAreModifications, Spec

\* A seat that another request removed in between is not silently taken again.
THEOREM PatchesAddWhatTheyName == PatchSpec => AddsOnlyWhatItNames
<1>1. ASSUME PatchInv, NEW c \in Calls, NEW r \in Reservations, Applied(c, r)
      PROVE  items'[r].seats \subseteq items[r].seats \cup patch[c].add
  <2>1. ApplyPatch(c, r) /\ State(r)' = "HELD"
    BY <1>1 DEF Applied
  <2>2. items \in [Reservations -> [seats : SUBSET Seat,
                                     places : [Sources -> [Pools -> Nat]]]]
        /\ reservation \in [Reservations -> ReservationRow]
    BY <1>1 DEF PatchInv, CoreTypeOK, ReservationTypeOK
  <2>3. Modify(r, FinalItems(c)) /\ KeptIsActive(c) /\ patch[c].r = r
    BY <2>1 DEF ApplyPatch
  <2>4. ~Expire(r)
    <3> SUFFICES ASSUME Expire(r) PROVE FALSE
      OBVIOUS
    <3>1. reservation' = [reservation EXCEPT ![r].state = "EXPIRED"]
      BY DEF Expire, SetState
    <3>2. reservation'[r] = [reservation[r] EXCEPT !.state = "EXPIRED"]
      BY <2>2, <3>1
    <3>3. reservation'[r].state = "EXPIRED"
      BY <2>2, <3>2 DEF ReservationRow
    <3> QED
      BY <2>1, <3>3 DEF State
  <2>5. items'[r] = FinalItems(c)
    BY <2>2, <2>3, <2>4 DEF Modify, ChangeItems
  <2> QED
    BY <2>3, <2>5 DEF FinalItems, KeptIsActive
<1>2. PatchInv /\ [PatchNext]_patchVars =>
        [\A c \in Calls, r \in Reservations : Applied(c, r) =>
            items'[r].seats \subseteq items[r].seats \cup patch[c].add]_patchVars
  BY <1>1
<1> QED
  BY <1>2, InitPatch, StepPatch, PTL DEF PatchSpec, AddsOnlyWhatItNames

-----------------------------------------------------------------------------
(* The locks. *)

\* The kind of row each stage locks.
StageKind(l) ==
  /\ l.stage = "KEY" => l.row.kind = "key"
  /\ l.stage \in {"CALLER", "AUTHORITY", "FACT"} => l.row.kind = "partner"
  /\ l.stage = "GATE" => l.row.kind = "event"
  /\ l.stage = "AGGREGATE" => l.row.kind = "reservation"
  /\ l.stage \in {"RESTRICTION", "DESTINATION"} => l.row.kind = "restriction"
  /\ l.stage = "UNIT" => l.row.kind = "unit"
  /\ l.stage = "POOL" => l.row.kind = "pool"
  /\ l.stage = "LEDGER" => l.row.kind \in {"unit", "pool", "ledger"}

Single == {"KEY", "GATE", "AGGREGATE", "DESTINATION"}

\* Two locks of a command at one stage are of two rows, and of one at most
\* where a command takes one; the destination is another Allocation.
StageOnce(S) ==
  \A l, m \in S :
     /\ l.stage = m.stage /\ (l.stage \in Single \/ l.row = m.row) => l = m
     /\ l.stage = "RESTRICTION" /\ m.stage = "DESTINATION" => l.row # m.row

\* What a lock of inventory stands on: the Event; for a row of the ledger its
\* seat or pool; for a price the Event alone.
Guarded(l, S) ==
  /\ l.stage \in {"UNIT", "POOL", "LEDGER"} => \E g \in S : g.stage = "GATE"
  /\ l.stage = "LEDGER" /\ l.row.kind = "ledger" =>
       \E g \in S : g.stage \in {"UNIT", "POOL"} /\ g.mode = "UPDATE" /\ g.row = GuardOf[l.row]
  /\ l.stage = "LEDGER" /\ l.row.kind # "ledger" =>
       \E g \in S : g.stage = "GATE" /\ g.mode = "UPDATE"

CommandShape(S) ==
  /\ \A l \in S : StageKind(l) /\ Guarded(l, S)
  /\ StageOnce(S)

\* A transaction has nothing that comes after something it still asks for.
TakenInOrder ==
  \A t \in Transactions : \A l \in asks[t], h \in holds[t] : ~Before(l, h)

\* What two transactions hold does not conflict.
Compatible ==
  \A t, u \in Transactions :
     t # u => \A h \in holds[t], m \in holds[u] : ~Conflict(h, m)

\* The inductive invariant.
LocksInv ==
  /\ LocksTypeOK /\ TakenInOrder /\ Compatible
  /\ \A t \in Transactions : CommandShape(asks[t] \cup holds[t])

-----------------------------------------------------------------------------
\* Every command is a set of locks of that shape.

\* The stages there are.
LEMMA StagesAre ==
    DOMAIN Turn = {"KEY", "CALLER", "GATE", "AUTHORITY", "AGGREGATE", "RESTRICTION",
                   "DESTINATION", "UNIT", "POOL", "LEDGER", "FACT"}
  BY DEF Turn

\* The locks of Take, one for each row.
LEMMA TakeIs ==
    ASSUME NEW s, NEW md, NEW R
    PROVE  /\ \A l \in Take(s, md, R) : l.stage = s /\ l.row \in R /\ l.mode = md
           /\ \A r \in R : [stage |-> s, row |-> r, mode |-> md] \in Take(s, md, R)
           /\ \A l, m \in Take(s, md, R) : l.row = m.row => l = m
           /\ \A l \in Take(s, md, R) : l = [stage |-> s, row |-> l.row, mode |-> md]
  <1>1. /\ \A l \in Take(s, md, R) : l.stage = s /\ l.row \in R /\ l.mode = md
        /\ \A r \in R : [stage |-> s, row |-> r, mode |-> md] \in Take(s, md, R)
        /\ \A l, m \in Take(s, md, R) : l.row = m.row => l = m
    BY DEF Take
  <1>2. ASSUME NEW l \in Take(s, md, R)
        PROVE  l = [stage |-> s, row |-> l.row, mode |-> md]
    <2>1. [stage |-> s, row |-> l.row, mode |-> md] \in Take(s, md, R)
      BY <1>1
    <2>2. [stage |-> s, row |-> l.row, mode |-> md].row = l.row
      OBVIOUS
    <2> QED BY <1>1, <2>1, <2>2
  <1> QED BY <1>1, <1>2

\* Take makes locks.
LEMMA TakeInLock ==
    ASSUME NEW s \in DOMAIN Turn, NEW md \in {"KEY SHARE", "UPDATE"}, NEW R, R \subseteq LockRows
    PROVE  Take(s, md, R) \subseteq Lock
  BY DEF Take, Lock

\* The claim of a key, and the Partner its row is of, are one lock each.
LEMMA ExecutorShape ==
    ASSUME NEW k \in AtMostOne("key"), NEW p \in AtMostOne("partner")
    PROVE  /\ Executor(k, p) \subseteq Lock
           /\ \A l \in Executor(k, p) : l.stage \in {"KEY", "CALLER"} /\ StageKind(l)
           /\ \A l, m \in Executor(k, p) : l.stage = m.stage => l = m
  <1>1. /\ k \subseteq RowsOf("key") /\ \A r, s \in k : r = s
        /\ p \subseteq RowsOf("partner") /\ \A r, s \in p : r = s
    BY DEF AtMostOne
  <1> DEFINE K == Take("KEY", "UPDATE", k)
             C == Take("CALLER", "KEY SHARE", p)
  <1>2. K \subseteq Lock
    <2>1. k \subseteq LockRows
      BY <1>1 DEF RowsOf
    <2> QED BY <2>1, TakeInLock, StagesAre DEF K
  <1>3. C \subseteq Lock
    <2>1. p \subseteq LockRows
      BY <1>1 DEF RowsOf
    <2> QED BY <2>1, TakeInLock, StagesAre DEF C
  <1>4. /\ \A l \in K : l.stage = "KEY" /\ l.row \in k
        /\ \A l, m \in K : l.row = m.row => l = m
    BY TakeIs
  <1>5. /\ \A l \in C : l.stage = "CALLER" /\ l.row \in p
        /\ \A l, m \in C : l.row = m.row => l = m
    BY TakeIs
  <1>6. Executor(k, p) = K \cup C
    BY DEF Executor
  <1> HIDE DEF K, C
  <1>7. /\ \A r \in k : r.kind = "key"
        /\ \A r \in p : r.kind = "partner"
    BY <1>1 DEF RowsOf
  <1>8. \A l \in K \cup C : l.stage \in {"KEY", "CALLER"} /\ StageKind(l)
    BY <1>4, <1>5, <1>7 DEF StageKind
  <1>9. \A l, m \in K \cup C : l.stage = m.stage => l = m
    BY <1>1, <1>4, <1>5
  <1> QED BY <1>2, <1>3, <1>6, <1>8, <1>9

\* Seats and pools, and the rows of the ledger that belong to them.
LEMMA InventoryShape ==
    ASSUME NEW i \in SUBSET Stock, NEW ls \in SUBSET RowsOf("ledger")
    PROVE  LET I == StockLocks(i, ls)
           IN  /\ I \subseteq Lock
               /\ \A l \in I : /\ l.stage \in {"UNIT", "POOL", "LEDGER"} /\ StageKind(l)
                               /\ l.stage = "LEDGER" =>
                                    /\ l.row.kind = "ledger"
                                    /\ \E g \in I : /\ g.stage \in {"UNIT", "POOL"}
                                                    /\ g.mode = "UPDATE"
                                                    /\ g.row = GuardOf[l.row]
               /\ \A l, m \in I : l.stage = m.stage /\ l.row = m.row => l = m
               /\ I # {} => i # {}
  <1> DEFINE U == i \cap RowsOf("unit")
             P == i \cap RowsOf("pool")
             L == {l \in ls : GuardOf[l] \in i}
             I == StockLocks(i, ls)
  <1>1. I = Take("UNIT", "UPDATE", U) \cup Take("POOL", "UPDATE", P) \cup Take("LEDGER", "UPDATE", L)
    BY DEF StockLocks
  <1>2. /\ U \subseteq RowsOf("unit") /\ P \subseteq RowsOf("pool") /\ L \subseteq RowsOf("ledger")
        /\ \A l \in L : GuardOf[l] \in i
        /\ U \cup P = i
    BY DEF Stock
  <1> HIDE DEF U, P, L
  <1>3. /\ Take("UNIT", "UPDATE", U) \subseteq Lock
        /\ Take("POOL", "UPDATE", P) \subseteq Lock
        /\ Take("LEDGER", "UPDATE", L) \subseteq Lock
    <2>1. U \subseteq LockRows /\ P \subseteq LockRows /\ L \subseteq LockRows
      BY <1>2 DEF RowsOf
    <2>2. Take("UNIT", "UPDATE", U) \subseteq Lock
      BY <2>1, TakeInLock, StagesAre
    <2>3. Take("POOL", "UPDATE", P) \subseteq Lock
      BY <2>1, TakeInLock, StagesAre
    <2>4. Take("LEDGER", "UPDATE", L) \subseteq Lock
      BY <2>1, TakeInLock, StagesAre
    <2> QED BY <2>2, <2>3, <2>4
  <1>4. /\ \A l \in Take("UNIT", "UPDATE", U) : l.stage = "UNIT" /\ l.row \in U
        /\ \A l \in Take("POOL", "UPDATE", P) : l.stage = "POOL" /\ l.row \in P
        /\ \A l \in Take("LEDGER", "UPDATE", L) : l.stage = "LEDGER" /\ l.row \in L
    BY TakeIs
  <1>5. /\ \A l, m \in Take("UNIT", "UPDATE", U) : l.row = m.row => l = m
        /\ \A l, m \in Take("POOL", "UPDATE", P) : l.row = m.row => l = m
        /\ \A l, m \in Take("LEDGER", "UPDATE", L) : l.row = m.row => l = m
    BY TakeIs
  <1> HIDE DEF I
  <1>6. \A l \in I : l.stage \in {"UNIT", "POOL", "LEDGER"} /\ StageKind(l)
    BY <1>1, <1>2, <1>4 DEF StageKind, RowsOf
  <1>7. \A l, m \in I : l.stage = m.stage /\ l.row = m.row => l = m
    BY <1>1, <1>4, <1>5
  <1>8. ASSUME NEW l \in I, l.stage = "LEDGER"
        PROVE  /\ l.row.kind = "ledger"
               /\ \E g \in I : /\ g.stage \in {"UNIT", "POOL"} /\ g.mode = "UPDATE"
                               /\ g.row = GuardOf[l.row]
    <2>1. l.row \in L
      BY <1>1, <1>4, <1>8
    <2>2. l.row.kind = "ledger"
      BY <2>1, <1>2 DEF RowsOf
    <2>3. CASE GuardOf[l.row] \in U
      <3>1. [stage |-> "UNIT", row |-> GuardOf[l.row], mode |-> "UPDATE"] \in I
        BY <1>1, <2>3, TakeIs
      <3> QED BY <3>1, <2>2
    <2>4. CASE GuardOf[l.row] \in P
      <3>1. [stage |-> "POOL", row |-> GuardOf[l.row], mode |-> "UPDATE"] \in I
        BY <1>1, <2>4, TakeIs
      <3> QED BY <3>1, <2>2
    <2> QED BY <2>1, <1>2, <2>3, <2>4
  <1>9. I # {} => i # {}
    BY <1>1, <1>2, <1>4
  <1> QED BY <1>1, <1>3, <1>6, <1>7, <1>8, <1>9 DEF I

\* What a command puts between its executor and its inventory.
Middle(M) ==
  /\ M \subseteq Lock
  /\ \A l \in M : /\ l.stage \notin {"KEY", "CALLER", "UNIT", "POOL"}
                  /\ l.stage = "LEDGER" => l.row.kind # "ledger"
                  /\ StageKind(l) /\ Guarded(l, M)
  /\ StageOnce(M)

\* A command is its executor, its middle and its inventory, if the middle has
\* the Event.
LEMMA AssembledShape ==
    ASSUME NEW k \in AtMostOne("key"), NEW p \in AtMostOne("partner"),
           NEW i \in SUBSET Stock, NEW ls \in SUBSET RowsOf("ledger"),
           NEW M, Middle(M), i # {} => \E g \in M : g.stage = "GATE"
    PROVE  LET S == Executor(k, p) \cup M \cup StockLocks(i, ls)
           IN  S \subseteq Lock /\ CommandShape(S)
  <1> DEFINE x == Executor(k, p)
             I == StockLocks(i, ls)
             S == x \cup M \cup I
  <1>1. /\ x \subseteq Lock
        /\ \A l \in x : l.stage \in {"KEY", "CALLER"} /\ StageKind(l)
        /\ \A l, m \in x : l.stage = m.stage => l = m
    BY ExecutorShape
  <1>2. /\ I \subseteq Lock
        /\ \A l \in I : l.stage \in {"UNIT", "POOL", "LEDGER"} /\ StageKind(l)
        /\ \A l \in I : l.stage = "LEDGER" =>
             /\ l.row.kind = "ledger"
             /\ \E g \in I : g.stage \in {"UNIT", "POOL"} /\ g.mode = "UPDATE" /\ g.row = GuardOf[l.row]
        /\ \A l, m \in I : l.stage = m.stage /\ l.row = m.row => l = m
        /\ I # {} => i # {}
    BY InventoryShape
  <1>3. /\ M \subseteq Lock
        /\ \A l \in M : /\ l.stage \notin {"KEY", "CALLER", "UNIT", "POOL"}
                        /\ l.stage = "LEDGER" => l.row.kind # "ledger"
                        /\ StageKind(l) /\ Guarded(l, M)
        /\ StageOnce(M)
    BY DEF Middle
  <1> HIDE DEF x, I
  <1>4. S \subseteq Lock
    BY <1>1, <1>2, <1>3
  <1>5. \A l \in S : StageKind(l)
    BY <1>1, <1>2, <1>3
  <1>6. \A l \in S : Guarded(l, S)
    <2>1. ASSUME NEW l \in x
          PROVE  Guarded(l, S)
      BY <1>1, <2>1 DEF Guarded
    <2>2. ASSUME NEW l \in M
          PROVE  Guarded(l, S)
      BY <1>3, <2>2 DEF Guarded
    <2>3. ASSUME NEW l \in I
          PROVE  Guarded(l, S)
      <3>1. \E g \in S : g.stage = "GATE"
        BY <2>3, <1>2
      <3>2. l.stage = "LEDGER" =>
              /\ l.row.kind = "ledger"
              /\ \E g \in S : /\ g.stage \in {"UNIT", "POOL"} /\ g.mode = "UPDATE"
                              /\ g.row = GuardOf[l.row]
        BY <1>2, <2>3
      <3> QED BY <3>1, <3>2 DEF Guarded
    <2> QED BY <2>1, <2>2, <2>3
  <1>7. StageOnce(S)
    <2> SUFFICES ASSUME NEW l \in S, NEW m \in S
                 PROVE  /\ l.stage = m.stage /\ (l.stage \in Single \/ l.row = m.row) => l = m
                        /\ l.stage = "RESTRICTION" /\ m.stage = "DESTINATION" => l.row # m.row
      BY DEF StageOnce
    <2>1. CASE l \in x
      BY <1>1, <1>2, <1>3, <2>1
    <2>2. CASE l \in I
      BY <1>1, <1>2, <1>3, <2>2 DEF Single
    <2>3. CASE l \in M
      BY <1>1, <1>2, <1>3, <2>3 DEF StageOnce, Single
    <2> QED BY <2>1, <2>2, <2>3
  <1> HIDE DEF S
  <1>8. S \subseteq Lock /\ CommandShape(S)
    BY <1>4, <1>5, <1>6, <1>7 DEF CommandShape
  <1> QED BY <1>8 DEF S, x, I

-----------------------------------------------------------------------------
\* What each command puts in the middle is of that shape.

\* The locks of one stage.
LEMMA MiddleTake ==
    ASSUME NEW s \in {"GATE", "AUTHORITY", "AGGREGATE", "RESTRICTION", "DESTINATION", "FACT"},
           NEW md \in {"KEY SHARE", "UPDATE"}, NEW R, R \subseteq LockRows,
           \A r \in R : StageKind([stage |-> s, row |-> r, mode |-> md]),
           s \in Single => \A q, r \in R : q = r
    PROVE  Middle(Take(s, md, R))
  <1> DEFINE T == Take(s, md, R)
  <1>1. /\ \A l \in T : l.stage = s /\ l.row \in R /\ l.mode = md
        /\ \A l, m \in T : l.row = m.row => l = m
    BY TakeIs
  <1>2. \A l \in T : l = [stage |-> s, row |-> l.row, mode |-> md]
    BY TakeIs
  <1>3. T \subseteq Lock
    BY TakeInLock, StagesAre
  <1> HIDE DEF T
  <1>4. \A l \in T : StageKind(l)
    BY <1>1, <1>2
  <1>5. StageOnce(T)
    BY <1>1 DEF StageOnce
  <1>6. \A l \in T : /\ l.stage \notin {"KEY", "CALLER", "UNIT", "POOL", "LEDGER"}
                    /\ Guarded(l, T)
    BY <1>1 DEF Guarded
  <1>7. Middle(T)
    BY <1>3, <1>4, <1>5, <1>6 DEF Middle
  <1> QED BY <1>7 DEF T

\* Stages together.
LEMMA MiddleUnion ==
    ASSUME NEW M, NEW N, Middle(M), Middle(N),
           \A l \in M, m \in N :
              /\ l.stage # m.stage
              /\ l.stage \in {"RESTRICTION", "DESTINATION"} /\ m.stage \in {"RESTRICTION", "DESTINATION"}
                   => l.row # m.row
    PROVE  Middle(M \cup N)
  <1>1. \A l \in M \cup N : Guarded(l, M \cup N)
    <2>1. ASSUME NEW l \in M PROVE Guarded(l, M \cup N)
      <3>1. Guarded(l, M)
        BY DEF Middle
      <3> QED BY <3>1 DEF Guarded
    <2>2. ASSUME NEW l \in N PROVE Guarded(l, M \cup N)
      <3>1. Guarded(l, N)
        BY DEF Middle
      <3> QED BY <3>1 DEF Guarded
    <2> QED BY <2>1, <2>2
  <1>2. StageOnce(M \cup N)
    <2>1. StageOnce(M) /\ StageOnce(N)
      BY DEF Middle
    <2> QED BY <2>1 DEF StageOnce
  <1>3. /\ M \cup N \subseteq Lock
        /\ \A l \in M \cup N : /\ l.stage \notin {"KEY", "CALLER", "UNIT", "POOL"}
                               /\ l.stage = "LEDGER" => l.row.kind # "ledger"
                               /\ StageKind(l)
    BY DEF Middle
  <1> QED BY <1>1, <1>2, <1>3 DEF Middle

\* The Event, in either mode.
LEMMA MiddleGate ==
    ASSUME NEW md \in {"KEY SHARE", "UPDATE"}
    PROVE  /\ Middle(Gate(md))
           /\ \A l \in Gate(md) : l.stage = "GATE"
           /\ \E g \in Gate(md) : g.stage = "GATE" /\ g.mode = md
  <1>1. PICK e \in LockRows : RowsOf("event") = {e}
    BY LocksAssumption
  <1>2. e.kind = "event"
    BY <1>1 DEF RowsOf
  <1>3. Gate(md) = Take("GATE", md, {e})
    BY <1>1 DEF Gate
  <1>4. Middle(Gate(md))
    <2>1. \A r \in {e} : StageKind([stage |-> "GATE", row |-> r, mode |-> md])
      BY <1>2 DEF StageKind
    <2>2. Middle(Take("GATE", md, {e}))
      BY <1>1, <2>1, MiddleTake
    <2> QED BY <1>3, <2>2
  <1>5. \A l \in Take("GATE", md, {e}) : l.stage = "GATE"
    BY TakeIs
  <1>6. [stage |-> "GATE", row |-> e, mode |-> md] \in Take("GATE", md, {e})
    BY TakeIs
  <1>7. [stage |-> "GATE", row |-> e, mode |-> md].stage = "GATE"
    OBVIOUS
  <1>8. [stage |-> "GATE", row |-> e, mode |-> md].mode = md
    OBVIOUS
  <1> QED BY <1>3, <1>4, <1>5, <1>6, <1>7, <1>8

\* The Event FOR KEY SHARE, and one more stage.
LEMMA MiddleWith ==
    ASSUME NEW M, Middle(M), \A l \in M : l.stage # "GATE"
    PROVE  /\ Middle(Gate("KEY SHARE") \cup M)
           /\ \E g \in Gate("KEY SHARE") \cup M : g.stage = "GATE"
  <1>1. /\ Middle(Gate("KEY SHARE"))
        /\ \A l \in Gate("KEY SHARE") : l.stage = "GATE"
        /\ \E g \in Gate("KEY SHARE") : g.stage = "GATE"
    BY MiddleGate
  <1>2. Middle(Gate("KEY SHARE") \cup M)
    BY <1>1, MiddleUnion
  <1> QED BY <1>1, <1>2

\* A Partner, Allocations, a destination, a Reservation.
LEMMA MiddlePartner ==
    ASSUME NEW s \in {"AUTHORITY", "FACT"}, NEW md \in {"KEY SHARE", "UPDATE"},
           NEW p \in SUBSET RowsOf("partner")
    PROVE  Middle(Take(s, md, p)) /\ \A l \in Take(s, md, p) : l.stage = s
  <1>1. p \subseteq LockRows /\ \A r \in p : r.kind = "partner"
    BY DEF RowsOf
  <1>2. \A r \in p : StageKind([stage |-> s, row |-> r, mode |-> md])
    BY <1>1 DEF StageKind
  <1>3. s \notin Single
    BY DEF Single
  <1>4. Middle(Take(s, md, p))
    BY <1>1, <1>2, <1>3, MiddleTake
  <1> QED BY <1>4, TakeIs

LEMMA MiddleRestrictions ==
    ASSUME NEW a \in SUBSET RowsOf("restriction")
    PROVE  /\ Middle(Take("RESTRICTION", "UPDATE", a))
           /\ \A l \in Take("RESTRICTION", "UPDATE", a) : l.stage = "RESTRICTION" /\ l.row \in a
  <1>1. a \subseteq LockRows /\ \A r \in a : r.kind = "restriction"
    BY DEF RowsOf
  <1>2. \A r \in a : StageKind([stage |-> "RESTRICTION", row |-> r, mode |-> "UPDATE"])
    BY <1>1 DEF StageKind
  <1>3. "RESTRICTION" \notin Single
    BY DEF Single
  <1> QED BY <1>1, <1>2, <1>3, MiddleTake, TakeIs

LEMMA MiddleDestination ==
    ASSUME NEW d \in SUBSET RowsOf("restriction"), \A q, r \in d : q = r
    PROVE  /\ Middle(Take("DESTINATION", "KEY SHARE", d))
           /\ \A l \in Take("DESTINATION", "KEY SHARE", d) : l.stage = "DESTINATION" /\ l.row \in d
  <1>1. d \subseteq LockRows /\ \A r \in d : r.kind = "restriction"
    BY DEF RowsOf
  <1>2. \A r \in d : StageKind([stage |-> "DESTINATION", row |-> r, mode |-> "KEY SHARE"])
    BY <1>1 DEF StageKind
  <1> QED BY <1>1, <1>2, MiddleTake, TakeIs

LEMMA MiddleReservation ==
    ASSUME NEW r \in RowsOf("reservation")
    PROVE  /\ Middle(Take("AGGREGATE", "UPDATE", {r}))
           /\ \A l \in Take("AGGREGATE", "UPDATE", {r}) : l.stage = "AGGREGATE"
  <1>1. {r} \subseteq LockRows /\ \A q \in {r} : q.kind = "reservation"
    BY DEF RowsOf
  <1>2. \A q \in {r} : StageKind([stage |-> "AGGREGATE", row |-> q, mode |-> "UPDATE"])
    BY <1>1 DEF StageKind
  <1> QED BY <1>1, <1>2, MiddleTake, TakeIs

\* Prices: seats and pools after the Event FOR UPDATE.
LEMMA MiddlePrices ==
    ASSUME NEW i \in SUBSET Stock
    PROVE  Middle(Gate("UPDATE") \cup Take("LEDGER", "UPDATE", i))
  <1> DEFINE G == Gate("UPDATE")
             T == Take("LEDGER", "UPDATE", i)
  <1>1. i \subseteq LockRows /\ \A r \in i : r.kind \in {"unit", "pool"}
    BY DEF RowsOf, Stock
  <1>2. /\ Middle(G)
        /\ \A l \in G : l.stage = "GATE"
        /\ \E g \in G : g.stage = "GATE" /\ g.mode = "UPDATE"
    BY MiddleGate
  <1>3. /\ \A l \in T : l.stage = "LEDGER" /\ l.row \in i
        /\ \A l, m \in T : l.row = m.row => l = m
    BY TakeIs
  <1>4. T \subseteq Lock
    BY <1>1, TakeInLock, StagesAre DEF T
  <1> HIDE DEF G, T
  <1>5. \A l \in T : l.row.kind # "ledger" /\ StageKind(l)
    BY <1>1, <1>3 DEF StageKind
  <1>6. \A l \in T : Guarded(l, G \cup T)
    BY <1>2, <1>3, <1>5 DEF Guarded
  <1>7. \A l \in G : Guarded(l, G \cup T)
    BY <1>2 DEF Guarded
  <1>8. StageOnce(G \cup T)
    <2>1. StageOnce(G)
      BY <1>2 DEF Middle
    <2> QED BY <2>1, <1>2, <1>3 DEF StageOnce, Single
  <1>9. /\ G \subseteq Lock
        /\ \A l \in G : StageKind(l)
    BY <1>2 DEF Middle
  <1>10. Middle(G \cup T)
    BY <1>2, <1>3, <1>4, <1>5, <1>6, <1>7, <1>8, <1>9 DEF Middle
  <1> QED BY <1>10 DEF G, T

-----------------------------------------------------------------------------
\* Beginning a command of that shape keeps the invariant.
LEMMA BeginKeeps ==
    ASSUME LocksInv, NEW t \in Transactions, NEW M, NEW i \in SUBSET Stock,
           Middle(M), i # {} => \E g \in M : g.stage = "GATE",
           BeginCommand(t, M, i)
    PROVE  LocksInv'
  <1>1. PICK k \in AtMostOne("key"), p \in AtMostOne("partner"), ls \in SUBSET RowsOf("ledger") :
          asks' = [asks EXCEPT ![t] = Executor(k, p) \cup M \cup StockLocks(i, ls)]
    BY DEF BeginCommand
  <1> DEFINE S == Executor(k, p) \cup M \cup StockLocks(i, ls)
  <1>2. S \subseteq Lock /\ CommandShape(S)
    BY AssembledShape
  <1> HIDE DEF S
  <1>3. /\ asks' = [asks EXCEPT ![t] = S] /\ holds' = holds
        /\ asks[t] = {} /\ holds[t] = {}
    BY <1>1 DEF BeginCommand, S
  <1>4. /\ asks \in [Transactions -> SUBSET Lock]
        /\ holds \in [Transactions -> SUBSET Lock]
    BY DEF LocksInv, LocksTypeOK
  <1>5. LocksTypeOK'
    BY <1>2, <1>3, <1>4 DEF LocksInv, LocksTypeOK
  <1>6. TakenInOrder'
    <2> SUFFICES ASSUME NEW u \in Transactions, NEW l \in asks'[u], NEW h \in holds'[u]
                 PROVE  ~Before(l, h)
      BY DEF TakenInOrder
    <2>1. u # t /\ l \in asks[u] /\ h \in holds[u]
      BY <1>3, <1>4
    <2> QED BY <2>1 DEF LocksInv, TakenInOrder
  <1>7. Compatible'
    BY <1>3 DEF LocksInv, Compatible
  <1>8. \A u \in Transactions : CommandShape(asks'[u] \cup holds'[u])
    <2> SUFFICES ASSUME NEW u \in Transactions
                 PROVE  CommandShape(asks'[u] \cup holds'[u])
      OBVIOUS
    <2>1. CASE u = t
      <3>1. asks'[u] \cup holds'[u] = S
        BY <1>3, <1>4, <2>1
      <3> QED BY <3>1, <1>2
    <2>2. CASE u # t
      <3>1. asks'[u] = asks[u] /\ holds'[u] = holds[u]
        BY <1>3, <1>4, <2>2
      <3> QED BY <3>1 DEF LocksInv
    <2> QED BY <2>1, <2>2
  <1> QED BY <1>5, <1>6, <1>7, <1>8 DEF LocksInv

\* Every command that begins keeps the invariant.
LEMMA CommandsKeep ==
    ASSUME LocksInv, NEW t \in Transactions,
           \/ LockForCreate(t) \/ LockForReservation(t) \/ LockForRestrict(t) \/ LockForReturn(t)
           \/ LockForReclassify(t) \/ LockForCapacity(t) \/ LockForEvent(t)
    PROVE  LocksInv'
  <1>1. CASE LockForCreate(t)
    <2>1. PICK p \in RowsOf("partner"), a \in SUBSET RowsOf("restriction"), i \in SUBSET Stock :
            BeginCommand(t, Gate("KEY SHARE") \cup Take("AUTHORITY", "UPDATE", {p})
                              \cup Take("RESTRICTION", "UPDATE", a), i)
      BY <1>1 DEF LockForCreate
    <2> DEFINE A == Take("AUTHORITY", "UPDATE", {p})
               B == Take("RESTRICTION", "UPDATE", a)
    <2>2. Middle(A) /\ \A l \in A : l.stage = "AUTHORITY"
      BY MiddlePartner
    <2>3. Middle(B) /\ \A l \in B : l.stage = "RESTRICTION"
      BY MiddleRestrictions
    <2> HIDE DEF A, B
    <2>4. Middle(A \cup B) /\ \A l \in A \cup B : l.stage # "GATE"
      BY <2>2, <2>3, MiddleUnion
    <2>5. BeginCommand(t, Gate("KEY SHARE") \cup (A \cup B), i)
      <3>1. Gate("KEY SHARE") \cup A \cup B = Gate("KEY SHARE") \cup (A \cup B)
        OBVIOUS
      <3> QED BY <2>1, <3>1 DEF A, B
    <2>6. /\ Middle(Gate("KEY SHARE") \cup (A \cup B))
          /\ \E g \in Gate("KEY SHARE") \cup (A \cup B) : g.stage = "GATE"
      BY <2>4, MiddleWith
    <2> QED BY <2>5, <2>6, BeginKeeps
  <1>2. CASE LockForReservation(t)
    <2>1. PICK r \in RowsOf("reservation"), a \in SUBSET RowsOf("restriction"),
               i \in SUBSET Stock, p \in AtMostOne("partner") :
            BeginCommand(t, Gate("KEY SHARE") \cup Take("AGGREGATE", "UPDATE", {r})
                              \cup Take("RESTRICTION", "UPDATE", a)
                              \cup Take("FACT", "KEY SHARE", p), i)
      BY <1>2 DEF LockForReservation
    <2> DEFINE A == Take("AGGREGATE", "UPDATE", {r})
               B == Take("RESTRICTION", "UPDATE", a)
               C == Take("FACT", "KEY SHARE", p)
    <2>2. Middle(A) /\ \A l \in A : l.stage = "AGGREGATE"
      BY MiddleReservation
    <2>3. Middle(B) /\ \A l \in B : l.stage = "RESTRICTION"
      BY MiddleRestrictions
    <2>4. p \in SUBSET RowsOf("partner")
      BY DEF AtMostOne
    <2>5. Middle(C) /\ \A l \in C : l.stage = "FACT"
      BY <2>4, MiddlePartner
    <2> HIDE DEF A, B, C
    <2>6. Middle(A \cup B) /\ \A l \in A \cup B : l.stage \in {"AGGREGATE", "RESTRICTION"}
      BY <2>2, <2>3, MiddleUnion
    <2>7. Middle(A \cup B \cup C) /\ \A l \in A \cup B \cup C : l.stage # "GATE"
      BY <2>5, <2>6, MiddleUnion
    <2>8. BeginCommand(t, Gate("KEY SHARE") \cup (A \cup B \cup C), i)
      <3>1. Gate("KEY SHARE") \cup A \cup B \cup C = Gate("KEY SHARE") \cup (A \cup B \cup C)
        OBVIOUS
      <3> QED BY <2>1, <3>1 DEF A, B, C
    <2>9. /\ Middle(Gate("KEY SHARE") \cup (A \cup B \cup C))
          /\ \E g \in Gate("KEY SHARE") \cup (A \cup B \cup C) : g.stage = "GATE"
      BY <2>7, MiddleWith
    <2> QED BY <2>8, <2>9, BeginKeeps
  <1>3. CASE LockForRestrict(t)
    <2>1. PICK p \in AtMostOne("partner"), d \in AtMostOne("restriction"), i \in SUBSET Stock :
            BeginCommand(t, Gate("KEY SHARE") \cup Take("AUTHORITY", "KEY SHARE", p)
                              \cup Take("DESTINATION", "KEY SHARE", d), i)
      BY <1>3 DEF LockForRestrict
    <2> DEFINE A == Take("AUTHORITY", "KEY SHARE", p)
               B == Take("DESTINATION", "KEY SHARE", d)
    <2>2. /\ p \in SUBSET RowsOf("partner")
          /\ d \in SUBSET RowsOf("restriction") /\ \A q, r \in d : q = r
      BY DEF AtMostOne
    <2>3. Middle(A) /\ \A l \in A : l.stage = "AUTHORITY"
      BY <2>2, MiddlePartner
    <2>4. Middle(B) /\ \A l \in B : l.stage = "DESTINATION"
      BY <2>2, MiddleDestination
    <2> HIDE DEF A, B
    <2>5. Middle(A \cup B) /\ \A l \in A \cup B : l.stage # "GATE"
      BY <2>3, <2>4, MiddleUnion
    <2>6. BeginCommand(t, Gate("KEY SHARE") \cup (A \cup B), i)
      <3>1. Gate("KEY SHARE") \cup A \cup B = Gate("KEY SHARE") \cup (A \cup B)
        OBVIOUS
      <3> QED BY <2>1, <3>1 DEF A, B
    <2>7. /\ Middle(Gate("KEY SHARE") \cup (A \cup B))
          /\ \E g \in Gate("KEY SHARE") \cup (A \cup B) : g.stage = "GATE"
      BY <2>5, MiddleWith
    <2> QED BY <2>6, <2>7, BeginKeeps
  <1>4. CASE LockForReturn(t)
    <2>1. PICK a \in RowsOf("restriction"), d \in AtMostOne("restriction"), i \in SUBSET Stock :
            BeginCommand(t, Gate("KEY SHARE") \cup Take("RESTRICTION", "UPDATE", {a})
                              \cup Take("DESTINATION", "KEY SHARE", d \ {a}), i)
      BY <1>4 DEF LockForReturn
    <2> DEFINE A == Take("RESTRICTION", "UPDATE", {a})
               B == Take("DESTINATION", "KEY SHARE", d \ {a})
    <2>2. /\ {a} \in SUBSET RowsOf("restriction")
          /\ d \ {a} \in SUBSET RowsOf("restriction") /\ \A q, r \in d \ {a} : q = r
      BY DEF AtMostOne
    <2>3. Middle(A) /\ \A l \in A : l.stage = "RESTRICTION" /\ l.row \in {a}
      BY <2>2, MiddleRestrictions
    <2>4. Middle(B) /\ \A l \in B : l.stage = "DESTINATION" /\ l.row \in d \ {a}
      BY <2>2, MiddleDestination
    <2> HIDE DEF A, B
    <2>5. Middle(A \cup B) /\ \A l \in A \cup B : l.stage # "GATE"
      BY <2>3, <2>4, MiddleUnion
    <2>6. BeginCommand(t, Gate("KEY SHARE") \cup (A \cup B), i)
      <3>1. Gate("KEY SHARE") \cup A \cup B = Gate("KEY SHARE") \cup (A \cup B)
        OBVIOUS
      <3> QED BY <2>1, <3>1 DEF A, B
    <2>7. /\ Middle(Gate("KEY SHARE") \cup (A \cup B))
          /\ \E g \in Gate("KEY SHARE") \cup (A \cup B) : g.stage = "GATE"
      BY <2>5, MiddleWith
    <2> QED BY <2>6, <2>7, BeginKeeps
  <1>5. CASE LockForReclassify(t)
    <2>1. PICK p \in AtMostOne("partner"), a \in RowsOf("restriction") :
            BeginCommand(t, Gate("KEY SHARE") \cup Take("AUTHORITY", "KEY SHARE", p)
                              \cup Take("RESTRICTION", "UPDATE", {a}), {})
      BY <1>5 DEF LockForReclassify
    <2> DEFINE A == Take("AUTHORITY", "KEY SHARE", p)
               B == Take("RESTRICTION", "UPDATE", {a})
    <2>2. p \in SUBSET RowsOf("partner") /\ {a} \in SUBSET RowsOf("restriction")
      BY DEF AtMostOne
    <2>3. Middle(A) /\ \A l \in A : l.stage = "AUTHORITY"
      BY <2>2, MiddlePartner
    <2>4. Middle(B) /\ \A l \in B : l.stage = "RESTRICTION"
      BY <2>2, MiddleRestrictions
    <2> HIDE DEF A, B
    <2>5. Middle(A \cup B) /\ \A l \in A \cup B : l.stage # "GATE"
      BY <2>3, <2>4, MiddleUnion
    <2>6. BeginCommand(t, Gate("KEY SHARE") \cup (A \cup B), {})
      <3>1. Gate("KEY SHARE") \cup A \cup B = Gate("KEY SHARE") \cup (A \cup B)
        OBVIOUS
      <3> QED BY <2>1, <3>1 DEF A, B
    <2>7. /\ Middle(Gate("KEY SHARE") \cup (A \cup B))
          /\ \E g \in Gate("KEY SHARE") \cup (A \cup B) : g.stage = "GATE"
      BY <2>5, MiddleWith
    <2>8. {} \in SUBSET Stock
      OBVIOUS
    <2> QED BY <2>6, <2>7, <2>8, BeginKeeps
  <1>6. CASE LockForCapacity(t)
    <2>1. PICK g \in RowsOf("pool") : BeginCommand(t, Gate("KEY SHARE"), {g})
      BY <1>6 DEF LockForCapacity
    <2>2. {g} \in SUBSET Stock
      BY DEF Stock
    <2> QED BY <2>1, <2>2, MiddleGate, BeginKeeps
  <1>7. CASE LockForEvent(t)
    <2>1. PICK i \in SUBSET Stock :
            BeginCommand(t, Gate("UPDATE") \cup Take("LEDGER", "UPDATE", i), {})
      BY <1>7 DEF LockForEvent
    <2> QED BY <2>1, MiddlePrices, BeginKeeps
  <1> QED BY <1>1, <1>2, <1>3, <1>4, <1>5, <1>6, <1>7

\* Taking a lock.
LEMMA TakeKeeps ==
    ASSUME LocksInv, NEW t \in Transactions, TakeLock(t)
    PROVE  LocksInv'
  <1>1. PICK l \in NextLocks(t) :
          /\ \A u \in Transactions : ~Stops(u, t, l)
          /\ asks' = [asks EXCEPT ![t] = @ \ {l}]
          /\ holds' = [holds EXCEPT ![t] = @ \cup {l}]
    BY DEF TakeLock
  <1>2. /\ asks \in [Transactions -> SUBSET Lock]
        /\ holds \in [Transactions -> SUBSET Lock]
        /\ \A u \in Transactions : asks[u] \cap holds[u] = {}
    BY DEF LocksInv, LocksTypeOK
  <1>3. l \in asks[t] /\ \A m \in asks[t] : ~Before(m, l)
    BY DEF NextLocks
  <1>4. /\ asks'[t] = asks[t] \ {l} /\ holds'[t] = holds[t] \cup {l}
        /\ \A u \in Transactions : u # t => asks'[u] = asks[u] /\ holds'[u] = holds[u]
    BY <1>1, <1>2
  <1>5. LocksTypeOK'
    <2>1. /\ asks' \in [Transactions -> SUBSET Lock]
          /\ holds' \in [Transactions -> SUBSET Lock]
      BY <1>1, <1>2, <1>3
    <2>2. \A u \in Transactions : asks'[u] \cap holds'[u] = {}
      BY <1>2, <1>4
    <2> QED BY <2>1, <2>2 DEF LocksTypeOK
  <1>6. TakenInOrder'
    <2> SUFFICES ASSUME NEW u \in Transactions, NEW m \in asks'[u], NEW h \in holds'[u]
                 PROVE  ~Before(m, h)
      BY DEF TakenInOrder
    <2>1. CASE u = t
      BY <2>1, <1>3, <1>4 DEF LocksInv, TakenInOrder
    <2>2. CASE u # t
      BY <2>2, <1>4 DEF LocksInv, TakenInOrder
    <2> QED BY <2>1, <2>2
  <1>7. Compatible'
    <2> SUFFICES ASSUME NEW u \in Transactions, NEW v \in Transactions, u # v,
                        NEW h \in holds'[u], NEW m \in holds'[v]
                 PROVE  ~Conflict(h, m)
      BY DEF Compatible
    <2>1. ASSUME NEW w \in Transactions, w # t, NEW n \in holds[w]
          PROVE  ~Conflict(l, n) /\ ~Conflict(n, l)
      BY <1>1, <2>1 DEF Stops, Conflict
    <2>2. CASE h \in holds[u] /\ m \in holds[v]
      BY <2>2 DEF LocksInv, Compatible
    <2>3. CASE u = t /\ h = l
      BY <2>3, <2>1, <1>4
    <2>4. CASE v = t /\ m = l
      BY <2>4, <2>1, <1>4
    <2> QED BY <2>2, <2>3, <2>4, <1>4
  <1>8. \A u \in Transactions : asks'[u] \cup holds'[u] = asks[u] \cup holds[u]
    BY <1>3, <1>4
  <1>9. \A u \in Transactions : CommandShape(asks'[u] \cup holds'[u])
    BY <1>8 DEF LocksInv
  <1> QED BY <1>5, <1>6, <1>7, <1>9 DEF LocksInv

\* Letting locks go: what is left is of the executor, or nothing.
LEMMA LeaveKeeps ==
    ASSUME LocksInv, NEW t \in Transactions, RefuseCommand(t) \/ EndCommand(t)
    PROVE  LocksInv'
  <1>1. PICK L \in SUBSET holds[t] :
          /\ holds' = [holds EXCEPT ![t] = L]
          /\ asks' = [asks EXCEPT ![t] = {}]
          /\ \A l \in L : l.stage \in {"KEY", "CALLER"}
    <2>1. CASE RefuseCommand(t)
      <3> DEFINE K == {l \in holds[t] : l.stage \in {"KEY", "CALLER"}}
      <3>1. /\ holds' = [holds EXCEPT ![t] = K]
            /\ asks' = [asks EXCEPT ![t] = {}]
        BY <2>1 DEF RefuseCommand
      <3>2. K \in SUBSET holds[t] /\ \A l \in K : l.stage \in {"KEY", "CALLER"}
        OBVIOUS
      <3> HIDE DEF K
      <3> QED BY <3>1, <3>2
    <2>2. CASE EndCommand(t)
      <3>1. {} \in SUBSET holds[t]
        OBVIOUS
      <3> QED BY <2>2, <3>1 DEF EndCommand
    <2> QED BY <2>1, <2>2
  <1>2. /\ asks \in [Transactions -> SUBSET Lock]
        /\ holds \in [Transactions -> SUBSET Lock]
    BY DEF LocksInv, LocksTypeOK
  <1>3. /\ asks'[t] = {} /\ holds'[t] = L /\ L \subseteq holds[t]
        /\ \A u \in Transactions : u # t => asks'[u] = asks[u] /\ holds'[u] = holds[u]
    BY <1>1, <1>2
  <1>4. LocksTypeOK'
    <2>1. L \subseteq Lock
      BY <1>2, <1>3
    <2>2. /\ asks' \in [Transactions -> SUBSET Lock]
          /\ holds' \in [Transactions -> SUBSET Lock]
      BY <1>1, <1>2, <2>1
    <2>3. \A u \in Transactions : asks'[u] \cap holds'[u] = {}
      BY <1>3 DEF LocksInv, LocksTypeOK
    <2> QED BY <2>2, <2>3 DEF LocksTypeOK
  <1>5. TakenInOrder'
    BY <1>3 DEF LocksInv, TakenInOrder
  <1>6. Compatible'
    <2>1. \A u \in Transactions : holds'[u] \subseteq holds[u]
      BY <1>3
    <2> QED BY <2>1 DEF LocksInv, Compatible
  <1>7. \A u \in Transactions : CommandShape(asks'[u] \cup holds'[u])
    <2> SUFFICES ASSUME NEW u \in Transactions
                 PROVE  CommandShape(asks'[u] \cup holds'[u])
      OBVIOUS
    <2>1. CASE u = t
      <3>1. asks'[u] \cup holds'[u] = L
        BY <1>3, <2>1
      <3>2. CommandShape(asks[t] \cup holds[t])
        BY DEF LocksInv
      <3>3. \A l \in L : StageKind(l) /\ Guarded(l, L)
        BY <1>1, <3>2 DEF CommandShape, Guarded
      <3>4. StageOnce(L)
        BY <1>3, <3>2 DEF CommandShape, StageOnce
      <3>5. CommandShape(L)
        BY <3>3, <3>4 DEF CommandShape
      <3> QED BY <3>1, <3>5
    <2>2. CASE u # t
      <3>1. asks'[u] = asks[u] /\ holds'[u] = holds[u]
        BY <1>3, <2>2
      <3> QED BY <3>1 DEF LocksInv
    <2> QED BY <2>1, <2>2
  <1> QED BY <1>4, <1>5, <1>6, <1>7 DEF LocksInv

(* The inductive invariant of locks: rows are taken in order, two commands  *)
(* hold no row in conflicting modes, and whoever asks for a row of the      *)
(* ledger has the seat, pool or Event it belongs to in its command too      *)
(* (inventory_locks.go, inventory_operations.go).                           *)
THEOREM LocksInvariant == LocksSpec => []LocksInv
  <1>1. LocksInit => LocksInv
    <2> SUFFICES ASSUME LocksInit
                 PROVE  LocksInv
      OBVIOUS
    <2>1. \A t \in Transactions : asks[t] = {} /\ holds[t] = {}
      BY DEF LocksInit
    <2>2. LocksTypeOK
      BY DEF LocksInit, LocksTypeOK
    <2>3. TakenInOrder /\ Compatible
      BY <2>1 DEF TakenInOrder, Compatible
    <2>4. \A t \in Transactions : CommandShape(asks[t] \cup holds[t])
      BY <2>1 DEF CommandShape, StageOnce
    <2> QED BY <2>2, <2>3, <2>4 DEF LocksInv
  <1>2. LocksInv /\ [LocksNext]_lockVars => LocksInv'
    <2> SUFFICES ASSUME LocksInv, [LocksNext]_lockVars
                 PROVE  LocksInv'
      OBVIOUS
    <2>1. CASE LocksNext
      <3>1. PICK t \in Transactions :
              \/ \/ LockForCreate(t) \/ LockForReservation(t) \/ LockForRestrict(t)
                 \/ LockForReturn(t) \/ LockForReclassify(t) \/ LockForCapacity(t)
                 \/ LockForEvent(t)
              \/ TakeLock(t)
              \/ RefuseCommand(t) \/ EndCommand(t)
        BY <2>1 DEF LocksNext
      <3> QED BY <3>1, CommandsKeep, TakeKeeps, LeaveKeeps
    <2>2. CASE UNCHANGED lockVars
      BY <2>2 DEF lockVars, LocksInv, LocksTypeOK, TakenInOrder, Compatible
    <2> QED BY <2>1, <2>2
  <1> QED BY <1>1, <1>2, PTL DEF LocksSpec

-----------------------------------------------------------------------------
(* The order of rows. *)

\* A set of numbers with something in it has a least number.
LEMMA SmallestNumber ==
    ASSUME NEW G, G \subseteq Nat, G # {}
    PROVE  \E n \in G : \A m \in G : n <= m
  <1>1. IsWellFoundedOn(OpToRel(<, Nat), Nat)
    BY NatLessThanWellFounded
  <1>2. PICK n \in G : \A m \in G : ~(<<m, n>> \in OpToRel(<, Nat))
    BY <1>1, WFMin
  <1>3. \A m \in G : ~(m < n)
    BY <1>2 DEF OpToRel
  <1> QED BY <1>3

\* The turns as numbers.
LEMMA TurnsAre ==
    /\ Turn["KEY"] = 1 /\ Turn["CALLER"] = 2 /\ Turn["GATE"] = 3 /\ Turn["AUTHORITY"] = 4
    /\ Turn["AGGREGATE"] = 5 /\ Turn["RESTRICTION"] = 6 /\ Turn["DESTINATION"] = 7
    /\ Turn["UNIT"] = 8 /\ Turn["POOL"] = 9 /\ Turn["LEDGER"] = 10 /\ Turn["FACT"] = 11
    /\ \A s \in DOMAIN Turn : Turn[s] \in Nat /\ Turn[s] <= 11
  <1>1. /\ Turn["KEY"] = 1 /\ Turn["CALLER"] = 2 /\ Turn["GATE"] = 3 /\ Turn["AUTHORITY"] = 4
        /\ Turn["AGGREGATE"] = 5 /\ Turn["RESTRICTION"] = 6 /\ Turn["DESTINATION"] = 7
        /\ Turn["UNIT"] = 8 /\ Turn["POOL"] = 9 /\ Turn["LEDGER"] = 10 /\ Turn["FACT"] = 11
    BY DEF Turn
  <1> QED BY <1>1, StagesAre

\* The row of a lock: its kind and id tell it.
LEMMA RowsAre ==
    /\ \A l \in Lock : /\ l.stage \in DOMAIN Turn /\ l.row \in LockRows
                       /\ l.mode \in {"KEY SHARE", "UPDATE"}
                       /\ l.row.id \in Nat /\ l.row.id <= MaxId
    /\ \A r, s \in LockRows : r.kind = s.kind /\ r.id = s.id => r = s
    /\ \A r, s \in LockRows : r.kind = "event" /\ s.kind = "event" => r = s
  <1>1. LockRows \subseteq [kind : Kinds, id : 0..MaxId]
    BY LocksAssumption
  <1>2. PICK e \in LockRows : RowsOf("event") = {e}
    BY LocksAssumption
  <1>3. \A r, s \in LockRows : r.kind = "event" /\ s.kind = "event" => r = s
    BY <1>2 DEF RowsOf
  <1>4. \A r, s \in LockRows : r.kind = s.kind /\ r.id = s.id => r = s
    BY <1>1
  <1>5. \A l \in Lock : /\ l.stage \in DOMAIN Turn /\ l.row \in LockRows
                        /\ l.mode \in {"KEY SHARE", "UPDATE"}
    BY DEF Lock
  <1>6. \A r \in LockRows : r.id \in Nat /\ r.id <= MaxId
    BY <1>1, LocksAssumption
  <1> QED BY <1>3, <1>4, <1>5, <1>6

\* What a lock stands on is held before it is asked for.
LEMMA Standing ==
    ASSUME LocksInv, NEW t \in Transactions, NEW l \in NextLocks(t) \cup holds[t]
    PROVE  Guarded(l, holds[t]) /\ StageKind(l) /\ l \in Lock
  <1>1. /\ asks[t] \subseteq Lock /\ holds[t] \subseteq Lock
        /\ \A m \in asks[t], h \in holds[t] : ~Before(m, h)
        /\ CommandShape(asks[t] \cup holds[t])
    BY DEF LocksInv, LocksTypeOK, TakenInOrder
  <1>2. l \in asks[t] \cup holds[t] /\ \A m \in asks[t] : ~Before(m, l)
    BY <1>1 DEF NextLocks
  <1>3. Guarded(l, asks[t] \cup holds[t]) /\ StageKind(l) /\ l \in Lock
    BY <1>1, <1>2 DEF CommandShape
  <1>4. ASSUME l.stage \in {"UNIT", "POOL", "LEDGER"}, NEW g \in asks[t] \cup holds[t],
               g.stage = "GATE"
        PROVE  g \in holds[t]
    BY <1>2, <1>4, TurnsAre DEF Before
  <1>5. ASSUME l.stage = "LEDGER", NEW g \in asks[t] \cup holds[t],
               g.stage \in {"UNIT", "POOL"}
        PROVE  g \in holds[t]
    BY <1>2, <1>5, TurnsAre DEF Before
  <1>6. l.stage \in {"UNIT", "POOL", "LEDGER"} => \E g \in holds[t] : g.stage = "GATE"
    BY <1>3, <1>4 DEF Guarded
  <1>7. l.stage = "LEDGER" /\ l.row.kind = "ledger" =>
          \E g \in holds[t] : /\ g.stage \in {"UNIT", "POOL"} /\ g.mode = "UPDATE"
                              /\ g.row = GuardOf[l.row]
    BY <1>3, <1>5 DEF Guarded
  <1>8. l.stage = "LEDGER" /\ l.row.kind # "ledger" =>
          \E g \in holds[t] : g.stage = "GATE" /\ g.mode = "UPDATE"
    BY <1>3, <1>4 DEF Guarded
  <1> QED BY <1>3, <1>6, <1>7, <1>8 DEF Guarded

\* Nobody waits for a row of the ledger: he would have waited for its seat,
\* pool or Event before.
LEMMA NoWaitAtTheLedger ==
    ASSUME LocksInv, NEW t \in Transactions, NEW u \in Transactions, t # u,
           NEW l \in NextLocks(t) \cup holds[t], NEW h \in NextLocks(u) \cup holds[u],
           l.row = h.row
    PROVE  l.stage # "LEDGER"
  <1> SUFFICES ASSUME l.stage = "LEDGER"
               PROVE  FALSE
    OBVIOUS
  <1>1. /\ Guarded(l, holds[t]) /\ StageKind(l)
        /\ Guarded(h, holds[u]) /\ StageKind(h) /\ h \in Lock
    BY Standing
  <1>2. \A g \in holds[t], m \in holds[u] : ~(g.row = m.row /\ g.mode = "UPDATE")
    BY DEF LocksInv, Compatible, Conflict
  <1>3. CASE l.row.kind = "ledger"
    <2>1. h.stage = "LEDGER"
      BY <1>1, <1>3, StagesAre, RowsAre DEF StageKind
    <2>2. PICK g \in holds[t] : g.mode = "UPDATE" /\ g.row = GuardOf[l.row]
      BY <1>1, <1>3 DEF Guarded
    <2>3. PICK m \in holds[u] : m.row = GuardOf[h.row]
      BY <1>1, <1>3, <2>1 DEF Guarded
    <2> QED BY <1>2, <2>2, <2>3
  <1>4. CASE l.row.kind # "ledger"
    <2>1. l.row.kind \in {"unit", "pool"}
      BY <1>1, <1>4 DEF StageKind
    <2>2. h.stage \in {"UNIT", "POOL", "LEDGER"}
      BY <1>1, <2>1, StagesAre, RowsAre DEF StageKind
    <2>3. PICK g \in holds[t] : g.stage = "GATE" /\ g.mode = "UPDATE"
      BY <1>1, <1>4 DEF Guarded
    <2>4. PICK m \in holds[u] : m.stage = "GATE"
      BY <1>1, <2>2 DEF Guarded
    <2>5. /\ g.row.kind = "event" /\ m.row.kind = "event"
          /\ g.row \in LockRows /\ m.row \in LockRows
      BY <2>3, <2>4, Standing, RowsAre DEF StageKind
    <2>6. g.row = m.row
      BY <2>5, RowsAre
    <2> QED BY <1>2, <2>3, <2>6
  <1> QED BY <1>3, <1>4

(* No wait for the ledger (inventory_locks.go, inventory_operations.go,     *)
(* commercial_policy.go): the rows of a seat and of a pool can be locked in *)
(* any order, because whoever holds or wants one has the seat, the pool or  *)
(* the Event.                                                               *)
THEOREM LedgerIsGuarded == LocksSpec => []LedgerIsNotAwaited
  <1>1. LocksInv => LedgerIsNotAwaited
    BY NoWaitAtTheLedger DEF LedgerIsNotAwaited, Stops, Conflict
  <1> QED BY <1>1, LocksInvariant, PTL

\* The place of a row in the one order: Allocations and destinations share it.
Level(l) == IF l.stage = "DESTINATION" THEN Turn["RESTRICTION"] ELSE Turn[l.stage]

\* What another transaction waits for comes after what it holds.
LEMMA WaitsGoUp ==
    ASSUME LocksInv, NEW t \in Transactions, NEW u \in Transactions, t # u,
           NEW l \in NextLocks(t), NEW h \in holds[u], l.row = h.row,
           l.row.kind # "partner",
           NEW x \in NextLocks(u), x.stage # "LEDGER", ~Backward(u, x)
    PROVE  \/ Level(l) < Level(x)
           \/ Level(l) = Level(x) /\ l.row.id < x.row.id
  <1>1. l.stage # "LEDGER" /\ h.stage # "LEDGER"
    BY NoWaitAtTheLedger
  <1>2. /\ StageKind(l) /\ StageKind(h) /\ StageKind(x)
        /\ l \in Lock /\ h \in Lock /\ x \in Lock
    BY Standing
  <1>3. /\ l.stage \in DOMAIN Turn /\ h.stage \in DOMAIN Turn /\ x.stage \in DOMAIN Turn
        /\ h.row \in LockRows /\ x.row \in LockRows
        /\ h.row.id \in Nat /\ x.row.id \in Nat
    BY <1>2, RowsAre
  <1>4. Level(l) = Level(h)
    BY <1>1, <1>2, <1>3, StagesAre, TurnsAre DEF StageKind, Level
  <1>5. x \in asks[u] /\ x # h /\ ~Before(x, h)
    BY DEF NextLocks, LocksInv, LocksTypeOK, TakenInOrder
  <1>6. /\ h.stage = x.stage /\ (h.stage \in Single \/ h.row = x.row) => h = x
        /\ h.stage = "RESTRICTION" /\ x.stage = "DESTINATION" => h.row # x.row
    <2>1. StageOnce(asks[u] \cup holds[u])
      BY DEF LocksInv, CommandShape
    <2> QED BY <1>5, <2>1 DEF StageOnce
  <1>7. Turn[h.stage] <= Turn[x.stage]
    BY <1>5, <1>3, StagesAre, TurnsAre DEF Before
  <1>8. CASE h.stage = x.stage
    <2>1. h.stage \in Sorted
      BY <1>1, <1>2, <1>3, <1>5, <1>6, <1>8, StagesAre DEF Single, Sorted, StageKind
    <2>2. ~(x.row.id < h.row.id)
      BY <1>5, <1>8, <2>1 DEF Before
    <2>3. h.row.kind = x.row.kind /\ h.row # x.row
      BY <1>2, <1>5, <1>6, <1>8, <2>1 DEF StageKind, Sorted
    <2>4. h.row.id # x.row.id
      BY <1>3, <2>3, RowsAre
    <2> QED BY <1>3, <1>4, <1>8, <2>2, <2>4 DEF Level
  <1>9. CASE h.stage = "RESTRICTION" /\ x.stage = "DESTINATION"
    <2>1. ~(x.row.id < h.row.id)
      BY <1>9 DEF Backward
    <2>2. h.row.kind = x.row.kind /\ h.row # x.row
      BY <1>2, <1>6, <1>9 DEF StageKind
    <2>3. h.row.id # x.row.id
      BY <1>3, <2>2, RowsAre
    <2> QED BY <1>3, <1>4, <1>9, <2>1, <2>3 DEF Level
  <1>10. CASE h.stage # x.stage /\ ~(h.stage = "RESTRICTION" /\ x.stage = "DESTINATION")
    <2>1. Level(h) < Level(x)
      BY <1>3, <1>7, <1>10, StagesAre, TurnsAre DEF Level
    <2> QED BY <1>4, <2>1
  <1> QED BY <1>8, <1>9, <1>10

\* Of finitely many values, one is the largest.
LEMMA Topmost ==
    ASSUME NEW E, E # {}, NEW f \in [E -> Nat], NEW B \in Nat, \A x \in E : f[x] <= B
    PROVE  \E x \in E : \A y \in E : f[y] <= f[x]
  <1> DEFINE G == {B - f[x] : x \in E}
  <1>1. \A x \in E : B - f[x] \in G /\ B - f[x] \in Nat /\ f[x] \in Nat
    OBVIOUS
  <1>2. G \subseteq Nat /\ G # {}
    BY <1>1
  <1>3. PICK n \in G : \A m \in G : n <= m
    BY <1>2, SmallestNumber
  <1>4. PICK x \in E : n = B - f[x]
    BY <1>3
  <1> HIDE DEF G
  <1>5. ASSUME NEW y \in E
        PROVE  f[y] <= f[x]
    <2>1. B - f[x] <= B - f[y]
      BY <1>1, <1>3, <1>4
    <2>2. f[x] \in Nat /\ f[y] \in Nat
      BY <1>1
    <2> QED BY <2>1, <2>2
  <1> QED BY <1>5

(* The waits of a circle would climb the order of rows for ever. *)
LEMMA NoCircle ==
    ASSUME LocksInv
    PROVE  OtherLocksHaveAnOrder
  <1> SUFFICES ASSUME NEW C \in SUBSET Transactions, C # {},
                      \A t \in C : \E u \in C : WaitsInOrder(t, u)
               PROVE  FALSE
    BY DEF OtherLocksHaveAnOrder
  <1> DEFINE Wanted(t, u, l) == /\ l \in NextLocks(t) /\ Stops(u, t, l)
                                /\ l.row.kind # "partner" /\ ~Backward(t, l)
             E == {l \in Lock : \E t \in C, u \in C : Wanted(t, u, l)}
  <1>1. ASSUME NEW t \in C
        PROVE  \E x \in E : x \in NextLocks(t) /\ \E v \in C : Wanted(t, v, x)
    <2>1. PICK u \in C : WaitsInOrder(t, u)
      OBVIOUS
    <2>2. PICK l \in NextLocks(t) : Wanted(t, u, l)
      BY <2>1 DEF WaitsInOrder
    <2>3. l \in Lock
      BY <2>2, Standing
    <2> QED BY <2>2, <2>3
  <1>2. ASSUME NEW l \in E
        PROVE  \E x \in E : \/ Level(l) < Level(x)
                            \/ Level(l) = Level(x) /\ l.row.id < x.row.id
    <2>1. PICK t \in C, u \in C : Wanted(t, u, l)
      OBVIOUS
    <2>2. PICK h \in holds[u] : Conflict(l, h)
      BY <2>1 DEF Stops
    <2>3. PICK x \in E : x \in NextLocks(u) /\ \E v \in C : Wanted(u, v, x)
      BY <1>1
    <2>4. PICK v \in C : Wanted(u, v, x)
      BY <2>3
    <2>5. PICK m \in holds[v] : Conflict(x, m) /\ v # u
      BY <2>4 DEF Stops
    <2>6. x.stage # "LEDGER"
      BY <2>4, <2>5, NoWaitAtTheLedger DEF Conflict
    <2>7. /\ l \in NextLocks(t) /\ l.row.kind # "partner" /\ t # u
          /\ ~Backward(u, x) /\ l.row = h.row
      BY <2>1, <2>2, <2>4 DEF Stops, Conflict
    <2> QED BY <2>3, <2>6, <2>7, WaitsGoUp
  <1>3. E # {} /\ E \subseteq Lock
    BY <1>1
  <1> HIDE DEF E
  <1> DEFINE f == [l \in E |-> Level(l)]
  <1>4. \A l \in E : Level(l) \in Nat /\ Level(l) <= 11
    <2>1. \A l \in E : l.stage \in DOMAIN Turn
      BY <1>3, RowsAre
    <2>2. Turn["RESTRICTION"] = 6
      BY TurnsAre
    <2>3. \A s \in DOMAIN Turn : Turn[s] \in Nat /\ Turn[s] <= 11
      BY TurnsAre
    <2> QED BY <2>1, <2>2, <2>3 DEF Level
  <1>5. PICK a \in E : \A l \in E : Level(l) <= Level(a)
    <2>1. f \in [E -> Nat] /\ \A l \in E : f[l] <= 11
      BY <1>4
    <2>2. \A l \in E : f[l] = Level(l)
      OBVIOUS
    <2> HIDE DEF f
    <2>3. \E x \in E : \A y \in E : f[y] <= f[x]
      BY <1>3, <2>1, Topmost
    <2> QED BY <2>2, <2>3
  <1> DEFINE A == {l \in E : Level(l) = Level(a)}
             g == [l \in A |-> l.row.id]
  <1>6. \A l \in A : l.row.id \in Nat /\ l.row.id <= MaxId
    BY <1>3, RowsAre
  <1>7. PICK b \in A : \A l \in A : l.row.id <= b.row.id
    <2>1. g \in [A -> Nat] /\ \A l \in A : g[l] <= MaxId
      BY <1>6
    <2>2. \A l \in A : g[l] = l.row.id
      OBVIOUS
    <2>3. A # {}
      BY <1>5
    <2>4. MaxId \in Nat
      BY LocksAssumption
    <2> HIDE DEF g, A
    <2>5. \E x \in A : \A y \in A : g[y] <= g[x]
      BY <2>1, <2>3, <2>4, Topmost
    <2> QED BY <2>2, <2>5
  <1>8. PICK x \in E : \/ Level(b) < Level(x)
                       \/ Level(b) = Level(x) /\ b.row.id < x.row.id
    <2>1. b \in E
      BY <1>7
    <2> HIDE DEF A
    <2> QED BY <1>2, <2>1
  <1>9. /\ Level(b) = Level(a) /\ Level(x) <= Level(a)
        /\ Level(a) \in Nat /\ Level(x) \in Nat
    BY <1>4, <1>5, <1>7, <1>8
  <1>10. x \in A /\ b.row.id < x.row.id
    BY <1>8, <1>9
  <1> QED BY <1>6, <1>7, <1>10

(* The inventory locks have one order (inventory_locks.go,                  *)
(* inventory_operations.go, service.go lockEventGate): no circle of waits   *)
(* stays within keys, Events, Reservations, Allocations, seats, pools and   *)
(* the ledger.                                                              *)
THEOREM LocksHaveAnOrder == LocksSpec => []OtherLocksHaveAnOrder
  BY LocksInvariant, NoCircle, PTL

===============================================================================
