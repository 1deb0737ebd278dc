--------------------------- MODULE OutboxDelivery ---------------------------
(***************************************************************************)
(* The way of a committed fact out of the system: the outbox, the           *)
(* dispatcher that fans a fact out into one delivery per subscribed webhook *)
(* endpoint, the delivery worker that claims a delivery under a lease,      *)
(* calls the endpoint and records the answer, and the Admin's operations on *)
(* endpoints.  A transaction is one step; a claim, the HTTP call and the    *)
(* recording of its answer are three, and anything can happen between them. *)
(*                                                                          *)
(* The loops of one worker process share one DeliveryWorker and therefore   *)
(* one leased_by (WorkerOf): between two of them only the attempt number    *)
(* tells a late answer from a current one.  Instants are not kept: a lease, *)
(* a backoff and a retiring secret run out in steps of their own.           *)
(***************************************************************************)
EXTENDS Integers, FiniteSets, Sequences

CONSTANTS
  Facts,        \* outbox_events.fact_id
  TypeOf,       \* the fact_type of each fact
  Owner,        \* the Partner of a fact's aggregate, or EventWide
  EventWide,    \* the owner of a fact whose aggregate is an Event
  Troubled,     \* the facts whose dispatch may fail any number of times
  Partners,
  Endpoints,    \* partner_webhook_endpoints.id
  PartnerOf,    \* the Partner of each endpoint
  Versions,     \* the key versions secrets are encrypted with
  Keyrings,     \* the sets of key versions a worker may be configured with
  Loops,        \* the goroutines that run the webhook job
  WorkerOf,     \* the worker process of each loop
  NoOne,        \* leased_by IS NULL
  MaxAttempts,  \* maxAttempts of NewDeliveryWorker
  MaxFaults     \* BOUND: faults of a behaviour

Workers    == { WorkerOf[l] : l \in Loops }
Types      == { TypeOf[f] : f \in Facts }
Deliveries == Endpoints \X Facts

ASSUME DeliveryAssumption ==
  /\ TypeOf \in [Facts -> Types] /\ Troubled \subseteq Facts
  /\ EventWide \notin Partners /\ Owner \in [Facts -> Partners \cup {EventWide}]
  /\ PartnerOf \in [Endpoints -> Partners]
  /\ WorkerOf \in [Loops -> Workers] /\ NoOne \notin Workers
  /\ Keyrings # {} /\ {} \notin Keyrings
  /\ MaxAttempts \in Nat \ {0} /\ MaxFaults \in Nat

VARIABLES
  outbox,     \* facts in enqueue_sequence order
  processed,  \* facts whose processed_at is set
  waiting,    \* facts whose next_attempt_at is in the future
  access,     \* Partners with ACTIVE access to the Event
  endpoint,   \* per endpoint: state and subscriptions
  secrets,    \* per endpoint: its signing secrets still in use
  keyring,    \* per worker: the key versions it was configured with
  delivery,   \* webhook_deliveries, by endpoint and fact
  attempts,   \* webhook_delivery_attempts: rows by delivery
  call,       \* per loop: the claimed delivery it is working on
  acked,      \* deliveries the endpoint has answered with 2xx
  faults      \* faults so far

queueVars    == <<outbox, processed, waiting>>
endpointVars == <<access, endpoint, secrets>>
workVars     == <<delivery, attempts, call, acked>>
vars         == <<queueVars, endpointVars, keyring, workVars, faults>>

SecretRow  == [version : Versions, state : {"ACTIVE", "RETIRING"}]
AttemptRow == [number : 1 .. MaxAttempts + MaxFaults, ok : BOOLEAN]
NoCall     == [busy |-> FALSE]
Answers    == {"NONE", "2XX", "FAILED"}

NoDelivery == [state |-> "ABSENT", attempt_count |-> 0, due |-> FALSE,
               leased_by |-> NoOne, leased |-> FALSE, error |-> "NONE"]

Init ==
  /\ outbox = <<>> /\ processed = {} /\ waiting = {}
  /\ access \in SUBSET Partners
  /\ endpoint = [e \in Endpoints |-> [state |-> "ABSENT", types |-> {}]]
  /\ secrets = [e \in Endpoints |-> {}]
  /\ keyring \in [Workers -> Keyrings]
  /\ delivery = [d \in Deliveries |-> NoDelivery]
  /\ attempts = [d \in Deliveries |-> {}]
  /\ call = [l \in Loops |-> NoCall]
  /\ acked = {} /\ faults = 0

Fault == faults < MaxFaults /\ faults' = faults + 1

-----------------------------------------------------------------------------
(* The outbox and its dispatcher.                                          *)

Queued == { outbox[i] : i \in DOMAIN outbox }

AppendFact(f) ==
  /\ f \notin Queued
  /\ outbox' = Append(outbox, f)
  /\ UNCHANGED <<processed, waiting, endpointVars, keyring, workVars, faults>>

\* Mutant: the backoff of the head is the backoff of the queue.
IsHead(f) ==
  \E i \in DOMAIN outbox :
    /\ outbox[i] = f
    /\ f \notin processed \cup waiting
    /\ \A j \in 1 .. i - 1 : outbox[j] \in processed

\* The oldest fact that is unprocessed and due.
IsNext(f) ==
  \E i \in DOMAIN outbox :
    /\ outbox[i] = f
    /\ f \notin processed \cup waiting
    /\ \A j \in 1 .. i - 1 : outbox[j] \in processed \cup waiting

EligiblePartners(f) == IF Owner[f] = EventWide THEN access ELSE {Owner[f]}

Subscribers(f) ==
  { e \in Endpoints : /\ PartnerOf[e] \in EligiblePartners(f)
                      /\ endpoint[e].state = "ACTIVE"
                      /\ TypeOf[f] \in endpoint[e].types }

\* One transaction: a PENDING delivery per subscriber that has none, and the
\* fact is processed.
Dispatch(f) ==
  /\ IsNext(f)
  /\ delivery' = [d \in Deliveries |->
       IF d[2] = f /\ d[1] \in Subscribers(f) /\ delivery[d].state = "ABSENT"
       THEN [NoDelivery EXCEPT !.state = "PENDING", !.due = TRUE]
       ELSE delivery[d]]
  /\ processed' = processed \cup {f}
  /\ UNCHANGED <<outbox, waiting, endpointVars, keyring, attempts, call, acked, faults>>

\* The fan-out rolls back; a second transaction schedules the retry.
DispatchFails(f) ==
  /\ IsNext(f)
  /\ IF f \in Troubled THEN UNCHANGED faults ELSE Fault
  /\ waiting' = waiting \cup {f}
  /\ UNCHANGED <<outbox, processed, endpointVars, keyring, workVars>>

\* next_attempt_at <= clock_timestamp()
FactComesDue(f) ==
  /\ f \in waiting
  /\ waiting' = waiting \ {f}
  /\ UNCHANGED <<outbox, processed, endpointVars, keyring, workVars, faults>>

-----------------------------------------------------------------------------
(* The Admin's operations on endpoints, and Event access.                  *)

SetAccess(p) ==
  /\ access' = (access \ {p}) \cup ({p} \ access)
  /\ UNCHANGED <<queueVars, endpoint, secrets, keyring, workVars, faults>>

CreateEndpoint(e, types, v) ==
  /\ endpoint[e].state = "ABSENT" /\ types # {}
  /\ endpoint' = [endpoint EXCEPT ![e] = [state |-> "ACTIVE", types |-> types]]
  /\ secrets' = [secrets EXCEPT ![e] = {[version |-> v, state |-> "ACTIVE"]}]
  /\ UNCHANGED <<queueVars, access, keyring, workVars, faults>>

\* The secret in use retires for 24 hours beside the new one.
RotateSecret(e, v) ==
  /\ endpoint[e].state # "ABSENT"
  /\ secrets' = [secrets EXCEPT ![e] =
       { [s EXCEPT !.state = "RETIRING"] : s \in secrets[e] }
         \cup {[version |-> v, state |-> "ACTIVE"]}]
  /\ UNCHANGED <<queueVars, access, endpoint, keyring, workVars, faults>>

\* valid_until > clock_timestamp() no longer holds.
SecretExpires(e, s) ==
  /\ s \in secrets[e] /\ s.state = "RETIRING"
  /\ secrets' = [secrets EXCEPT ![e] = secrets[e] \ {s}]
  /\ UNCHANGED <<queueVars, access, endpoint, keyring, workVars, faults>>

DisableEndpoint(e) ==
  /\ endpoint[e].state = "ACTIVE"
  /\ endpoint' = [endpoint EXCEPT ![e].state = "DISABLED"]
  /\ UNCHANGED <<queueVars, access, secrets, keyring, workVars, faults>>

ReplaceSubscriptions(e, types) ==
  /\ endpoint[e].state # "ABSENT" /\ types # {}
  /\ endpoint' = [endpoint EXCEPT ![e].types = types]
  /\ UNCHANGED <<queueVars, access, secrets, keyring, workVars, faults>>

-----------------------------------------------------------------------------
(* The delivery worker.                                                    *)

\* Mutant: the lease is not looked at.
ClaimableUnderLease(d) == delivery[d].state = "PENDING" /\ delivery[d].due

\* Mutant: a delivery once leased is its worker's for good.
ClaimableUnleased(d) ==
  /\ delivery[d].state = "PENDING" /\ delivery[d].due
  /\ delivery[d].leased_by = NoOne

Claimable(d) ==
  /\ delivery[d].state = "PENDING" /\ delivery[d].due
  /\ ~ delivery[d].leased

Usable(w, e) == { s.version : s \in secrets[e] } \subseteq keyring[w] /\ secrets[e] # {}

\* What claim makes of a delivery it cannot send.
Unsendable(w, d) ==
  endpoint[d[1]].state # "ACTIVE" \/ ~ Usable(w, d[1])

Settle(d) ==
  [delivery[d] EXCEPT
     !.state = IF endpoint[d[1]].state # "ACTIVE" THEN "CANCELLED" ELSE "DEAD_LETTER",
     !.error = IF endpoint[d[1]].state # "ACTIVE" THEN "DISABLED" ELSE "SECRET",
     !.due = FALSE, !.leased_by = NoOne, !.leased = FALSE]

Lease(w, d) ==
  [delivery[d] EXCEPT !.attempt_count = @ + 1, !.leased_by = w, !.leased = TRUE]

\* One transaction of claim: it settles the unsendable deliveries it meets and
\* leases the first sendable one, or ends with none (the rest being locked by
\* other claims, which it skips).
Claim(l) ==
  LET w == WorkerOf[l] IN
  /\ ~ call[l].busy
  /\ \E met \in SUBSET { d \in Deliveries : Claimable(d) /\ Unsendable(w, d) } :
       \/ \E d \in { c \in Deliveries : Claimable(c) /\ ~ Unsendable(w, c) } :
            /\ delivery' = [c \in Deliveries |->
                 IF c = d THEN Lease(w, c) ELSE IF c \in met THEN Settle(c) ELSE delivery[c]]
            /\ call' = [call EXCEPT ![l] =
                 [busy |-> TRUE, delivery |-> d, answer |-> "NONE",
                  attempt |-> delivery[d].attempt_count + 1]]
       \/ /\ met # {}
          /\ delivery' = [c \in Deliveries |-> IF c \in met THEN Settle(c) ELSE delivery[c]]
          /\ UNCHANGED call
  /\ UNCHANGED <<queueVars, endpointVars, keyring, attempts, acked, faults>>

\* The HTTP call ends: with a 2xx, with another answer or none, or with a 2xx
\* the worker did not receive in time.
Deliver(l) ==
  /\ call[l].busy /\ call[l].answer = "NONE"
  /\ \E answer \in {"2XX", "FAILED"}, heard \in BOOLEAN :
       /\ answer = "2XX" => heard
       /\ call' = [call EXCEPT ![l].answer = answer]
       /\ acked' = IF heard THEN acked \cup {call[l].delivery} ELSE acked
  /\ UNCHANGED <<queueVars, endpointVars, keyring, delivery, attempts, faults>>

\* Mutant: WHERE id AND state = 'PENDING' AND leased_by
FencedByWorker(l) ==
  LET d == delivery[call[l].delivery] IN
  d.state = "PENDING" /\ d.leased_by = WorkerOf[l]

\* WHERE id AND state = 'PENDING' AND leased_by AND attempt_count
Fenced(l) ==
  LET d == delivery[call[l].delivery] IN
  /\ d.state = "PENDING"
  /\ d.leased_by = WorkerOf[l]
  /\ d.attempt_count = call[l].attempt

\* The state an answer leaves a delivery in.
Outcome(l) ==
  CASE call[l].answer = "2XX"            -> "DELIVERED"
    [] call[l].answer = "FAILED" /\ call[l].attempt >= MaxAttempts -> "DEAD_LETTER"
    [] OTHER                             -> "PENDING"

\* One transaction: the attempt's row (kept if there is one), and the fenced
\* update that ends the lease.
Finish(l) ==
  LET d  == call[l].delivery
      ok == call[l].answer = "2XX"
  IN
  /\ call[l].busy /\ call[l].answer # "NONE"
  /\ attempts' = [attempts EXCEPT ![d] =
       IF \E r \in @ : r.number = call[l].attempt THEN @
       ELSE @ \cup {[number |-> call[l].attempt, ok |-> ok]}]
  /\ delivery' = IF ~ Fenced(l) THEN delivery ELSE
       [delivery EXCEPT ![d] =
          [state |-> Outcome(l), attempt_count |-> @.attempt_count, due |-> FALSE,
           leased_by |-> NoOne, leased |-> FALSE,
           error |-> IF ok THEN "NONE" ELSE "FAILED"]]
  /\ call' = [call EXCEPT ![l] = NoCall]
  /\ UNCHANGED <<queueVars, endpointVars, keyring, acked, faults>>

\* The transaction of finish fails for good, or its loop is cancelled.
LoseCall(l) ==
  /\ call[l].busy /\ Fault
  /\ call' = [call EXCEPT ![l] = NoCall]
  /\ UNCHANGED <<queueVars, endpointVars, keyring, delivery, attempts, acked>>

\* A worker process stops with its loops, and starts with the keys it is now
\* configured with.
Restart(w) ==
  /\ Fault
  /\ call' = [l \in Loops |-> IF WorkerOf[l] = w THEN NoCall ELSE call[l]]
  /\ \E keys \in Keyrings : keyring' = [keyring EXCEPT ![w] = keys]
  /\ UNCHANGED <<queueVars, endpointVars, delivery, attempts, acked>>

InProgress(d) ==
  \E l \in Loops : /\ call[l].busy /\ call[l].delivery = d
                   /\ call[l].attempt = delivery[d].attempt_count

\* lease_until < clock_timestamp().  The lease outlasts the request timeout by
\* five seconds, so that it ends under a call that still runs is a fault.
LeaseExpires(d) ==
  /\ delivery[d].leased
  /\ IF InProgress(d) THEN Fault ELSE UNCHANGED faults
  /\ delivery' = [delivery EXCEPT ![d].leased = FALSE]
  /\ UNCHANGED <<queueVars, endpointVars, keyring, attempts, call, acked>>

DeliveryComesDue(d) ==
  /\ delivery[d].state = "PENDING" /\ ~ delivery[d].due
  /\ delivery' = [delivery EXCEPT ![d].due = TRUE]
  /\ UNCHANGED <<queueVars, endpointVars, keyring, attempts, call, acked, faults>>

-----------------------------------------------------------------------------
Administer ==
  \/ \E p \in Partners : SetAccess(p)
  \/ \E e \in Endpoints :
       \/ \E types \in SUBSET Types, v \in Versions : CreateEndpoint(e, types, v)
       \/ \E v \in Versions : RotateSecret(e, v)
       \/ \E s \in SecretRow : SecretExpires(e, s)
       \/ DisableEndpoint(e)
       \/ \E types \in SUBSET Types : ReplaceSubscriptions(e, types)

Next ==
  \/ \E f \in Facts : AppendFact(f) \/ Dispatch(f) \/ DispatchFails(f) \/ FactComesDue(f)
  \/ Administer
  \/ \E l \in Loops : Claim(l) \/ Deliver(l) \/ Finish(l) \/ LoseCall(l)
  \/ \E w \in Workers : Restart(w)
  \/ \E d \in Deliveries : LeaseExpires(d) \/ DeliveryComesDue(d)

Spec == Init /\ [][Next]_vars

\* Both jobs run in loops that poll for ever, the HTTP client bounds every
\* call, and time passes.  The backoff of a fact that keeps failing grows past
\* the polling interval, so the facts behind it are again and again the next
\* and get their turn (strong fairness); nothing but an
\* attempt is owed to that fact itself.  Faults and the Admin's operations are
\* not owed.
Fairness ==
  /\ \A f \in Facts \ Troubled : SF_vars(Dispatch(f))
  /\ \A f \in Facts : WF_vars(Dispatch(f) \/ DispatchFails(f)) /\ WF_vars(FactComesDue(f))
  /\ \A l \in Loops : WF_vars(Claim(l)) /\ WF_vars(Deliver(l)) /\ WF_vars(Finish(l))
  /\ \A d \in Deliveries : /\ WF_vars(LeaseExpires(d) /\ ~ InProgress(d))
                           /\ WF_vars(DeliveryComesDue(d))

FairSpec == Spec /\ Fairness

-----------------------------------------------------------------------------
\* The delivery and the log of its attempts tell the same story, whatever
\* leases were lost and however late an answer came: a delivery is DELIVERED
\* exactly by its last attempt, whose row shows a 2xx the endpoint gave; it is
\* DEAD_LETTER for want of a secret, or because its last attempt failed and was
\* at least the last one allowed.
OutcomeAsLogged ==
  \A d \in Deliveries :
    LET last(ok) == [number |-> delivery[d].attempt_count, ok |-> ok] \in attempts[d] IN
    /\ delivery[d].state = "DELIVERED" => last(TRUE) /\ d \in acked
    /\ delivery[d].state = "DEAD_LETTER" /\ delivery[d].error # "SECRET"
         => last(FALSE) /\ delivery[d].attempt_count >= MaxAttempts

\* Retrying is bounded: beyond the configured maximum an attempt is started
\* only for a fault that took an earlier answer away, one for each.
AttemptsWithinBudget ==
  \A d \in Deliveries : delivery[d].attempt_count <= MaxAttempts + faults

\* A settled delivery stays as it is: no late answer, no second dispatch and no
\* claim revives or rewrites it.
SettledIsFinal ==
  [][\A d \in Deliveries :
       delivery[d].state \in {"DELIVERED", "DEAD_LETTER", "CANCELLED"}
         => delivery'[d] = delivery[d]]_vars

\* A lease that has not run out ends only by the loop that holds it: neither
\* another claim nor the late answer of an earlier attempt, even one of the
\* same worker, takes a delivery away from the call in progress.
LeaseIsNotStolen ==
  [][\A d \in Deliveries :
       delivery[d].leased /\ delivery[d] # delivery'[d]
         => \/ delivery'[d] = [delivery[d] EXCEPT !.leased = FALSE]
            \/ delivery'[d] = [delivery[d] EXCEPT !.due = TRUE]
            \/ \E l \in Loops : /\ call[l].busy /\ call[l].delivery = d
                                /\ call[l].attempt = delivery[d].attempt_count
                                /\ call'[l] = NoCall]_vars

\* Every delivery is settled in the end: a crashed worker, a lost answer or a
\* failing endpoint never leaves one PENDING for ever.
DeliveriesSettle ==
  \A d \in Deliveries : delivery[d].state = "PENDING" ~> delivery[d].state # "PENDING"

\* A fact that fails again and again at the head of the outbox does not hold up
\* the facts behind it.
FactsAreDispatched ==
  \A f \in Facts \ Troubled : f \in Queued ~> f \in processed
=============================================================================
