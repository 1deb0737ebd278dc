--------------------------- MODULE DeliveryProofs ---------------------------
(***************************************************************************)
(* Proofs about webhook deliveries, for any facts, endpoints, workers and    *)
(* bounds: the log agrees with the outcome, retrying is bounded, and what is *)
(* settled stays settled.                                                   *)
(***************************************************************************)
EXTENDS OutboxDelivery, TLAPS

States == {"ABSENT", "PENDING", "DELIVERED", "DEAD_LETTER", "CANCELLED"}

DeliveryRow == [state : States, attempt_count : Nat, due : BOOLEAN,
                leased_by : Workers \cup {NoOne}, leased : BOOLEAN,
                error : {"NONE", "DISABLED", "SECRET", "FAILED"}]

AnyCall == [busy : {TRUE}, delivery : Deliveries, attempt : Nat, answer : Answers]

\* The part of the types that the arguments below need.
DeliveryTypes ==
  /\ delivery \in [Deliveries -> DeliveryRow]
  /\ attempts \in [Deliveries -> SUBSET [number : Nat, ok : BOOLEAN]]
  /\ call \in [Loops -> {NoCall} \cup AnyCall]
  /\ faults \in Nat

\* A delivery that was never dispatched has no attempts.
AbsentIsBlank ==
  \A d \in Deliveries :
    delivery[d].state = "ABSENT" => delivery[d].attempt_count = 0 /\ attempts[d] = {}

\* Rows are written for attempts that were claimed.
RowsAreCounted ==
  \A d \in Deliveries : \A r \in attempts[d] : r.number <= delivery[d].attempt_count

\* What a loop works on was claimed by it, and has no row yet.
CallsAreClaimed ==
  \A l \in Loops : call[l].busy =>
    LET c == call[l] IN
    /\ delivery[c.delivery].state # "ABSENT"
    /\ c.attempt <= delivery[c.delivery].attempt_count
    /\ \A r \in attempts[c.delivery] : r.number # c.attempt
    /\ c.answer = "2XX" => c.delivery \in acked

\* No two loops work on one attempt.
CallsDiffer ==
  \A k, l \in Loops :
    /\ k # l /\ call[k].busy /\ call[l].busy
    /\ call[k].delivery = call[l].delivery
    => call[k].attempt # call[l].attempt

\* The last attempt of a PENDING delivery is made by the worker of its lease.
LastCallIsLeased ==
  \A l \in Loops :
    /\ call[l].busy
    /\ call[l].attempt = delivery[call[l].delivery].attempt_count
    /\ delivery[call[l].delivery].state = "PENDING"
    => delivery[call[l].delivery].leased_by = WorkerOf[l]

\* Unless a live lease covers an attempt in progress, a PENDING delivery has an
\* attempt to spare.
AttemptToSpare ==
  \A d \in Deliveries :
    delivery[d].state = "PENDING" /\ ~ (delivery[d].leased /\ InProgress(d))
      => delivery[d].attempt_count < MaxAttempts + faults

\* Only a PENDING delivery is leased.
LeasedIsPending ==
  \A d \in Deliveries : delivery[d].leased => delivery[d].state = "PENDING"

DeliveryInv ==
  /\ LeasedIsPending
  /\ DeliveryTypes /\ AbsentIsBlank /\ RowsAreCounted /\ CallsAreClaimed /\ CallsDiffer
  /\ LastCallIsLeased /\ AttemptToSpare /\ AttemptsWithinBudget /\ OutcomeAsLogged

-----------------------------------------------------------------------------
\* Nothing is dispatched before the first step.
LEMMA InitDelivery == Init => DeliveryInv
  BY DeliveryAssumption
  DEF Init, DeliveryInv, DeliveryTypes, DeliveryRow, States, NoDelivery, NoCall,
      AbsentIsBlank, RowsAreCounted, CallsAreClaimed, CallsDiffer, LastCallIsLeased,
      AttemptToSpare, AttemptsWithinBudget, OutcomeAsLogged, LeasedIsPending

\* A step that leaves deliveries, attempts, calls and answers alone keeps the
\* invariant, whether it is a fault (the dispatch of a fact failed) or not.
LEMMA QuietStep ==
  ASSUME DeliveryInv, UNCHANGED workVars, faults' = faults \/ Fault
  PROVE  DeliveryInv'
<1>1. faults' \in Nat /\ faults' >= faults
  BY DEF DeliveryInv, DeliveryTypes, Fault
<1>2. \A d \in Deliveries : InProgress(d)' = InProgress(d)
  BY DEF workVars, InProgress
<1>3. \A d \in Deliveries : delivery[d].attempt_count \in Nat
  BY DEF DeliveryInv, DeliveryTypes, DeliveryRow
<1>4. (DeliveryTypes /\ AbsentIsBlank /\ RowsAreCounted /\ CallsAreClaimed /\ CallsDiffer
        /\ LastCallIsLeased /\ OutcomeAsLogged /\ LeasedIsPending)'
  BY <1>1 DEF workVars, DeliveryInv, DeliveryTypes, AbsentIsBlank, RowsAreCounted,
      CallsAreClaimed, CallsDiffer, LastCallIsLeased, OutcomeAsLogged, LeasedIsPending
<1>5. AttemptToSpare' /\ AttemptsWithinBudget'
  BY <1>1, <1>2, <1>3, DeliveryAssumption
  DEF workVars, DeliveryInv, DeliveryTypes, AttemptToSpare, AttemptsWithinBudget
<1> QED
  BY <1>4, <1>5 DEF DeliveryInv

\* A busy loop works on a delivery, with an attempt number.
LEMMA BusyCall ==
  ASSUME DeliveryTypes, NEW l \in Loops, call[l].busy
  PROVE  call[l] \in AnyCall /\ call[l].delivery \in Deliveries /\ call[l].attempt \in Nat
<1>1. ~ NoCall.busy
  BY DEF NoCall
<1>2. call[l] # NoCall
  BY <1>1, Zenon
<1>3. call[l] \in AnyCall
  BY <1>2 DEF DeliveryTypes
<1> QED
  BY <1>3 DEF AnyCall

\* The dispatch of a fact only adds blank PENDING deliveries.
LEMMA DispatchStep ==
  ASSUME DeliveryInv, NEW f \in Facts, Dispatch(f)
  PROVE  DeliveryInv'
<1> DEFINE Blank == [NoDelivery EXCEPT !.state = "PENDING", !.due = TRUE]
           Fresh(d) == delivery[d].state = "ABSENT" /\ delivery'[d] = Blank
<1>1. UNCHANGED <<attempts, call, acked, faults>>
  BY DEF Dispatch
<1>2. \A d \in Deliveries : delivery'[d] = delivery[d] \/ Fresh(d)
  BY DEF Dispatch
<1>3. /\ Blank \in DeliveryRow /\ Blank.state = "PENDING" /\ Blank.attempt_count = 0
  BY DEF NoDelivery, DeliveryRow, States
<1>4. DeliveryTypes'
  <2>1. delivery' \in [Deliveries -> DeliveryRow]
    BY <1>3 DEF Dispatch, DeliveryInv, DeliveryTypes
  <2> QED
    BY <1>1, <2>1 DEF DeliveryInv, DeliveryTypes
<1>5. \A d \in Deliveries : Fresh(d) =>
        /\ delivery'[d].state = "PENDING" /\ delivery'[d].attempt_count = 0
        /\ delivery[d].attempt_count = 0
        /\ attempts[d] = {}
        /\ \A l \in Loops : call[l].busy => call[l].delivery # d
  BY <1>3 DEF DeliveryInv, AbsentIsBlank, CallsAreClaimed
<1> HIDE DEF Fresh, Blank
<1>6. \A d \in Deliveries : ~ Fresh(d) => InProgress(d)' = InProgress(d)
  BY <1>1, <1>2 DEF InProgress
<1>7. AbsentIsBlank' /\ RowsAreCounted' /\ OutcomeAsLogged' /\ LeasedIsPending'
  BY <1>1, <1>2, <1>5
  DEF DeliveryInv, AbsentIsBlank, RowsAreCounted, OutcomeAsLogged, LeasedIsPending
<1>8. \A l \in Loops : call[l].busy => /\ call[l].delivery \in Deliveries
                                       /\ delivery'[call[l].delivery] = delivery[call[l].delivery]
  BY <1>2, <1>5, BusyCall DEF DeliveryInv
<1>9. CallsAreClaimed' /\ CallsDiffer' /\ LastCallIsLeased'
  BY <1>1, <1>8 DEF DeliveryInv, CallsAreClaimed, CallsDiffer, LastCallIsLeased
<1>10. AttemptToSpare' /\ AttemptsWithinBudget'
  <2>1. faults \in Nat /\ MaxAttempts \in Nat \ {0}
    BY DeliveryAssumption DEF DeliveryInv, DeliveryTypes
  <2> QED
    BY <1>1, <1>2, <1>5, <1>6, <2>1 DEF DeliveryInv, AttemptToSpare, AttemptsWithinBudget
<1> QED
  BY <1>4, <1>7, <1>9, <1>10 DEF DeliveryInv

\* Settling without sending keeps the attempt count.
LEMMA SettledRow ==
  ASSUME DeliveryTypes, NEW d \in Deliveries
  PROVE  /\ Settle(d) \in DeliveryRow
         /\ Settle(d).state \in {"CANCELLED", "DEAD_LETTER"}
         /\ Settle(d).state = "DEAD_LETTER" => Settle(d).error = "SECRET"
         /\ Settle(d).attempt_count = delivery[d].attempt_count
         /\ Settle(d).leased = FALSE
<1>1. delivery[d] \in DeliveryRow
  BY DEF DeliveryTypes
<1> QED
  BY <1>1 DEF Settle, DeliveryRow, States

\* A lease counts an attempt.
LEMMA LeasedRow ==
  ASSUME DeliveryTypes, NEW d \in Deliveries, NEW w \in Workers
  PROVE  /\ Lease(w, d) \in DeliveryRow
         /\ Lease(w, d).state = delivery[d].state
         /\ Lease(w, d).attempt_count = delivery[d].attempt_count + 1
         /\ Lease(w, d).leased_by = w /\ Lease(w, d).leased
<1>1. delivery[d] \in DeliveryRow
  BY DEF DeliveryTypes
<1>2. Lease(w, d) \in DeliveryRow
  <2>1. delivery[d].attempt_count + 1 \in Nat /\ w \in Workers \cup {NoOne} /\ TRUE \in BOOLEAN
    BY <1>1 DEF DeliveryRow
  <2>2. \A n \in Nat, v \in Workers \cup {NoOne}, b \in BOOLEAN :
          [delivery[d] EXCEPT !.attempt_count = n, !.leased_by = v, !.leased = b] \in DeliveryRow
    BY <1>1 DEF DeliveryRow
  <2> QED
    BY <2>1, <2>2, Zenon DEF Lease
<1>3. /\ Lease(w, d).state = delivery[d].state
      /\ Lease(w, d).attempt_count = delivery[d].attempt_count + 1
      /\ Lease(w, d).leased_by = w
  BY <1>1 DEF Lease, DeliveryRow
<1>4. Lease(w, d).leased = TRUE
  BY <1>1 DEF Lease, DeliveryRow
<1> QED
  BY <1>2, <1>3, <1>4

\* A claim that only settles deliveries keeps the invariant.
LEMMA SettleStep ==
  ASSUME DeliveryInv, UNCHANGED <<attempts, call, acked, faults>>,
         NEW met \in SUBSET { d \in Deliveries : delivery[d].state = "PENDING" },
         delivery' = [c \in Deliveries |-> IF c \in met THEN Settle(c) ELSE delivery[c]]
  PROVE  DeliveryInv'
<1> USE DEF DeliveryInv
<1>1. \A d \in Deliveries \ met : delivery'[d] = delivery[d]
  OBVIOUS
<1>2. \A d \in met :
        /\ d \in Deliveries /\ delivery[d].state = "PENDING"
        /\ delivery'[d] \in DeliveryRow
        /\ delivery'[d].state \in {"CANCELLED", "DEAD_LETTER"}
        /\ delivery'[d].state = "DEAD_LETTER" => delivery'[d].error = "SECRET"
        /\ delivery'[d].attempt_count = delivery[d].attempt_count
        /\ delivery'[d].leased = FALSE
  BY SettledRow
<1>3. DeliveryTypes'
  BY <1>2 DEF DeliveryTypes
<1>4. \A d \in Deliveries : delivery'[d].attempt_count = delivery[d].attempt_count
  BY <1>1, <1>2
<1>5. \A l \in Loops : call[l].busy => call[l].delivery \in Deliveries
  BY BusyCall
<1>6. AbsentIsBlank' /\ RowsAreCounted' /\ OutcomeAsLogged' /\ LeasedIsPending'
  BY <1>1, <1>2, <1>4 DEF AbsentIsBlank, RowsAreCounted, OutcomeAsLogged, LeasedIsPending
<1>7. CallsAreClaimed' /\ CallsDiffer' /\ LastCallIsLeased'
  BY <1>1, <1>2, <1>4, <1>5 DEF CallsAreClaimed, CallsDiffer, LastCallIsLeased
<1>8. \A d \in Deliveries : InProgress(d)' = InProgress(d)
  BY <1>4 DEF InProgress
<1>9. AttemptToSpare' /\ AttemptsWithinBudget'
  BY <1>1, <1>2, <1>4, <1>8 DEF AttemptToSpare, AttemptsWithinBudget
<1> QED
  BY <1>3, <1>6, <1>7, <1>9

\* A claim that leases a delivery spends the attempt it has to spare, and the
\* attempt it starts is the only one with its number.
LEMMA LeaseStep ==
  ASSUME DeliveryInv, UNCHANGED <<attempts, acked, faults>>,
         NEW l \in Loops, ~ call[l].busy,
         NEW d \in Deliveries, Claimable(d),
         NEW met \in SUBSET { c \in Deliveries \ {d} : delivery[c].state = "PENDING" },
         delivery' = [c \in Deliveries |-> IF c = d THEN Lease(WorkerOf[l], c)
                        ELSE IF c \in met THEN Settle(c) ELSE delivery[c]],
         call' = [call EXCEPT ![l] = [busy |-> TRUE, delivery |-> d, answer |-> "NONE",
                                      attempt |-> delivery[d].attempt_count + 1]]
  PROVE  DeliveryInv'
<1> USE DEF DeliveryInv
<1>1. /\ delivery[d].attempt_count \in Nat /\ faults \in Nat /\ MaxAttempts \in Nat
      /\ WorkerOf[l] \in Workers
  BY DeliveryAssumption DEF DeliveryTypes, DeliveryRow, Workers
<1>2. /\ delivery[d].state = "PENDING" /\ ~ delivery[d].leased
      /\ delivery'[d] \in DeliveryRow
      /\ delivery'[d].state = "PENDING"
      /\ delivery'[d].attempt_count = delivery[d].attempt_count + 1
      /\ delivery'[d].leased_by = WorkerOf[l] /\ delivery'[d].leased
  BY <1>1, LeasedRow DEF Claimable, DeliveryTypes
<1>3. \A c \in Deliveries : c # d =>
        \/ delivery'[c] = delivery[c]
        \/ /\ delivery[c].state = "PENDING"
           /\ delivery'[c] \in DeliveryRow
           /\ delivery'[c].state \in {"CANCELLED", "DEAD_LETTER"}
           /\ delivery'[c].state = "DEAD_LETTER" => delivery'[c].error = "SECRET"
           /\ delivery'[c].attempt_count = delivery[c].attempt_count
           /\ delivery'[c].leased = FALSE
  BY SettledRow
<1>4. /\ call'[l].busy /\ call'[l].delivery = d /\ call'[l].answer = "NONE"
      /\ call'[l].attempt = delivery[d].attempt_count + 1
      /\ call'[l] \in AnyCall
  BY <1>1 DEF DeliveryTypes, AnyCall, Answers
<1>5. \A k \in Loops : k # l => call'[k] = call[k]
  BY DEF DeliveryTypes
<1>6. DeliveryTypes'
  <2>1. delivery' \in [Deliveries -> DeliveryRow]
    BY <1>2, <1>3 DEF DeliveryTypes
  <2>2. call' \in [Loops -> {NoCall} \cup AnyCall]
    BY <1>4 DEF DeliveryTypes
  <2> QED
    BY <2>1, <2>2 DEF DeliveryTypes
<1>7. \A k \in Loops : call[k].busy =>
        call[k].delivery \in Deliveries /\ call[k].attempt \in Nat
  BY BusyCall
<1>8. AbsentIsBlank' /\ OutcomeAsLogged' /\ LeasedIsPending'
  BY <1>2, <1>3 DEF AbsentIsBlank, OutcomeAsLogged, LeasedIsPending
<1>9. RowsAreCounted'
  BY <1>1, <1>2, <1>3 DEF RowsAreCounted, DeliveryTypes
<1>10. CallsAreClaimed'
  <2>1. \A r \in attempts[d] : r.number # delivery[d].attempt_count + 1
    BY <1>1 DEF RowsAreCounted, DeliveryTypes
  <2> QED
    BY <1>1, <1>2, <1>3, <1>4, <1>5, <1>7, <2>1 DEF CallsAreClaimed
<1>11. CallsDiffer'
  <2>1. \A k \in Loops : call[k].busy /\ call[k].delivery = d
           => call[k].attempt # delivery[d].attempt_count + 1
    BY <1>1, <1>7 DEF CallsAreClaimed
  <2> QED
    BY <1>4, <1>5, <2>1 DEF CallsDiffer
<1>12. LastCallIsLeased'
  <2>1. \A k \in Loops : call[k].busy /\ call[k].delivery = d
           => call[k].attempt # delivery[d].attempt_count + 1
    BY <1>1, <1>7 DEF CallsAreClaimed
  <2> QED
    BY SMTT(30), <1>2, <1>3, <1>4, <1>5, <1>7, <2>1 DEF LastCallIsLeased
<1>13. \A c \in Deliveries : c # d /\ InProgress(c) => InProgress(c)'
  BY <1>3, <1>5 DEF InProgress
<1>14. InProgress(d)'
  BY <1>2, <1>4 DEF InProgress
<1>15. delivery[d].attempt_count < MaxAttempts + faults
  BY <1>2 DEF AttemptToSpare
<1>16. AttemptToSpare' /\ AttemptsWithinBudget'
  BY <1>1, <1>2, <1>3, <1>13, <1>14, <1>15 DEF AttemptToSpare, AttemptsWithinBudget
<1> QED
  BY <1>6, <1>8, <1>9, <1>10, <1>11, <1>12, <1>16

\* Claim settles, or settles and leases.
LEMMA ClaimStep ==
  ASSUME DeliveryInv, NEW l \in Loops, Claim(l)
  PROVE  DeliveryInv'
<1>1. UNCHANGED <<attempts, acked, faults>> /\ ~ call[l].busy
  BY DEF Claim
<1>2. PICK met \in SUBSET { d \in Deliveries : Claimable(d) /\ Unsendable(WorkerOf[l], d) } :
        \/ \E d \in { c \in Deliveries : Claimable(c) /\ ~ Unsendable(WorkerOf[l], c) } :
             /\ delivery' = [c \in Deliveries |->
                  IF c = d THEN Lease(WorkerOf[l], c)
                  ELSE IF c \in met THEN Settle(c) ELSE delivery[c]]
             /\ call' = [call EXCEPT ![l] =
                  [busy |-> TRUE, delivery |-> d, answer |-> "NONE",
                   attempt |-> delivery[d].attempt_count + 1]]
        \/ /\ delivery' = [c \in Deliveries |-> IF c \in met THEN Settle(c) ELSE delivery[c]]
           /\ UNCHANGED call
  BY DEF Claim
<1>3. \A c \in met : c \in Deliveries /\ delivery[c].state = "PENDING" /\ Unsendable(WorkerOf[l], c)
  BY DEF Claimable
<1>4. CASE UNCHANGED call /\ delivery' =
             [c \in Deliveries |-> IF c \in met THEN Settle(c) ELSE delivery[c]]
  BY <1>1, <1>3, <1>4, SettleStep
<1>5. ASSUME NEW d \in Deliveries, Claimable(d), ~ Unsendable(WorkerOf[l], d),
             delivery' = [c \in Deliveries |->
               IF c = d THEN Lease(WorkerOf[l], c)
               ELSE IF c \in met THEN Settle(c) ELSE delivery[c]],
             call' = [call EXCEPT ![l] =
               [busy |-> TRUE, delivery |-> d, answer |-> "NONE",
                attempt |-> delivery[d].attempt_count + 1]]
      PROVE  DeliveryInv'
  <2>1. met \in SUBSET { c \in Deliveries \ {d} : delivery[c].state = "PENDING" }
    BY <1>3, <1>5
  <2> QED
    BY <1>1, <1>5, <2>1, LeaseStep
<1> QED
  BY <1>2, <1>4, <1>5

\* An answer is noted by the loop that waits for it.
LEMMA DeliverStep ==
  ASSUME DeliveryInv, NEW l \in Loops, Deliver(l)
  PROVE  DeliveryInv'
<1> USE DEF DeliveryInv
<1>1. UNCHANGED <<delivery, attempts, faults>>
  BY DEF Deliver
<1>2. call[l].busy /\ call[l] \in AnyCall
  BY BusyCall DEF Deliver
<1>3. PICK answer \in {"2XX", "FAILED"} :
        /\ call' = [call EXCEPT ![l].answer = answer]
        /\ acked \subseteq acked'
        /\ answer = "2XX" => call[l].delivery \in acked'
  BY DEF Deliver
<1>4. /\ call'[l].busy /\ call'[l].delivery = call[l].delivery
      /\ call'[l].attempt = call[l].attempt /\ call'[l].answer = answer
      /\ call'[l] \in AnyCall
  BY <1>2, <1>3 DEF DeliveryTypes, AnyCall, Answers
<1>5. \A k \in Loops : k # l => call'[k] = call[k]
  BY <1>3 DEF DeliveryTypes
<1>6. DeliveryTypes'
  BY <1>1, <1>3, <1>4 DEF DeliveryTypes
<1>7. \A d \in Deliveries : InProgress(d) => InProgress(d)'
  BY <1>1, <1>2, <1>4, <1>5 DEF InProgress
<1>8. (AbsentIsBlank /\ RowsAreCounted /\ AttemptsWithinBudget /\ OutcomeAsLogged
        /\ LeasedIsPending)'
  BY <1>1, <1>3
  DEF AbsentIsBlank, RowsAreCounted, AttemptsWithinBudget, OutcomeAsLogged, LeasedIsPending
<1>9. CallsAreClaimed' /\ CallsDiffer' /\ LastCallIsLeased'
  BY SMTT(30), <1>1, <1>2, <1>3, <1>4, <1>5 DEF CallsAreClaimed, CallsDiffer, LastCallIsLeased
<1>10. AttemptToSpare'
  BY <1>1, <1>7 DEF AttemptToSpare
<1> QED
  BY <1>6, <1>8, <1>9, <1>10

\* Calls that a fault takes away: every delivery has an attempt to spare again.
LEMMA LostCalls ==
  ASSUME DeliveryInv, UNCHANGED <<delivery, attempts, acked>>, Fault,
         NEW lost \in SUBSET Loops,
         call' = [l \in Loops |-> IF l \in lost THEN NoCall ELSE call[l]]
  PROVE  DeliveryInv'
<1> USE DEF DeliveryInv
<1>1. faults' = faults + 1 /\ faults \in Nat /\ MaxAttempts \in Nat
  BY DeliveryAssumption DEF Fault, DeliveryTypes
<1>2. ~ NoCall.busy
  BY DEF NoCall
<1>3. \A l \in Loops : call'[l].busy => call'[l] = call[l] /\ call[l].busy
  BY <1>2
<1>4. DeliveryTypes'
  BY <1>1 DEF DeliveryTypes
<1>5. AbsentIsBlank' /\ RowsAreCounted' /\ OutcomeAsLogged' /\ LeasedIsPending'
  BY DEF AbsentIsBlank, RowsAreCounted, OutcomeAsLogged, LeasedIsPending
<1>6. CallsAreClaimed' /\ CallsDiffer' /\ LastCallIsLeased'
  BY <1>3 DEF CallsAreClaimed, CallsDiffer, LastCallIsLeased
<1>7. \A d \in Deliveries : delivery[d].attempt_count \in Nat
  BY DEF DeliveryTypes, DeliveryRow
<1>8. AttemptToSpare' /\ AttemptsWithinBudget'
  BY <1>1, <1>7 DEF AttemptToSpare, AttemptsWithinBudget
<1> QED
  BY <1>4, <1>5, <1>6, <1>8

\* The row finish writes when its fence holds.
Finished(l) ==
  [state |-> Outcome(l), attempt_count |-> call[l].attempt, due |-> FALSE,
   leased_by |-> NoOne, leased |-> FALSE,
   error |-> IF call[l].answer = "2XX" THEN "NONE" ELSE "FAILED"]

\* What the outcome of an answer is.
LEMMA OutcomeCases ==
  ASSUME NEW l \in Loops, call[l].answer \in {"2XX", "FAILED"}, call[l].attempt \in Nat
  PROVE  /\ Outcome(l) \in {"DELIVERED", "DEAD_LETTER", "PENDING"}
         /\ Outcome(l) = "DELIVERED" => call[l].answer = "2XX"
         /\ Outcome(l) = "DEAD_LETTER" => call[l].answer = "FAILED" /\ call[l].attempt >= MaxAttempts
         /\ Outcome(l) = "PENDING" => call[l].attempt < MaxAttempts
<1>1. MaxAttempts \in Nat
  BY DeliveryAssumption
<1>2. CASE call[l].answer = "2XX"
  BY <1>2 DEF Outcome
<1>3. CASE call[l].answer = "FAILED" /\ call[l].attempt >= MaxAttempts
  BY <1>3 DEF Outcome
<1>4. CASE call[l].answer = "FAILED" /\ call[l].attempt < MaxAttempts
  BY <1>1, <1>4 DEF Outcome
<1> QED
  BY <1>1, <1>2, <1>3, <1>4

\* The answer is logged, and settles or reschedules the delivery if the loop
\* still holds it.
LEMMA FinishStep ==
  ASSUME DeliveryInv, NEW l \in Loops, Finish(l)
  PROVE  DeliveryInv'
<1> USE DEF DeliveryInv
<1> DEFINE d  == call[l].delivery
           n  == call[l].attempt
           ok == call[l].answer = "2XX"
<1>1. call[l].busy /\ call[l].answer \in {"2XX", "FAILED"} /\ UNCHANGED <<acked, faults>>
      /\ d \in Deliveries /\ n \in Nat
  BY BusyCall DEF Finish, AnyCall, Answers
<1>2. /\ faults \in Nat /\ MaxAttempts \in Nat \ {0} /\ NoOne \in Workers \cup {NoOne}
      /\ delivery[d] \in DeliveryRow /\ delivery[d].attempt_count \in Nat
  BY <1>1, DeliveryAssumption DEF DeliveryTypes, DeliveryRow
<1>3. attempts' = [attempts EXCEPT ![d] = @ \cup {[number |-> n, ok |-> ok]}]
  BY <1>1 DEF Finish, CallsAreClaimed
<1>4. /\ \A c \in Deliveries : c # d => attempts'[c] = attempts[c]
      /\ attempts'[d] = attempts[d] \cup {[number |-> n, ok |-> ok]}
  BY <1>1, <1>3 DEF DeliveryTypes
<1>5. call' = [call EXCEPT ![l] = NoCall]
  BY DEF Finish
<1>6. \A k \in Loops : call'[k].busy => k # l /\ call'[k] = call[k] /\ call[k].busy
  BY <1>5 DEF NoCall, DeliveryTypes
<1>7. DeliveryTypes' /\ (IF Fenced(l) THEN delivery' = [delivery EXCEPT ![d] = Finished(l)]
                        ELSE delivery' = delivery)
  <2>1. Fenced(l) => delivery[d].attempt_count = n
    BY DEF Fenced
  <2>2. IF Fenced(l) THEN delivery' = [delivery EXCEPT ![d] = Finished(l)]
        ELSE delivery' = delivery
    BY <1>1, <2>1 DEF Finish, Finished, DeliveryTypes
  <2>3. Finished(l) \in DeliveryRow
    BY <1>1, OutcomeCases DEF Finished, DeliveryRow, States
  <2>4. delivery' \in [Deliveries -> DeliveryRow]
    BY <2>2, <2>3 DEF DeliveryTypes
  <2>5. [number |-> n, ok |-> ok] \in [number : Nat, ok : BOOLEAN]
    BY <1>1
  <2>6. attempts' \in [Deliveries -> SUBSET [number : Nat, ok : BOOLEAN]]
    BY <1>3, <2>5 DEF DeliveryTypes
  <2>7. call' \in [Loops -> {NoCall} \cup AnyCall]
    BY <1>5 DEF DeliveryTypes
  <2> QED
    BY <1>1, <2>2, <2>4, <2>6, <2>7 DEF DeliveryTypes
<1>8. /\ \A c \in Deliveries : c # d => delivery'[c] = delivery[c]
      /\ Fenced(l) => /\ delivery'[d].state = Outcome(l) /\ delivery'[d].attempt_count = n
                      /\ delivery'[d].leased = FALSE /\ delivery'[d].error # "SECRET"
                      /\ delivery[d].attempt_count = n
      /\ ~ Fenced(l) => delivery'[d] = delivery[d]
  BY <1>1, <1>7 DEF DeliveryTypes, Finished, Fenced
<1>9. /\ delivery[d].state # "ABSENT" /\ n <= delivery[d].attempt_count
      /\ ok => d \in acked
  BY <1>1 DEF CallsAreClaimed
<1>10. /\ Outcome(l) \in {"DELIVERED", "DEAD_LETTER", "PENDING"}
       /\ Outcome(l) = "DELIVERED" => ok
       /\ Outcome(l) = "DEAD_LETTER" => ~ ok /\ n >= MaxAttempts
       /\ Outcome(l) = "PENDING" => n < MaxAttempts
  BY <1>1, OutcomeCases
<1>11. \A c \in Deliveries : delivery'[c].attempt_count = delivery[c].attempt_count
  BY <1>8
<1>12. \A k \in Loops : call'[k].busy => call[k].delivery \in Deliveries
  BY <1>6, BusyCall
<1>13. \A k \in Loops : call'[k].busy /\ call[k].delivery = d => call[k].attempt # n
  BY <1>1, <1>6 DEF CallsDiffer
<1>14. delivery'[d].state # "ABSENT"
  BY <1>8, <1>9, <1>10
<1>15. AbsentIsBlank' /\ LeasedIsPending'
  BY <1>4, <1>8, <1>14 DEF AbsentIsBlank, LeasedIsPending
<1>16. RowsAreCounted'
  BY <1>4, <1>9, <1>11 DEF RowsAreCounted
<1>17. CallsAreClaimed' /\ CallsDiffer'
  <2>1. CallsDiffer'
    BY <1>6 DEF CallsDiffer
  <2>2. ASSUME NEW k \in Loops, call'[k].busy
        PROVE  /\ delivery'[call'[k].delivery].state # "ABSENT"
               /\ call'[k].attempt <= delivery'[call'[k].delivery].attempt_count
               /\ \A r \in attempts'[call'[k].delivery] : r.number # call'[k].attempt
               /\ call'[k].answer = "2XX" => call'[k].delivery \in acked'
    BY <1>1, <1>4, <1>6, <1>8, <1>11, <1>12, <1>13, <1>14, <2>2 DEF CallsAreClaimed
  <2> QED
    BY <2>1, <2>2 DEF CallsAreClaimed
<1>18. LastCallIsLeased'
  BY <1>6, <1>8, <1>11, <1>12, <1>13 DEF LastCallIsLeased
<1>19. AttemptsWithinBudget'
  BY <1>1, <1>11 DEF AttemptsWithinBudget
<1>20. AttemptToSpare'
  <2> SUFFICES ASSUME NEW c \in Deliveries, delivery'[c].state = "PENDING",
                      ~ (delivery'[c].leased /\ InProgress(c)')
               PROVE  delivery'[c].attempt_count < MaxAttempts + faults'
    BY DEF AttemptToSpare
  <2>1. CASE c = d /\ Fenced(l)
    BY <1>1, <1>2, <1>8, <1>10, <2>1
  <2>2. CASE ~ (c = d /\ Fenced(l))
    <3>1. delivery'[c] = delivery[c]
      BY <1>8, <2>2
    <3>2. \A k \in Loops : k # l => call'[k] = call[k]
      BY <1>5 DEF DeliveryTypes
    <3>3. c = d => delivery[c].attempt_count # n
      BY <1>1, <2>2, <3>1 DEF Fenced, LastCallIsLeased
    <3>4. InProgress(c) => InProgress(c)'
      BY <3>1, <3>2, <3>3 DEF InProgress
    <3> QED
      BY <1>1, <3>1, <3>4 DEF AttemptToSpare
  <2> QED
    BY <2>1, <2>2
<1>21. OutcomeAsLogged'
  <2> DEFINE last(c, good) ==
               [number |-> delivery[c].attempt_count, ok |-> good] \in attempts[c]
             settled(c) ==
               /\ delivery[c].state = "DELIVERED" => last(c, TRUE) /\ c \in acked
               /\ delivery[c].state = "DEAD_LETTER" /\ delivery[c].error # "SECRET"
                    => last(c, FALSE) /\ delivery[c].attempt_count >= MaxAttempts
  <2>1. \A c \in Deliveries : settled(c)
    BY DEF OutcomeAsLogged
  <2> SUFFICES ASSUME NEW c \in Deliveries
               PROVE  settled(c)'
    BY DEF OutcomeAsLogged
  <2>2. settled(c) /\ acked' = acked /\ attempts[c] \subseteq attempts'[c]
    <3>1. acked' = acked
      BY <1>1
    <3>2. attempts[c] \subseteq attempts'[c]
      BY <1>4
    <3> QED
      BY <2>1, <3>1, <3>2
  <2>3. CASE c # d \/ ~ Fenced(l)
    <3>1. delivery'[c] = delivery[c]
      BY <1>8, <2>3
    <3> QED
      BY <2>2, <3>1
  <2>4. CASE c = d /\ Fenced(l)
    <3>1. /\ delivery'[c].state = Outcome(l) /\ delivery'[c].attempt_count = n
          /\ [number |-> n, ok |-> ok] \in attempts'[c]
      BY <1>4, <1>8, <2>4
    <3>2. ASSUME Outcome(l) = "DELIVERED"
          PROVE  last(c, TRUE)' /\ c \in acked'
      <4>1. ok = TRUE /\ c \in acked'
        BY <1>9, <1>10, <2>2, <2>4, <3>2
      <4>2. [number |-> n, ok |-> TRUE] \in attempts'[c]
        BY <3>1, <4>1
      <4> QED
        BY <3>1, <4>1, <4>2
    <3>3. ASSUME Outcome(l) = "DEAD_LETTER"
          PROVE  last(c, FALSE)' /\ delivery'[c].attempt_count >= MaxAttempts
      <4>1. ok = FALSE /\ n >= MaxAttempts
        BY <1>10, <3>3
      <4>2. [number |-> n, ok |-> FALSE] \in attempts'[c]
        BY <3>1, <4>1
      <4> QED
        BY <3>1, <4>1, <4>2
    <3> HIDE DEF last
    <3> QED
      BY <3>1, <3>2, <3>3
  <2> QED
    BY <2>3, <2>4
<1> QED
  BY <1>7, <1>15, <1>16, <1>17, <1>18, <1>19, <1>20, <1>21

\* A lease that runs out under its call is a fault, which the budget counts.
LEMMA LeaseExpiresStep ==
  ASSUME DeliveryInv, NEW d \in Deliveries, LeaseExpires(d)
  PROVE  DeliveryInv'
<1> USE DEF DeliveryInv
<1>1. UNCHANGED <<attempts, call, acked>> /\ delivery[d].leased
  BY DEF LeaseExpires
<1>2. /\ faults \in Nat /\ faults' \in Nat /\ faults' >= faults
      /\ InProgress(d) => faults' = faults + 1
      /\ MaxAttempts \in Nat
  BY DeliveryAssumption DEF LeaseExpires, Fault, DeliveryTypes
<1>3. /\ delivery'[d].state = delivery[d].state
      /\ delivery'[d].attempt_count = delivery[d].attempt_count
      /\ delivery'[d].leased_by = delivery[d].leased_by
      /\ delivery'[d].error = delivery[d].error
      /\ delivery'[d].leased = FALSE
      /\ delivery' \in [Deliveries -> DeliveryRow]
      /\ \A c \in Deliveries : c # d => delivery'[c] = delivery[c]
  BY DEF LeaseExpires, DeliveryTypes, DeliveryRow
<1>4. DeliveryTypes'
  BY <1>1, <1>2, <1>3 DEF DeliveryTypes
<1>5. \A c \in Deliveries : /\ delivery[c].attempt_count \in Nat
                            /\ InProgress(c)' = InProgress(c)
  BY <1>1, <1>3 DEF DeliveryTypes, DeliveryRow, InProgress
<1>6. \A l \in Loops : call[l].busy => call[l].delivery \in Deliveries
  BY BusyCall
<1>7. (AbsentIsBlank /\ RowsAreCounted /\ OutcomeAsLogged /\ LeasedIsPending)'
  BY <1>1, <1>3 DEF AbsentIsBlank, RowsAreCounted, OutcomeAsLogged, LeasedIsPending
<1>8. CallsAreClaimed' /\ CallsDiffer' /\ LastCallIsLeased'
  BY <1>1, <1>3, <1>6 DEF CallsAreClaimed, CallsDiffer, LastCallIsLeased
<1>9. AttemptsWithinBudget'
  BY <1>2, <1>3, <1>5 DEF AttemptsWithinBudget
<1>10. AttemptToSpare'
  BY <1>2, <1>3, <1>5 DEF AttemptToSpare, AttemptsWithinBudget
<1> QED
  BY <1>4, <1>7, <1>8, <1>9, <1>10

\* A backoff that runs out changes nothing the invariant speaks of.
LEMMA ComesDueStep ==
  ASSUME DeliveryInv, NEW d \in Deliveries, DeliveryComesDue(d)
  PROVE  DeliveryInv'
<1> USE DEF DeliveryInv
<1>1. UNCHANGED <<attempts, call, acked, faults>>
  BY DEF DeliveryComesDue
<1>2. /\ delivery'[d].state = delivery[d].state
      /\ delivery'[d].attempt_count = delivery[d].attempt_count
      /\ delivery'[d].leased_by = delivery[d].leased_by
      /\ delivery'[d].error = delivery[d].error
      /\ delivery'[d].leased = delivery[d].leased
      /\ delivery' \in [Deliveries -> DeliveryRow]
      /\ \A c \in Deliveries : c # d => delivery'[c] = delivery[c]
  BY DEF DeliveryComesDue, DeliveryTypes, DeliveryRow
<1>3. DeliveryTypes'
  BY <1>1, <1>2 DEF DeliveryTypes
<1>4. \A c \in Deliveries : InProgress(c)' = InProgress(c)
  BY <1>1, <1>2 DEF InProgress
<1>5. \A l \in Loops : call[l].busy => call[l].delivery \in Deliveries
  BY BusyCall
<1>6. (AbsentIsBlank /\ RowsAreCounted /\ OutcomeAsLogged /\ LeasedIsPending)'
  BY <1>1, <1>2 DEF AbsentIsBlank, RowsAreCounted, OutcomeAsLogged, LeasedIsPending
<1>7. CallsAreClaimed' /\ CallsDiffer' /\ LastCallIsLeased'
  BY <1>1, <1>2, <1>5 DEF CallsAreClaimed, CallsDiffer, LastCallIsLeased
<1>8. AttemptToSpare' /\ AttemptsWithinBudget'
  BY <1>1, <1>2, <1>4 DEF AttemptToSpare, AttemptsWithinBudget
<1> QED
  BY <1>3, <1>6, <1>7, <1>8

\* Every step keeps the invariant.
LEMMA NextDelivery == DeliveryInv /\ [Next]_vars => DeliveryInv'
<1> SUFFICES ASSUME DeliveryInv, [Next]_vars
             PROVE  DeliveryInv'
  OBVIOUS
<1>1. ASSUME NEW f \in Facts, AppendFact(f) \/ DispatchFails(f) \/ FactComesDue(f)
      PROVE  DeliveryInv'
  <2>1. UNCHANGED workVars /\ (faults' = faults \/ Fault)
    BY <1>1 DEF AppendFact, DispatchFails, FactComesDue
  <2> QED
    BY <2>1, QuietStep
<1>2. ASSUME NEW f \in Facts, Dispatch(f)
      PROVE  DeliveryInv'
  BY <1>2, DispatchStep
<1>3. CASE Administer
  <2>1. UNCHANGED workVars /\ faults' = faults
    BY <1>3 DEF Administer, SetAccess, CreateEndpoint, RotateSecret, SecretExpires,
        DisableEndpoint, ReplaceSubscriptions
  <2> QED
    BY <2>1, QuietStep
<1>4. ASSUME NEW l \in Loops, Claim(l)
      PROVE  DeliveryInv'
  BY <1>4, ClaimStep
<1>5. ASSUME NEW l \in Loops, Deliver(l)
      PROVE  DeliveryInv'
  BY <1>5, DeliverStep
<1>6. ASSUME NEW l \in Loops, Finish(l)
      PROVE  DeliveryInv'
  BY <1>6, FinishStep
<1>7. ASSUME NEW l \in Loops, LoseCall(l)
      PROVE  DeliveryInv'
  <2>1. call' = [k \in Loops |-> IF k \in {l} THEN NoCall ELSE call[k]]
    BY <1>7 DEF LoseCall, DeliveryInv, DeliveryTypes
  <2>2. UNCHANGED <<delivery, attempts, acked>> /\ Fault
    BY <1>7 DEF LoseCall
  <2> QED
    BY <2>1, <2>2, LostCalls
<1>8. ASSUME NEW w \in Workers, Restart(w)
      PROVE  DeliveryInv'
  <2> DEFINE lost == { k \in Loops : WorkerOf[k] = w }
  <2>1. call' = [k \in Loops |-> IF k \in lost THEN NoCall ELSE call[k]]
    BY <1>8 DEF Restart
  <2>2. UNCHANGED <<delivery, attempts, acked>> /\ Fault
    BY <1>8 DEF Restart
  <2>3. lost \in SUBSET Loops
    OBVIOUS
  <2> HIDE DEF lost
  <2> QED
    BY <2>1, <2>2, <2>3, LostCalls
<1>9. ASSUME NEW d \in Deliveries, LeaseExpires(d)
      PROVE  DeliveryInv'
  BY <1>9, LeaseExpiresStep
<1>10. ASSUME NEW d \in Deliveries, DeliveryComesDue(d)
       PROVE  DeliveryInv'
  BY <1>10, ComesDueStep
<1>11. CASE UNCHANGED vars
  <2>1. UNCHANGED workVars /\ faults' = faults
    BY <1>11 DEF vars, workVars
  <2> QED
    BY <2>1, QuietStep
<1> QED
  BY <1>1, <1>2, <1>3, <1>4, <1>5, <1>6, <1>7, <1>8, <1>9, <1>10, <1>11 DEF Next

\* The inductive invariant holds of every behaviour, fair or not.
THEOREM DeliveryInvariant == Spec => []DeliveryInv
  BY InitDelivery, NextDelivery, PTL DEF Spec

\* A delivery is DELIVERED exactly by its last attempt, and DEAD_LETTER only
\* without a usable secret or after its last allowed attempt failed, for any
\* number of loops and workers and any loss of leases.
THEOREM OutcomeIsLogged == Spec => []OutcomeAsLogged
<1>1. DeliveryInv => OutcomeAsLogged
  BY DEF DeliveryInv
<1> QED
  BY <1>1, DeliveryInvariant, PTL

\* No delivery is attempted more than maxAttempts times, plus once per fault.
THEOREM RetryingIsBounded == Spec => []AttemptsWithinBudget
<1>1. DeliveryInv => AttemptsWithinBudget
  BY DEF DeliveryInv
<1> QED
  BY <1>1, DeliveryInvariant, PTL

-----------------------------------------------------------------------------
\* Only a PENDING delivery, or one that does not exist yet, changes.
LEMMA OnlyOpenDeliveriesChange ==
  ASSUME DeliveryInv, [Next]_vars, NEW d \in Deliveries,
         delivery[d].state \in {"DELIVERED", "DEAD_LETTER", "CANCELLED"}
  PROVE  delivery'[d] = delivery[d]
<1>1. ~ delivery[d].leased /\ delivery[d].state # "PENDING" /\ delivery[d].state # "ABSENT"
  BY DEF DeliveryInv, LeasedIsPending
<1>2. ASSUME NEW f \in Facts, Dispatch(f)
      PROVE  delivery'[d] = delivery[d]
  BY <1>1, <1>2 DEF Dispatch
<1>3. ASSUME NEW l \in Loops, Claim(l)
      PROVE  delivery'[d] = delivery[d]
  BY <1>1, <1>3 DEF Claim, Claimable
<1>4. ASSUME NEW l \in Loops, Finish(l)
      PROVE  delivery'[d] = delivery[d]
  <2>1. Fenced(l) => call[l].delivery # d
    BY <1>1 DEF Fenced
  <2> QED
    BY <1>4, <2>1 DEF Finish, DeliveryInv, DeliveryTypes
<1>5. ASSUME NEW c \in Deliveries, LeaseExpires(c) \/ DeliveryComesDue(c)
      PROVE  delivery'[d] = delivery[d]
  BY <1>1, <1>5 DEF LeaseExpires, DeliveryComesDue, DeliveryInv, DeliveryTypes
<1>6. CASE Administer
  BY <1>6 DEF Administer, SetAccess, CreateEndpoint, RotateSecret, SecretExpires,
      DisableEndpoint, ReplaceSubscriptions, workVars
<1>7. ASSUME NEW f \in Facts, AppendFact(f) \/ DispatchFails(f) \/ FactComesDue(f)
      PROVE  delivery'[d] = delivery[d]
  BY <1>7 DEF AppendFact, DispatchFails, FactComesDue, workVars
<1>8. ASSUME NEW l \in Loops, Deliver(l) \/ LoseCall(l)
      PROVE  delivery'[d] = delivery[d]
  BY <1>8 DEF Deliver, LoseCall
<1>9. ASSUME NEW w \in Workers, Restart(w)
      PROVE  delivery'[d] = delivery[d]
  BY <1>9 DEF Restart
<1>10. CASE UNCHANGED vars
  BY <1>10 DEF vars, workVars
<1> QED
  BY <1>2, <1>3, <1>4, <1>5, <1>6, <1>7, <1>8, <1>9, <1>10 DEF Next

\* What is settled stays settled: no late answer, dispatch or claim touches it.
THEOREM SettledStays == Spec => SettledIsFinal
<1>1. DeliveryInv /\ [Next]_vars =>
        [\A d \in Deliveries :
           delivery[d].state \in {"DELIVERED", "DEAD_LETTER", "CANCELLED"}
             => delivery'[d] = delivery[d]]_vars
  BY OnlyOpenDeliveriesChange
<1> QED
  BY <1>1, DeliveryInvariant, PTL DEF Spec, SettledIsFinal

\* How the row of a leased delivery can change.
LeaseEndsByHolder(d) ==
  \/ delivery'[d] = [delivery[d] EXCEPT !.leased = FALSE]
  \/ delivery'[d] = [delivery[d] EXCEPT !.due = TRUE]
  \/ \E l \in Loops : /\ call[l].busy /\ call[l].delivery = d
                      /\ call[l].attempt = delivery[d].attempt_count
                      /\ call'[l] = NoCall

\* A leased delivery is out of reach of claims, and its attempt number keeps out
\* every call but the last.
LEMMA LeasedDeliveriesAreHeld ==
  ASSUME DeliveryInv, [Next]_vars, NEW d \in Deliveries,
         delivery[d].leased, delivery[d] # delivery'[d]
  PROVE  LeaseEndsByHolder(d)
<1>1. delivery[d].state = "PENDING"
  BY DEF DeliveryInv, LeasedIsPending
<1>2. ASSUME NEW f \in Facts, Dispatch(f)
      PROVE  FALSE
  BY <1>1, <1>2 DEF Dispatch
<1>3. ASSUME NEW l \in Loops, Claim(l)
      PROVE  FALSE
  BY <1>3 DEF Claim, Claimable
<1>4. ASSUME NEW l \in Loops, Finish(l)
      PROVE  LeaseEndsByHolder(d)
  <2>1. Fenced(l) /\ call[l].delivery = d
    BY <1>4 DEF Finish, DeliveryInv, DeliveryTypes
  <2>2. call[l].busy /\ call'[l] = NoCall
    BY <1>4 DEF Finish, DeliveryInv, DeliveryTypes
  <2> QED
    BY <2>1, <2>2 DEF Fenced, LeaseEndsByHolder
<1>5. ASSUME NEW c \in Deliveries, LeaseExpires(c) \/ DeliveryComesDue(c)
      PROVE  LeaseEndsByHolder(d)
  <2>1. c = d
    BY <1>5 DEF LeaseExpires, DeliveryComesDue, DeliveryInv, DeliveryTypes
  <2> QED
    BY <1>5, <2>1 DEF LeaseExpires, DeliveryComesDue, LeaseEndsByHolder, DeliveryInv, DeliveryTypes
<1>6. CASE Administer
  BY <1>6 DEF Administer, SetAccess, CreateEndpoint, RotateSecret, SecretExpires,
      DisableEndpoint, ReplaceSubscriptions, workVars
<1>7. ASSUME NEW f \in Facts, AppendFact(f) \/ DispatchFails(f) \/ FactComesDue(f)
      PROVE  FALSE
  BY <1>7 DEF AppendFact, DispatchFails, FactComesDue, workVars
<1>8. ASSUME NEW l \in Loops, Deliver(l) \/ LoseCall(l)
      PROVE  FALSE
  BY <1>8 DEF Deliver, LoseCall
<1>9. ASSUME NEW w \in Workers, Restart(w)
      PROVE  FALSE
  BY <1>9 DEF Restart
<1>10. CASE UNCHANGED vars
  BY <1>10 DEF vars, workVars
<1> QED
  BY <1>2, <1>3, <1>4, <1>5, <1>6, <1>7, <1>8, <1>9, <1>10 DEF Next

\* A lease that has not run out ends only by the loop that holds it, however
\* many loops share its worker's id.
THEOREM LeasesHold == Spec => LeaseIsNotStolen
<1>1. DeliveryInv /\ [Next]_vars =>
        [\A d \in Deliveries :
           delivery[d].leased /\ delivery[d] # delivery'[d]
             => \/ delivery'[d] = [delivery[d] EXCEPT !.leased = FALSE]
                \/ delivery'[d] = [delivery[d] EXCEPT !.due = TRUE]
                \/ \E l \in Loops : /\ call[l].busy /\ call[l].delivery = d
                                    /\ call[l].attempt = delivery[d].attempt_count
                                    /\ call'[l] = NoCall]_vars
  BY LeasedDeliveriesAreHeld DEF LeaseEndsByHolder
<1> QED
  BY <1>1, DeliveryInvariant, PTL DEF Spec, LeaseIsNotStolen
=============================================================================
