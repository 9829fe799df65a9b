---------------------------- MODULE DbJobsProofs ----------------------------
(***************************************************************************)
(* Proofs about the durable job queue, for every set of rows, pollers and  *)
(* workers, every kind, budget and key, and every delay.                   *)
(***************************************************************************)
EXTENDS DbJobs, TLAPS

---------------------------------------------------------------------------
(* What the helpers return *)

\* The retry delay is a time span, whatever the power in it comes to.
LEMMA RetryDelayType == \A attempts : retryDelay(attempts) \in Nat
  BY ConstantsAssumption DEF ConstantsAssumption, retryDelay

\* A claim leaves a row.
LEMMA ClaimedRowType ==
  ASSUME TypeOK, NEW j \in Job
  PROVE  ClaimedRow(j) \in Row
<1>1. jobs[j] \in Row /\ now \in Nat /\ NoKey \in Key \cup {NoKey}
  BY DEF TypeOK
<1>2. jobs[j].attempts \in Nat /\ jobs[j].key \in Key \cup {NoKey}
  BY <1>1 DEF Row
<1> DEFINE attempts == IF RetryUntilSuccess(j) /\ jobs[j].attempts >= IntMax
                       THEN IntMax ELSE jobs[j].attempts + 1
           key == IF jobs[j].status = "failed" /\ RetryUntilSuccess(j)
                  THEN NoKey ELSE jobs[j].key
<1>3. attempts \in Nat /\ key \in Key \cup {NoKey}
  BY <1>1, <1>2, ConstantsAssumption DEF ConstantsAssumption
<1>4. ClaimedRow(j) = [jobs[j] EXCEPT !.status = "running", !.claimedAt = now,
                                      !.attempts = attempts, !.key = key]
  BY DEF ClaimedRow
<1> HIDE DEF attempts, key
<1>. QED BY <1>1, <1>3, <1>4 DEF Row, Status

\* A claim hands out a claim record.
LEMMA ClaimByType ==
  ASSUME TypeOK, NEW r \in Runner, NEW j \in Job, NEW delivery \in Int
  PROVE  ClaimBy(r, j, delivery) \in Claim
  BY ClaimedRowType DEF TypeOK, Row, Claim, ClaimBy

\* A fenced update writes the row given or nothing.
LEMMA FencedUpdateType ==
  ASSUME TypeOK, NEW c \in claims, NEW row \in Row, FencedUpdate(c, row)
  PROVE  jobs' \in [Job -> Row]
  BY DEF TypeOK, Claim, FencedUpdate

\* Adding a delivery keeps deliveries well formed.
LEMMA DeliveriesType ==
  ASSUME TypeOK, NEW j \in Job, NEW attempt \in Nat
  PROVE  Deliveries(j, attempt) \subseteq Delivery
  BY DEF TypeOK, Delivery, Deliveries

\* The fields of a claim.
LEMMA ClaimFields ==
  ASSUME TypeOK, NEW c \in claims
  PROVE  /\ c \in Claim /\ c.job \in Job /\ c.runner \in Runner
         /\ c.attempts \in Nat /\ c.claimedAt \in Nat /\ c.epoch \in Nat
         /\ c.delivery \in Int
         /\ c.phase \in {"handling", "hook", "redeliver"}
         /\ jobs[c.job] \in Row
         /\ epoch[c.job] \in Nat
  BY DEF TypeOK, Claim

\* The executions left when one ends or goes on are executions.
LEMMA EndsType ==
  ASSUME TypeOK, NEW c \in claims, Ends(c)
  PROVE  claims' \subseteq Claim /\ deliveries' \subseteq Delivery
  BY DEF TypeOK, Ends, DeliveriesAfter

LEMMA GoesOnType ==
  ASSUME TypeOK, NEW c \in claims, NEW phase \in {"hook", "redeliver"}, GoesOn(c, phase)
  PROVE  claims' \subseteq Claim /\ deliveries' \subseteq Delivery
  BY DEF TypeOK, GoesOn, Claim

LEMMA AgainType ==
  ASSUME TypeOK, NEW c \in claims, NEW row \in Row, Again(c, row)
  PROVE  /\ jobs' \in [Job -> Row]
         /\ claims' \subseteq Claim /\ deliveries' \subseteq Delivery
  BY FencedUpdateType, EndsType, GoesOnType DEF Again

---------------------------------------------------------------------------
(* Type correctness *)

LEMMA InitType == Init => TypeOK
<1> SUFFICES ASSUME Init PROVE TypeOK
  OBVIOUS
<1>1. jobs \in [Job -> Row]
  <2>1. PICK legacy \in SUBSET {j \in Job : RetryUntilSuccess(j)} :
          jobs = [j \in Job |->
                 [status |-> IF j \in legacy THEN "failed" ELSE "absent",
                  attempts |-> IF j \in legacy THEN MaxAttempts[j] ELSE 0,
                  runAt |-> 0, claimedAt |-> 0, key |-> DedupeKey[j], canceled |-> FALSE]]
    BY DEF Init
  <2>2. \A j \in Job : DedupeKey[j] \in Key \cup {NoKey}
    BY DEF Key
  <2>. QED BY <2>1, <2>2, ConstantsAssumption DEF ConstantsAssumption, Row, Status
<1>. QED BY <1>1 DEF Init, TypeOK

LEMMA processClaimedJobType ==
  ASSUME TypeOK, NEW c \in claims, processClaimedJob(c)
  PROVE  TypeOK'
<1> USE ClaimFields
<1>r. ASSUME NEW s \in Status PROVE [jobs[c.job] EXCEPT !.status = s] \in Row
  BY DEF Row
<1>1. CASE unknownKind(c)
  <2>1. jobs' \in [Job -> Row]
    BY <1>1, <1>r, FencedUpdateType DEF unknownKind, Status
  <2>. QED BY <1>1, <2>1, EndsType DEF unknownKind, TypeOK
<1>2. CASE handlerResolves(c)
  <2>1. jobs' \in [Job -> Row]
    BY <1>2, <1>r, FencedUpdateType DEF handlerResolves, Status
  <2>. QED BY <1>2, <2>1, EndsType DEF handlerResolves, TypeOK
<1>3. CASE handlerThrowsSpent(c)
  <2>1. jobs' \in [Job -> Row]
    BY <1>3, <1>r, FencedUpdateType DEF handlerThrowsSpent, Status
  <2>2. claims' \subseteq Claim /\ deliveries' \subseteq Delivery
    BY <1>3, EndsType, GoesOnType DEF handlerThrowsSpent
  <2>. QED BY <1>3, <2>1, <2>2 DEF handlerThrowsSpent, TypeOK
<1>4. CASE handlerThrows(c)
  <2> DEFINE row == [jobs[c.job] EXCEPT !.status = "pending",
                                        !.runAt = now + retryDelay(c.attempts)]
  <2>1. now + retryDelay(c.attempts) \in Nat
    BY RetryDelayType DEF TypeOK
  <2>2. row \in Row
    BY <2>1 DEF Row, Status
  <2>. QED BY <1>4, <2>2, AgainType DEF handlerThrows, TypeOK
<1>5. CASE handlerDefers(c)
  <2>1. PICK delay \in DelayChoices :
          Again(c, [jobs[c.job] EXCEPT !.status = "pending",
                      !.runAt = now + delay,
                      !.attempts = IF c.attempts > 0 THEN c.attempts - 1 ELSE 0])
    BY <1>5 DEF handlerDefers
  <2> DEFINE row == [jobs[c.job] EXCEPT !.status = "pending",
                      !.runAt = now + delay,
                      !.attempts = IF c.attempts > 0 THEN c.attempts - 1 ELSE 0]
  <2>2. row \in Row
    <3>1. now + delay \in Nat
      BY ConstantsAssumption DEF ConstantsAssumption, TypeOK
    <3>2. (IF c.attempts > 0 THEN c.attempts - 1 ELSE 0) \in Nat
      OBVIOUS
    <3> DEFINE attempts == IF c.attempts > 0 THEN c.attempts - 1 ELSE 0
               runAt == now + delay
    <3>3. \A a, t \in Nat : [jobs[c.job] EXCEPT !.status = "pending", !.runAt = t,
                                                !.attempts = a] \in Row
      BY DEF Row, Status
    <3>. QED BY <3>1, <3>2, <3>3
  <2>3. deferrals' \in [Job -> Nat]
    BY <1>5 DEF handlerDefers, TypeOK
  <2>. QED BY <1>5, <2>1, <2>2, <2>3, AgainType DEF handlerDefers, TypeOK
<1>6. CASE runFailureHook(c)
  BY <1>6, EndsType DEF runFailureHook, TypeOK
<1>7. CASE redeliver(c)
  <2>1. deliveries' \subseteq Delivery
    BY <1>7, DeliveriesType DEF redeliver, DeliveriesAfter, TypeOK
  <2>. QED BY <1>7, <2>1 DEF redeliver, TypeOK
<1>. QED BY <1>1, <1>2, <1>3, <1>4, <1>5, <1>6, <1>7 DEF processClaimedJob

LEMMA NextType == TypeOK /\ [Next]_vars => TypeOK'
<1> SUFFICES ASSUME TypeOK, [Next]_vars PROVE TypeOK'
  OBVIOUS
<1>r. \A j \in Job : jobs[j] \in Row
  BY DEF TypeOK
<1>s. \A row \in Row, s \in Status : [row EXCEPT !.status = s] \in Row
  BY DEF Row
<1>c. \A row \in Row : [row EXCEPT !.canceled = TRUE] \in Row
  BY DEF Row
<1>1. ASSUME NEW j \in Job, enqueueDbJob(j) PROVE TypeOK'
  <2>1. jobs' \in [Job -> Row]
    <3>1. PICK delay \in DelayChoices :
            jobs' = [jobs EXCEPT ![j] = [jobs[j] EXCEPT !.status = "pending",
                                                        !.runAt = now + delay]]
      BY <1>1 DEF enqueueDbJob, TypeOK
    <3>2. now + delay \in Nat
      BY ConstantsAssumption DEF ConstantsAssumption, TypeOK
    <3>3. \A t \in Nat : [jobs[j] EXCEPT !.status = "pending", !.runAt = t] \in Row
      BY <1>r DEF Row, Status
    <3>. QED BY <3>1, <3>2, <3>3 DEF TypeOK
  <2>2. deliveries' \subseteq Delivery
    BY <1>1, DeliveriesType DEF enqueueDbJob, TypeOK
  <2>. QED BY <1>1, <2>1, <2>2 DEF enqueueDbJob, TypeOK
<1>2. ASSUME NEW k \in Key, cancel_db_jobs(k) PROVE TypeOK'
  BY <1>2, <1>r, <1>s, <1>c DEF cancel_db_jobs, TypeOK, Status
<1>2a. ASSUME NEW j \in Job, rescheduleConsolidation(j) PROVE TypeOK'
  <2>1. PICK runAt \in {now} \cup (now + 1)..QuietBy :
          jobs' = [jobs EXCEPT ![j] = [jobs[j] EXCEPT !.runAt = runAt]]
    BY <1>2a DEF rescheduleConsolidation, TypeOK
  <2>2. runAt \in Nat
    BY ConstantsAssumption DEF ConstantsAssumption, TypeOK
  <2>3. \A t \in Nat : [jobs[j] EXCEPT !.runAt = t] \in Row
    BY <1>r DEF Row
  <2>. QED BY <1>2a, <2>1, <2>2, <2>3 DEF rescheduleConsolidation, TypeOK
<1>3. ASSUME NEW p \in Poller, claim_db_jobs(p) PROVE TypeOK'
  <2>1. PICK S \in SUBSET Job :
          /\ jobs' = [j \in Job |->
                     IF j \in S THEN ClaimedRow(j)
                     ELSE IF Abandoned(j) THEN [jobs[j] EXCEPT !.status = "failed"]
                     ELSE jobs[j]]
          /\ claims' = claims \cup {ClaimBy(p, j, Polled) : j \in S}
          /\ epoch' = [j \in Job |-> IF j \in S THEN epoch[j] + 1 ELSE epoch[j]]
    BY <1>3 DEF claim_db_jobs
  <2>2. jobs' \in [Job -> Row]
    BY <2>1, <1>r, <1>s, ClaimedRowType DEF Status
  <2>3. claims' \subseteq Claim
    BY <2>1, ClaimByType DEF TypeOK, Runner, Polled
  <2>. QED BY <1>3, <2>1, <2>2, <2>3 DEF claim_db_jobs, TypeOK
<1>4. ASSUME NEW w \in Worker, NEW d \in deliveries, claim_db_job(w, d) PROVE TypeOK'
  <2>1. d \in Delivery /\ d.job \in Job /\ d.attempt \in Nat
    BY DEF TypeOK, Delivery
  <2>2. CASE ~Claimable(d.job)
    BY <1>4, <2>2 DEF claim_db_job, TypeOK
  <2>3. CASE Claimable(d.job)
    <3>1. jobs' \in [Job -> Row]
      BY <1>4, <2>1, <2>3, ClaimedRowType DEF claim_db_job, TypeOK
    <3>2. claims' \subseteq Claim
      BY <1>4, <2>1, <2>3, ClaimByType DEF claim_db_job, TypeOK, Runner
    <3>3. deliveries' \subseteq Delivery
      BY <1>4, <2>1, <2>3 DEF claim_db_job, TypeOK, Delivery
    <3>. QED BY <1>4, <2>1, <2>3, <3>1, <3>2, <3>3 DEF claim_db_job, TypeOK
  <2>. QED BY <2>2, <2>3
<1>5. ASSUME NEW c \in claims, processClaimedJob(c) PROVE TypeOK'
  BY <1>5, processClaimedJobType
<1>6. ASSUME NEW j \in Job, retentionSweep(j) PROVE TypeOK'
  BY <1>6, <1>r, <1>s DEF retentionSweep, TypeOK, Status
<1>7. ASSUME eraseUserRows PROVE TypeOK'
  BY <1>7, <1>r, <1>s DEF eraseUserRows, TypeOK, Status
<1>8. ASSUME NEW r \in Runner, Crash(r) PROVE TypeOK'
  BY <1>8 DEF Crash, TypeOK
<1>9. ASSUME NEW d \in deliveries, DeliveryLost(d) \/ DeliveryStalls(d) PROVE TypeOK'
  BY <1>9 DEF DeliveryLost, DeliveryStalls, TypeOK, Delivery
<1>10. ASSUME Tick PROVE TypeOK'
  BY <1>10 DEF Tick, TypeOK
<1>11. ASSUME UNCHANGED vars PROVE TypeOK'
  BY <1>11 DEF vars, TypeOK
<1>. QED
  BY <1>1, <1>2, <1>2a, <1>3, <1>4, <1>5, <1>6, <1>7, <1>8, <1>9, <1>10, <1>11
  DEF Next, Works

\* The state of the queue is well formed: rows, executions and deliveries keep
\* the shape the schema and the runner give them, in every deployment.
THEOREM TypeCorrect == Spec => []TypeOK
  BY InitType, NextType, PTL DEF Spec
=============================================================================
