-------------------------- MODULE DbJobsFenceProofs --------------------------
(***************************************************************************)
(* The fencing token of the durable job queue names one claim, a healthy   *)
(* job is never run twice at once, and the attempt budget bounds how often *)
(* a row is claimed: proved for every instance of DbJobs.                  *)
(*                                                                         *)
(* The argument.  Claims of a row are ordered by time: a row is claimed    *)
(* again only after its executor wrote the outcome (and so is no longer in *)
(* a handler) or after the claim went stale, and then the clock is past    *)
(* claimed_at + StaleAfter.  So the claimed_at of an executor that has     *)
(* been overtaken is smaller than that of its row, by more than StaleAfter,*)
(* and the token of an overtaken executor matches nothing.                 *)
(***************************************************************************)
EXTENDS DbJobsProofs

InHandler(c) == c.phase = "handling"

\* No claim is dated after the clock.
ClockAhead == \A j \in Job : jobs[j].claimedAt <= now

\* An execution is its row's latest claim or has been overtaken; one that has
\* been overtaken in its handler was stale at that time.
Overtaken ==
  \A c \in claims :
    /\ c.epoch <= epoch[c.job]
    /\ InHandler(c) /\ c.epoch < epoch[c.job] =>
         c.claimedAt + StaleAfter < jobs[c.job].claimedAt

\* While the latest claim is in its handler nobody else moves the row, except
\* to fail it as abandoned or to delete it.
LatestOwns ==
  \A c \in claims :
    InHandler(c) /\ c.epoch = epoch[c.job] =>
      /\ c.claimedAt = jobs[c.job].claimedAt
      /\ c.attempts = jobs[c.job].attempts
      /\ jobs[c.job].status \in {"running", "failed", "deleted"}
      /\ jobs[c.job].status = "failed" => ~RetryUntilSuccess(c.job)

\* A claim is made once.
ClaimedOnce ==
  \A c, d \in claims : c.job = d.job /\ c.epoch = d.epoch => c = d

FenceInv ==
  /\ TypeOK
  /\ ClockAhead
  /\ Overtaken
  /\ LatestOwns
  /\ ClaimedOnce
  /\ NoDoubleRunBeforeStale

---------------------------------------------------------------------------
(* What the actions do, in the terms of the invariant *)

\* Both claim functions claim a set of rows for one runner; the batch claim
\* also fails abandoned rows.
ClaimEffect(S, r, delivery) ==
  /\ \A j \in S : Claimable(j) /\ jobs'[j] = ClaimedRow(j) /\ epoch'[j] = epoch[j] + 1
  /\ \A j \in Job \ S :
       /\ epoch'[j] = epoch[j]
       /\ \/ jobs'[j] = jobs[j]
          \/ Abandoned(j) /\ jobs'[j] = [jobs[j] EXCEPT !.status = "failed"]
  /\ claims' = claims \cup {ClaimBy(r, j, delivery) : j \in S}
  /\ now' = now
  /\ deferrals' = deferrals

LEMMA BatchClaimEffect ==
  ASSUME TypeOK, NEW p \in Poller, claim_db_jobs(p)
  PROVE  \E S \in SUBSET Job : ClaimEffect(S, p, Polled)
<1>1. PICK S \in SUBSET Job :
        /\ Batch(S)
        /\ jobs' = [j \in Job |->
                     IF j \in S THEN ClaimedRow(j)
                     ELSE IF Abandoned(j) THEN [jobs[j] EXCEPT !.status = "failed"]
                     ELSE jobs[j]]
        /\ claims' = claims \cup {ClaimBy(p, j, Polled) : j \in S}
        /\ epoch' = [j \in Job |-> IF j \in S THEN epoch[j] + 1 ELSE epoch[j]]
  BY DEF claim_db_jobs
<1>2. \A j \in S : Claimable(j)
  BY <1>1 DEF Batch
<1>3. now' = now /\ deferrals' = deferrals
  BY DEF claim_db_jobs
<1>4. ClaimEffect(S, p, Polled)
  BY <1>1, <1>2, <1>3 DEF ClaimEffect
<1>. QED BY <1>4

LEMMA DeliveryClaimEffect ==
  ASSUME TypeOK, NEW w \in Worker, NEW d \in deliveries, claim_db_job(w, d)
  PROVE  \E S \in SUBSET Job : ClaimEffect(S, w, d.attempt)
<1>1. d.job \in Job
  BY DEF TypeOK, Delivery
<1>2. CASE Claimable(d.job)
  <2>1. ClaimEffect({d.job}, w, d.attempt)
    BY <1>1, <1>2 DEF claim_db_job, ClaimEffect, TypeOK
  <2>. QED BY <1>1, <2>1
<1>3. CASE ~Claimable(d.job)
  <2>1. ClaimEffect({}, w, d.attempt)
    BY <1>3 DEF claim_db_job, ClaimEffect
  <2>. QED BY <2>1
<1>. QED BY <1>2, <1>3

\* The outcome of an execution: it leaves its handler, and its row is as it
\* was or, if the token still matched, has the outcome.
Outcome(c, row) ==
  /\ row.status \in {"pending", "done", "failed"}
  /\ row.status = "failed" => ~RetryUntilSuccess(c.job)
  /\ row.claimedAt = jobs[c.job].claimedAt
  /\ row.key = jobs[c.job].key
  /\ \/ /\ deferrals' = deferrals
        /\ row.attempts = jobs[c.job].attempts
        /\ row.status = "pending" => ~Spent(c.job, c.attempts)
     \/ /\ deferrals' = [deferrals EXCEPT ![c.job] = @ + 1]
        /\ row.status = "pending"
        /\ row.attempts = IF c.attempts > 0 THEN c.attempts - 1 ELSE 0

\* A hook follows only a claim that spent the budget, and no outcome but "failed".
SettleEffect(c) ==
  /\ claims \ {c} \subseteq claims'
  /\ \E phase \in {"hook", "redeliver"} :
       /\ claims' \subseteq (claims \ {c}) \cup {[c EXCEPT !.phase = phase]}
       /\ phase = "hook" => /\ InHandler(c)
                            /\ Spent(c.job, c.attempts)
                            /\ jobs'[c.job].status \in {jobs[c.job].status, "failed"}
  /\ epoch' = epoch
  /\ now' = now
  /\ \/ jobs' = jobs /\ deferrals' = deferrals
     \/ /\ InHandler(c)
        /\ Fenced(c)
        /\ \E row \in Row : jobs' = [jobs EXCEPT ![c.job] = row] /\ Outcome(c, row)

LEMMA ProcessEffect ==
  ASSUME TypeOK, NEW c \in claims, processClaimedJob(c)
  PROVE  SettleEffect(c)
<1> USE ClaimFields
<1>r. ASSUME NEW s \in Status PROVE [jobs[c.job] EXCEPT !.status = s] \in Row
  BY DEF Row
<1>1. CASE InHandler(c) /\ unknownKind(c)
  <2> DEFINE row == [jobs[c.job] EXCEPT !.status = "failed"]
  <2>1. row \in Row
    BY <1>r DEF Status
  <2>2. row.status = "failed" /\ row.claimedAt = jobs[c.job].claimedAt
        /\ row.key = jobs[c.job].key /\ row.attempts = jobs[c.job].attempts
    BY DEF Row
  <2>3. jobs' = jobs \/ (Fenced(c) /\ jobs' = [jobs EXCEPT ![c.job] = row])
    BY <1>1 DEF unknownKind, FencedUpdate
  <2> HIDE DEF row
  <2>4. Outcome(c, row)
    BY <1>1, <2>2 DEF Outcome, unknownKind
  <2>5. claims' = claims \ {c}
    BY <1>1 DEF unknownKind, Ends
  <2>. QED BY <1>1, <2>1, <2>3, <2>4, <2>5 DEF SettleEffect, unknownKind
<1>2. CASE InHandler(c) /\ handlerResolves(c)
  <2> DEFINE row == [jobs[c.job] EXCEPT !.status = "done"]
  <2>1. row \in Row
    BY <1>r DEF Status
  <2>2. row.status = "done" /\ row.claimedAt = jobs[c.job].claimedAt
        /\ row.key = jobs[c.job].key /\ row.attempts = jobs[c.job].attempts
    BY DEF Row
  <2>3. jobs' = jobs \/ (Fenced(c) /\ jobs' = [jobs EXCEPT ![c.job] = row])
    BY <1>2 DEF handlerResolves, FencedUpdate
  <2> HIDE DEF row
  <2>4. Outcome(c, row)
    BY <1>2, <2>2 DEF Outcome, handlerResolves
  <2>5. claims' = claims \ {c}
    BY <1>2 DEF handlerResolves, Ends
  <2>. QED BY <1>2, <2>1, <2>3, <2>4, <2>5 DEF SettleEffect, handlerResolves
<1>3. CASE InHandler(c) /\ handlerThrowsSpent(c)
  <2> DEFINE row == [jobs[c.job] EXCEPT !.status = "failed"]
  <2>1. row \in Row
    BY <1>r DEF Status
  <2>2. row.status = "failed" /\ row.claimedAt = jobs[c.job].claimedAt
        /\ row.key = jobs[c.job].key /\ row.attempts = jobs[c.job].attempts
    BY DEF Row
  <2>3. jobs' = jobs \/ (Fenced(c) /\ jobs' = [jobs EXCEPT ![c.job] = row])
    BY <1>3 DEF handlerThrowsSpent, FencedUpdate
  <2> HIDE DEF row
  <2>4. Outcome(c, row)
    BY <1>3, <2>2 DEF Outcome, handlerThrowsSpent, Spent
  <2>5. /\ claims \ {c} \subseteq claims'
        /\ claims' \subseteq (claims \ {c}) \cup {[c EXCEPT !.phase = "hook"]}
    BY <1>3 DEF handlerThrowsSpent, Ends, GoesOn
  <2>6. jobs'[c.job].status \in {jobs[c.job].status, "failed"}
    BY <2>2, <2>3 DEF TypeOK
  <2>7. InHandler(c) /\ Spent(c.job, c.attempts)
    BY <1>3 DEF handlerThrowsSpent
  <2>8. epoch' = epoch /\ now' = now /\ deferrals' = deferrals
    BY <1>3 DEF handlerThrowsSpent
  <2>. QED BY <2>1, <2>3, <2>4, <2>5, <2>6, <2>7, <2>8 DEF SettleEffect
<1>4. CASE InHandler(c) /\ handlerThrows(c)
  <2> DEFINE row == [jobs[c.job] EXCEPT !.status = "pending",
                                        !.runAt = now + retryDelay(c.attempts)]
  <2>0. now + retryDelay(c.attempts) \in Nat
    BY RetryDelayType DEF TypeOK
  <2>1. row \in Row
    BY <2>0 DEF Row, Status
  <2>2. row.status = "pending" /\ row.claimedAt = jobs[c.job].claimedAt
        /\ row.key = jobs[c.job].key /\ row.attempts = jobs[c.job].attempts
    BY DEF Row
  <2>3. jobs' = jobs \/ (Fenced(c) /\ jobs' = [jobs EXCEPT ![c.job] = row])
    BY <1>4 DEF handlerThrows, Again, FencedUpdate
  <2> HIDE DEF row
  <2>4. Outcome(c, row)
    BY <1>4, <2>2 DEF Outcome, handlerThrows
  <2>5. /\ claims \ {c} \subseteq claims'
        /\ claims' \subseteq (claims \ {c}) \cup {[c EXCEPT !.phase = "redeliver"]}
    BY <1>4 DEF handlerThrows, Again, Ends, GoesOn
  <2>. QED BY <1>4, <2>1, <2>3, <2>4, <2>5 DEF SettleEffect, handlerThrows
<1>5. CASE InHandler(c) /\ handlerDefers(c)
  <2>1. PICK delay \in DelayChoices :
          Again(c, [jobs[c.job] EXCEPT !.status = "pending",
                      !.runAt = now + delay,
                      !.attempts = IF c.attempts > 0 THEN c.attempts - 1 ELSE 0])
    BY <1>5 DEF handlerDefers
  <2> DEFINE attempts == IF c.attempts > 0 THEN c.attempts - 1 ELSE 0
             row == [jobs[c.job] EXCEPT !.status = "pending", !.runAt = now + delay,
                                        !.attempts = attempts]
  <2>2. now + delay \in Nat /\ attempts \in Nat
    BY ConstantsAssumption DEF ConstantsAssumption, TypeOK
  <2>3. row \in Row /\ row.status = "pending" /\ row.attempts = attempts
        /\ row.claimedAt = jobs[c.job].claimedAt /\ row.key = jobs[c.job].key
    <3> HIDE DEF attempts
    <3>. QED BY <2>2 DEF Row, Status
  <2>4. jobs' = jobs \/ (Fenced(c) /\ jobs' = [jobs EXCEPT ![c.job] = row])
    BY <2>1 DEF Again, FencedUpdate
  <2>5. /\ claims \ {c} \subseteq claims'
        /\ claims' \subseteq (claims \ {c}) \cup {[c EXCEPT !.phase = "redeliver"]}
    BY <2>1 DEF Again, Ends, GoesOn
  <2>6. deferrals' = IF jobs' # jobs THEN [deferrals EXCEPT ![c.job] = @ + 1] ELSE deferrals
    BY <1>5 DEF handlerDefers
  <2>7. epoch' = epoch /\ now' = now
    BY <1>5 DEF handlerDefers
  <2> HIDE DEF row
  <2>8. CASE jobs' = jobs
    BY <2>5, <2>6, <2>7, <2>8 DEF SettleEffect
  <2>9. CASE jobs' # jobs
    <3>1. Outcome(c, row)
      BY <2>3, <2>6, <2>9 DEF Outcome
    <3>. QED BY <1>5, <2>3, <2>4, <2>5, <2>7, <2>9, <3>1 DEF SettleEffect
  <2>. QED BY <2>8, <2>9
<1>6. CASE runFailureHook(c)
  BY <1>6 DEF SettleEffect, runFailureHook, Ends
<1>7. CASE redeliver(c)
  BY <1>7 DEF SettleEffect, redeliver
<1>. QED
  BY <1>1, <1>2, <1>3, <1>4, <1>5, <1>6, <1>7 DEF processClaimedJob, InHandler

\* A row is deleted when it is done, or when it is not one of cleanup, or is
\* canceled by its key.
Removed(j) ==
  /\ jobs'[j].status = "deleted"
  /\ claims' = claims
  /\ \/ jobs[j].status = "done"
     \/ jobs[j].status # "absent" /\ ~RetryUntilSuccess(j)
     \/ \E key \in Key : cancel_db_jobs(key) /\ jobs[j].key = key /\ jobs[j].status = "pending"

\* Every other step leaves the token and the key of every row alone: it
\* enqueues, cancels, deletes, crashes, loses a delivery or lets time pass.
OtherEffect ==
  /\ claims' \subseteq claims
  /\ epoch' = epoch
  /\ deferrals' = deferrals
  /\ now' \in Nat /\ now' >= now
  /\ \A j \in Job :
       /\ jobs'[j].claimedAt = jobs[j].claimedAt
       /\ jobs'[j].attempts = jobs[j].attempts
       /\ jobs'[j].key = jobs[j].key
       /\ \/ jobs'[j].status = jobs[j].status
          \/ Removed(j)
          \/ enqueueDbJob(j) /\ jobs[j].status = "absent" /\ jobs'[j].status = "pending"

LEMMA NextEffect ==
  ASSUME TypeOK, [Next]_vars
  PROVE  \/ \E S \in SUBSET Job, r \in Runner, delivery \in Int :
              ClaimEffect(S, r, delivery)
         \/ \E c \in claims : SettleEffect(c)
         \/ OtherEffect
<1> DEFINE Goal == \/ \E S \in SUBSET Job, r \in Runner, delivery \in Int :
                         ClaimEffect(S, r, delivery)
                   \/ \E c \in claims : SettleEffect(c)
                   \/ OtherEffect
           Kept(new, row) == /\ new.claimedAt = row.claimedAt
                             /\ new.attempts = row.attempts
                             /\ new.key = row.key
<1>r. \A j \in Job : jobs[j] \in Row
  BY DEF TypeOK
<1>s. \A row \in Row, s \in Status :
        LET new == [row EXCEPT !.status = s] IN new.status = s /\ Kept(new, row)
  BY DEF Row
<1>d. \A row \in Row :
        LET new == [row EXCEPT !.status = "deleted"] IN
        new.status = "deleted" /\ Kept(new, row)
  BY <1>s DEF Status
<1>n. now \in Nat
  BY DEF TypeOK
<1>1. ASSUME NEW j \in Job, enqueueDbJob(j) PROVE Goal
  <2>1. PICK delay \in DelayChoices :
          jobs' = [jobs EXCEPT ![j] = [jobs[j] EXCEPT !.status = "pending",
                                                      !.runAt = now + delay]]
    BY <1>1 DEF enqueueDbJob, TypeOK
  <2>2. \A k \in Job : jobs'[k] = jobs[k]
          \/ (k = j /\ jobs'[k].status = "pending" /\ Kept(jobs'[k], jobs[k]))
    BY <2>1, <1>r DEF TypeOK, Row
  <2>3. /\ jobs[j].status = "absent"
        /\ claims' = claims /\ epoch' = epoch /\ deferrals' = deferrals /\ now' = now
    BY <1>1 DEF enqueueDbJob
  <2>4. OtherEffect
    BY <1>1, <2>2, <2>3, <1>n DEF OtherEffect
  <2>. QED BY <2>4
<1>2. ASSUME NEW k \in Key, cancel_db_jobs(k) PROVE Goal
  <2>1. \A row \in Row : LET new == [row EXCEPT !.canceled = TRUE] IN
          new.status = row.status /\ Kept(new, row)
    BY DEF Row
  <2>2. \A j \in Job : \/ jobs'[j] = jobs[j]
                       \/ /\ jobs'[j] = [jobs[j] EXCEPT !.status = "deleted"]
                          /\ jobs[j].key = k /\ jobs[j].status = "pending"
                       \/ jobs'[j] = [jobs[j] EXCEPT !.canceled = TRUE]
    BY <1>2 DEF cancel_db_jobs
  <2>3. claims' = claims /\ epoch' = epoch /\ deferrals' = deferrals /\ now' = now
    BY <1>2 DEF cancel_db_jobs
  <2>4. \A j \in Job : /\ Kept(jobs'[j], jobs[j])
                       /\ jobs'[j].status = jobs[j].status \/ Removed(j)
    <3> TAKE j \in Job
    <3>1. CASE jobs'[j] = jobs[j] \/ jobs'[j] = [jobs[j] EXCEPT !.canceled = TRUE]
      BY <1>r, <2>1, <3>1
    <3>2. CASE /\ jobs'[j] = [jobs[j] EXCEPT !.status = "deleted"]
               /\ jobs[j].key = k /\ jobs[j].status = "pending"
      <4>1. jobs'[j].status = "deleted" /\ Kept(jobs'[j], jobs[j])
        BY <1>r, <1>d, <3>2
      <4>2. Removed(j)
        BY <1>2, <2>3, <3>2, <4>1 DEF Removed
      <4>. QED BY <4>1, <4>2
    <3>. QED BY <2>2, <3>1, <3>2
  <2>. QED BY <2>3, <2>4, <1>n DEF OtherEffect
<1>2a. ASSUME NEW j \in Job, rescheduleConsolidation(j) PROVE Goal
  <2>1. PICK runAt \in {now} \cup (now + 1)..QuietBy :
          jobs' = [jobs EXCEPT ![j] = [jobs[j] EXCEPT !.runAt = runAt]]
    BY <1>2a DEF rescheduleConsolidation, TypeOK
  <2>2. \A k \in Job : jobs'[k].status = jobs[k].status /\ Kept(jobs'[k], jobs[k])
    BY <2>1, <1>r DEF TypeOK, Row
  <2>3. claims' = claims /\ epoch' = epoch /\ deferrals' = deferrals /\ now' = now
    BY <1>2a DEF rescheduleConsolidation
  <2>. QED BY <2>2, <2>3, <1>n DEF OtherEffect
<1>3. ASSUME NEW p \in Poller, claim_db_jobs(p) PROVE Goal
  BY <1>3, BatchClaimEffect DEF Runner, Polled
<1>4. ASSUME NEW w \in Worker, NEW d \in deliveries, claim_db_job(w, d) PROVE Goal
  <2>1. d.attempt \in Int
    BY DEF TypeOK, Delivery
  <2>. QED BY <1>4, <2>1, DeliveryClaimEffect DEF Runner
<1>5. ASSUME NEW c \in claims, processClaimedJob(c) PROVE Goal
  BY <1>5, ProcessEffect
<1>6. ASSUME NEW j \in Job, retentionSweep(j) PROVE Goal
  <2>1. \A k \in Job :
          \/ jobs'[k] = jobs[k]
          \/ /\ jobs'[k] = [jobs[k] EXCEPT !.status = "deleted"]
             /\ jobs[k].status = "done" \/ (jobs[k].status = "failed" /\ ~RetryUntilSuccess(k))
    BY <1>6 DEF retentionSweep, TypeOK
  <2>2. claims' = claims /\ epoch' = epoch /\ deferrals' = deferrals /\ now' = now
    BY <1>6 DEF retentionSweep
  <2>3. \A k \in Job : /\ Kept(jobs'[k], jobs[k])
                       /\ jobs'[k].status = jobs[k].status \/ Removed(k)
    <3> TAKE k \in Job
    <3>1. CASE jobs'[k] = jobs[k]
      BY <3>1
    <3>2. CASE jobs'[k] # jobs[k]
      <4>0. jobs'[k] = [jobs[k] EXCEPT !.status = "deleted"]
        BY <2>1, <3>2
      <4>1. jobs'[k].status = "deleted" /\ Kept(jobs'[k], jobs[k])
        BY <1>r, <1>d, <4>0
      <4>2. Removed(k)
        BY <2>1, <2>2, <3>2, <4>1 DEF Removed
      <4>. QED BY <4>1, <4>2
    <3>. QED BY <3>1, <3>2
  <2>. QED BY <2>2, <2>3, <1>n DEF OtherEffect
<1>7. ASSUME eraseUserRows PROVE Goal
  <2>1. \A k \in Job :
          \/ jobs'[k] = jobs[k]
          \/ /\ jobs'[k] = [jobs[k] EXCEPT !.status = "deleted"]
             /\ jobs[k].status # "absent" /\ ~RetryUntilSuccess(k)
    BY <1>7 DEF eraseUserRows, ErasableKinds, RetryUntilSuccess, RETRY_UNTIL_SUCCESS_KINDS
  <2>2. claims' = claims /\ epoch' = epoch /\ deferrals' = deferrals /\ now' = now
    BY <1>7 DEF eraseUserRows
  <2>3. \A k \in Job : /\ Kept(jobs'[k], jobs[k])
                       /\ jobs'[k].status = jobs[k].status \/ Removed(k)
    <3> TAKE k \in Job
    <3>1. CASE jobs'[k] = jobs[k]
      BY <3>1
    <3>2. CASE jobs'[k] # jobs[k]
      <4>0. jobs'[k] = [jobs[k] EXCEPT !.status = "deleted"]
        BY <2>1, <3>2
      <4>1. jobs'[k].status = "deleted" /\ Kept(jobs'[k], jobs[k])
        BY <1>r, <1>d, <4>0
      <4>2. Removed(k)
        BY <2>1, <2>2, <3>2, <4>1 DEF Removed
      <4>. QED BY <4>1, <4>2
    <3>. QED BY <3>1, <3>2
  <2>. QED BY <2>2, <2>3, <1>n DEF OtherEffect
<1>8. ASSUME NEW r \in Runner, Crash(r) PROVE Goal
  BY <1>8, <1>n DEF Crash, OtherEffect
<1>9. ASSUME NEW d \in deliveries, DeliveryLost(d) \/ DeliveryStalls(d) PROVE Goal
  BY <1>9, <1>n DEF DeliveryLost, DeliveryStalls, OtherEffect
<1>10. ASSUME Tick PROVE Goal
  BY <1>10, <1>n DEF Tick, OtherEffect
<1>11. ASSUME UNCHANGED vars PROVE Goal
  BY <1>11, <1>n DEF vars, OtherEffect
<1>. QED
  BY <1>1, <1>2, <1>2a, <1>3, <1>4, <1>5, <1>6, <1>7, <1>8, <1>9, <1>10, <1>11
  DEF Next, Works

---------------------------------------------------------------------------
(* The invariant *)

LEMMA ClaimRowFacts ==
  ASSUME TypeOK, NEW j \in Job
  PROVE  /\ ClaimedRow(j).status = "running"
         /\ ClaimedRow(j).claimedAt = now
         /\ ClaimedRow(j).attempts \in Nat
         /\ ~RetryUntilSuccess(j) => ClaimedRow(j).attempts = jobs[j].attempts + 1
<1>1. jobs[j] \in Row
  BY DEF TypeOK
<1> DEFINE attempts == IF RetryUntilSuccess(j) /\ jobs[j].attempts >= IntMax
                       THEN IntMax ELSE jobs[j].attempts + 1
           key == IF jobs[j].status = "failed" /\ RetryUntilSuccess(j)
                  THEN NoKey ELSE jobs[j].key
<1>2. attempts \in Nat /\ (~RetryUntilSuccess(j) => attempts = jobs[j].attempts + 1)
  BY <1>1, ConstantsAssumption DEF ConstantsAssumption, Row
<1>3. ClaimedRow(j) = [jobs[j] EXCEPT !.status = "running", !.claimedAt = now,
                                      !.attempts = attempts, !.key = key]
  BY <1>1 DEF ClaimedRow, Row
<1> HIDE DEF attempts, key
<1>. QED BY <1>1, <1>2, <1>3 DEF Row

LEMMA InitFence == Init => FenceInv
<1> SUFFICES ASSUME Init PROVE FenceInv
  OBVIOUS
<1>1. TypeOK
  BY InitType
<1>2. claims = {} /\ now = 0
  BY DEF Init
<1>3. ClockAhead
  BY <1>2 DEF Init, ClockAhead
<1>. QED
  BY <1>1, <1>2, <1>3 DEF FenceInv, Overtaken, LatestOwns, ClaimedOnce,
                          NoDoubleRunBeforeStale

\* A claim overtakes only executions that went stale.
LEMMA ClaimKeepsFence ==
  ASSUME FenceInv, TypeOK', NEW S \in SUBSET Job, NEW r \in Runner, NEW delivery \in Int,
         ClaimEffect(S, r, delivery)
  PROVE  FenceInv'
<1> USE DEF FenceInv
<1>t. /\ now \in Nat /\ StaleAfter \in Nat
      /\ \A j \in Job : jobs[j].claimedAt \in Nat /\ epoch[j] \in Nat
      /\ \A c \in claims : c.job \in Job /\ c.epoch \in Nat /\ c.claimedAt \in Nat
  BY ConstantsAssumption, ClaimFields DEF ConstantsAssumption, TypeOK, Row
<1>u. now' = now /\ StaleAfter' = StaleAfter
  BY DEF ClaimEffect
\* The new executions.
<1>n. \A c \in claims' \ claims :
        /\ c.job \in S
        /\ c.claimedAt = now
        /\ c.epoch = epoch[c.job] + 1
        /\ c.attempts = ClaimedRow(c.job).attempts
        /\ c = ClaimBy(r, c.job, delivery)
  BY DEF ClaimEffect, ClaimBy
<1>s. \A j \in S :
        /\ jobs'[j].status = "running"
        /\ jobs'[j].claimedAt = now
        /\ jobs'[j].attempts = ClaimedRow(j).attempts
        /\ epoch'[j] = epoch[j] + 1
  BY ClaimRowFacts DEF ClaimEffect
<1>o. \A j \in Job \ S :
        /\ jobs'[j].claimedAt = jobs[j].claimedAt
        /\ jobs'[j].attempts = jobs[j].attempts
        /\ epoch'[j] = epoch[j]
        /\ \/ jobs'[j].status = jobs[j].status
           \/ jobs'[j].status = "failed" /\ ~RetryUntilSuccess(j)
  <2>1. \A j \in Job : LET new == [jobs[j] EXCEPT !.status = "failed"] IN
          new.status = "failed" /\ new.claimedAt = jobs[j].claimedAt
          /\ new.attempts = jobs[j].attempts
    BY DEF TypeOK, Row
  <2>. QED BY <2>1 DEF ClaimEffect, Abandoned, Spent
\* An execution still in its handler whose row is claimed had gone stale.
<1>z. \A c \in claims : InHandler(c) /\ c.job \in S => c.claimedAt + StaleAfter < now
  <2> SUFFICES ASSUME NEW c \in claims, InHandler(c), c.job \in S
               PROVE  c.claimedAt + StaleAfter < now
    OBVIOUS
  <2>1. CASE c.epoch < epoch[c.job]
    BY <2>1, <1>t DEF Overtaken, ClockAhead
  <2>2. CASE c.epoch = epoch[c.job]
    <3>1. Claimable(c.job)
      BY DEF ClaimEffect
    <3>2. jobs[c.job].claimedAt < now - StaleAfter
      BY <2>2, <3>1 DEF LatestOwns, Claimable, Stale
    <3>. QED BY <2>2, <3>2, <1>t DEF LatestOwns
  <2>. QED BY <2>1, <2>2, <1>t DEF Overtaken
<1>1. ClockAhead'
  BY <1>s, <1>o, <1>t, <1>u DEF ClockAhead
<1>2. Overtaken'
  <2> SUFFICES ASSUME NEW c \in claims'
               PROVE  /\ c.epoch <= epoch'[c.job]
                      /\ InHandler(c) /\ c.epoch < epoch'[c.job] =>
                           c.claimedAt + StaleAfter < jobs'[c.job].claimedAt
    BY DEF Overtaken, InHandler
  <2>1. CASE c \in claims /\ c.job \in S
    BY <2>1, <1>s, <1>t, <1>z DEF Overtaken
  <2>2. CASE c \in claims /\ c.job \notin S
    BY <2>2, <1>o, <1>t DEF Overtaken
  <2>3. CASE c \notin claims
    BY <2>3, <1>n, <1>s, <1>t
  <2>. QED BY <2>1, <2>2, <2>3
<1>3. LatestOwns'
  <2> SUFFICES ASSUME NEW c \in claims', InHandler(c), c.epoch = epoch'[c.job]
               PROVE  /\ c.claimedAt = jobs'[c.job].claimedAt
                      /\ c.attempts = jobs'[c.job].attempts
                      /\ jobs'[c.job].status \in {"running", "failed", "deleted"}
                      /\ jobs'[c.job].status = "failed" => ~RetryUntilSuccess(c.job)
    BY DEF LatestOwns, InHandler, RetryUntilSuccess
  <2>1. CASE c \in claims /\ c.job \in S
    BY <2>1, <1>s, <1>t DEF Overtaken
  <2>2. CASE c \in claims /\ c.job \notin S
    BY <2>2, <1>o, <1>t DEF LatestOwns
  <2>3. CASE c \notin claims
    BY <2>3, <1>n, <1>s, <1>t
  <2>. QED BY <2>1, <2>2, <2>3
<1>4. ClaimedOnce'
  <2> SUFFICES ASSUME NEW c \in claims', NEW d \in claims', c.job = d.job, c.epoch = d.epoch
               PROVE  c = d
    BY DEF ClaimedOnce
  <2>1. CASE c \in claims /\ d \in claims
    BY <2>1 DEF ClaimedOnce
  <2>2. CASE c \notin claims /\ d \notin claims
    BY <2>2, <1>n
  <2>3. CASE c \in claims /\ d \notin claims
    BY <2>3, <1>n, <1>t DEF Overtaken
  <2>4. CASE c \notin claims /\ d \in claims
    BY <2>4, <1>n, <1>t DEF Overtaken
  <2>. QED BY <2>1, <2>2, <2>3, <2>4
<1>5. NoDoubleRunBeforeStale'
  <2> SUFFICES ASSUME NEW c \in claims', NEW d \in claims',
                      c.job = d.job, InHandler(c), InHandler(d), c.epoch < d.epoch
               PROVE  c.claimedAt + StaleAfter < d.claimedAt
    BY DEF NoDoubleRunBeforeStale, InHandler
  <2>1. CASE c \in claims /\ d \in claims
    BY <2>1 DEF NoDoubleRunBeforeStale, InHandler
  <2>2. CASE c \in claims /\ d \notin claims
    BY <2>2, <1>n, <1>z
  <2>3. CASE c \notin claims
    BY <2>3, <1>n, <1>t DEF Overtaken
  <2>. QED BY <2>1, <2>2, <2>3
<1>. QED BY <1>1, <1>2, <1>3, <1>4, <1>5

\* Of the executions in a handler only the latest claim can match its row.
LEMMA FencedIsLatest ==
  ASSUME FenceInv, NEW c \in claims, InHandler(c), Fenced(c)
  PROVE  c.epoch = epoch[c.job]
<1>1. /\ c.job \in Job /\ c.epoch \in Nat /\ c.claimedAt \in Nat
      /\ epoch[c.job] \in Nat /\ StaleAfter \in Nat
  BY ConstantsAssumption, ClaimFields DEF ConstantsAssumption, FenceInv, TypeOK
<1>2. c.claimedAt = jobs[c.job].claimedAt
  BY DEF Fenced
<1>. QED BY <1>1, <1>2 DEF FenceInv, Overtaken

LEMMA SettleKeepsFence ==
  ASSUME FenceInv, TypeOK', NEW c \in claims, SettleEffect(c)
  PROVE  FenceInv'
<1> USE DEF FenceInv
<1>1. PICK phase \in {"hook", "redeliver"} :
        claims' \subseteq (claims \ {c}) \cup {[c EXCEPT !.phase = phase]}
  BY DEF SettleEffect
<1> DEFINE e == [c EXCEPT !.phase = phase]
<1>2. /\ e.job = c.job /\ e.epoch = c.epoch /\ e.claimedAt = c.claimedAt
      /\ ~InHandler(e)
  <2>1. c \in Claim
    BY DEF TypeOK
  <2>. QED BY <2>1 DEF Claim, InHandler
<1> HIDE DEF e
<1>3. \A d \in claims' : d \in claims \ {c} \/ d = e
  BY <1>1 DEF e
<1>4. epoch' = epoch /\ now' = now
  BY DEF SettleEffect
<1>5. c.job \in Job
  BY ClaimFields
\* The row moves only under its latest claim, and keeps its claimed_at.
<1>6. \A j \in Job :
        /\ jobs'[j].claimedAt = jobs[j].claimedAt
        /\ jobs'[j] # jobs[j] => j = c.job /\ InHandler(c) /\ c.epoch = epoch[j]
  BY <1>5, FencedIsLatest DEF SettleEffect, Outcome, TypeOK
<1>7. ClockAhead'
  BY <1>4, <1>6 DEF ClockAhead
<1>8. Overtaken'
  <2>1. \A d \in claims' : d.job \in Job
    BY <1>2, <1>3, <1>5, ClaimFields
  <2>. QED BY <1>2, <1>3, <1>4, <1>6, <2>1 DEF Overtaken, InHandler
<1>9. LatestOwns'
  <2> SUFFICES ASSUME NEW d \in claims', InHandler(d), d.epoch = epoch[d.job]
               PROVE  d \in claims /\ jobs'[d.job] = jobs[d.job]
    BY <1>4 DEF LatestOwns, InHandler, RetryUntilSuccess
  <2>1. d \in claims \ {c} /\ d.job \in Job
    BY <1>2, <1>3, ClaimFields
  <2>. QED BY <1>6, <2>1 DEF ClaimedOnce
<1>10. ClaimedOnce'
  BY <1>2, <1>3 DEF ClaimedOnce
<1>11. NoDoubleRunBeforeStale'
  BY <1>2, <1>3 DEF NoDoubleRunBeforeStale, InHandler
<1>. QED BY <1>7, <1>8, <1>9, <1>10, <1>11

LEMMA OtherKeepsFence ==
  ASSUME FenceInv, TypeOK', OtherEffect
  PROVE  FenceInv'
<1> USE DEF FenceInv, OtherEffect
<1>1. \A c \in claims' : c \in claims /\ c.job \in Job
  BY ClaimFields
<1>2. ClockAhead'
  <2>1. \A j \in Job : jobs[j].claimedAt \in Nat /\ now \in Nat
    BY DEF TypeOK, Row
  <2>. QED BY <2>1 DEF ClockAhead
<1>3. Overtaken'
  BY <1>1 DEF Overtaken, InHandler
<1>4. LatestOwns'
  <2>1. \A j \in Job : jobs'[j].status \in {jobs[j].status, "deleted"}
                         \/ jobs[j].status = "absent"
    BY DEF Removed
  <2>. QED BY <1>1, <2>1 DEF LatestOwns, InHandler, RetryUntilSuccess
<1>5. ClaimedOnce'
  BY <1>1 DEF ClaimedOnce
<1>6. NoDoubleRunBeforeStale'
  BY <1>1 DEF NoDoubleRunBeforeStale, InHandler
<1>. QED BY <1>2, <1>3, <1>4, <1>5, <1>6

LEMMA NextFence == FenceInv /\ [Next]_vars => FenceInv'
<1> SUFFICES ASSUME FenceInv, [Next]_vars PROVE FenceInv'
  OBVIOUS
<1>1. TypeOK /\ TypeOK'
  BY NextType DEF FenceInv
<1>. QED
  BY <1>1, NextEffect, ClaimKeepsFence, SettleKeepsFence, OtherKeepsFence

LEMMA FenceInvHolds == Spec => []FenceInv
  BY InitFence, NextFence, PTL DEF Spec

\* The fencing token (status, attempts, claimed_at) names one claim: of all
\* executions in a handler, exactly the latest claimant of a running row can
\* write its outcome, with any number of processes, workers and rows.
THEOREM FenceCorrect == Spec => []FenceNamesLatestClaim
<1>1. FenceInv => FenceNamesLatestClaim
  <2> SUFFICES ASSUME FenceInv, NEW c \in claims, InHandler(c),
                      jobs[c.job].status = "running"
               PROVE  Fenced(c) <=> c.epoch = epoch[c.job]
    BY DEF FenceNamesLatestClaim, InHandler
  <2>1. c.epoch = epoch[c.job] => Fenced(c)
    BY DEF FenceInv, LatestOwns, Fenced
  <2>. QED BY <2>1, FencedIsLatest
<1>. QED BY <1>1, FenceInvHolds, PTL

\* A job is in the handlers of two executions at once only after the earlier
\* one outlived its claim, however polls and deliveries interleave.
THEOREM SingleRunCorrect == Spec => []NoDoubleRunBeforeStale
<1>1. FenceInv => NoDoubleRunBeforeStale
  BY DEF FenceInv
<1>. QED BY <1>1, FenceInvHolds, PTL
=============================================================================
