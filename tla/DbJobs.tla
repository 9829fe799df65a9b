------------------------------- MODULE DbJobs -------------------------------
(***************************************************************************)
(* The durable job queue of the backend: public.db_jobs, the SQL functions *)
(* that claim and cancel its rows, the runner that executes a claimed row  *)
(* and writes its outcome back, and the BullMQ queue that hands row ids to *)
(* workers when Redis is configured.                                       *)
(*                                                                         *)
(* Pollers are backend processes: one tick of a poller claims a batch of   *)
(* rows and runs all of them, and the next tick starts only when they are  *)
(* through.  Workers are the concurrency slots of the BullMQ app-jobs      *)
(* worker: each claims the one row its delivery names.  Both run a claimed *)
(* row through processClaimedJob, so a claim is the same record for both.  *)
(*                                                                         *)
(* Time is a logical clock.  It advances only while a row waits for it.    *)
(* What the handlers do to the rest of the system is left to the modules   *)
(* that model them; here a handler succeeds, throws, asks to be deferred,  *)
(* outlives its claim, or dies with its process.                           *)
(***************************************************************************)
EXTENDS Integers, FiniteSets

CONSTANTS
  Job,            \* ids of rows, inserted or not yet inserted
  Kind,           \* Kind[j]: the kind of row j
  MaxAttempts,    \* MaxAttempts[j]: max_attempts of row j
  DedupeKey,      \* DedupeKey[j]: the dedupe_key j is inserted with, or NoKey
  NoKey,
  Poller,         \* backend processes that poll
  Worker,         \* slots of BullMQ workers; empty with the postgres driver
  ClaimBatch,     \* CLAIM_BATCH: rows claimed by one tick
  StaleAfter,     \* STALE_SECONDS: age at which a claim is presumed crashed
  BaseDelay,      \* first retry delay
  MaxDelay,       \* cap of the retry delay
  DelayChoices,   \* how far ahead an enqueue or a deferral sets run_at
  IntMax,         \* 2147483647, the largest value of an integer column
  QuietBy,        \* bound: a conversation has its last turn, or is deleted, by then
  MaxClaims       \* bound: the claim of row j with number MaxClaims[j] neither fails nor stalls

Key == {DedupeKey[j] : j \in Job} \ {NoKey}
Runner == Poller \cup Worker

\* Kinds that the runner, the claim functions and the sweeps tell apart.
RETRY_UNTIL_SUCCESS_KINDS == {"storage.cleanup"}
DB_JOB_FAILURE_HOOKS == {"conversion.convert", "extraction.extract", "memory.consolidate"}
DeferringKinds == {"memory.consolidate"}
DB_JOB_HANDLERS == {"audit.chat_turn", "account.delete", "storage.cleanup",
                    "export.build", "conversion.convert", "extraction.extract",
                    "mcp.refresh_token", "document.precompute_text",
                    "memory.consolidate"}

\* Kinds whose payload names the user that account deletion erases.
ErasableKinds == {"audit.chat_turn", "export.build", "memory.consolidate",
                  "extraction.extract", "conversion.convert"}

ASSUME ConstantsAssumption ==
  /\ MaxAttempts \in [Job -> Nat \ {0}]
  /\ \A j \in Job : MaxAttempts[j] <= IntMax
  /\ StaleAfter \in Nat
  /\ BaseDelay \in Nat
  /\ MaxDelay \in Nat
  /\ DelayChoices \subseteq Nat
  /\ IntMax \in Nat
  /\ QuietBy \in Nat
  /\ MaxClaims \in [Job -> Nat]
  /\ Poller \cap Worker = {}

\* A dedupe key names its kind of work, so rows of two kinds never share one.
ASSUME KeysByKindAssumption ==
  \A j, k \in Job : DedupeKey[j] = DedupeKey[k] /\ DedupeKey[j] # NoKey => Kind[j] = Kind[k]

VARIABLES
  jobs,         \* jobs[j]: the row of public.db_jobs with id j
  claims,       \* executions of processClaimedJob in progress
  deliveries,   \* BullMQ jobs of the app-jobs queue
  now,          \* the database clock
  epoch,        \* history: how often each row has been claimed
  deferrals,    \* history: how often each row has been deferred
  hooked        \* history: rows whose failure hook has run

vars == <<jobs, claims, deliveries, now, epoch, deferrals, hooked>>

Redis == Worker # {}

\* "absent": not inserted yet.  "deleted": gone; a uuid is never reused.
Status == {"absent", "pending", "running", "done", "failed", "deleted"}
LiveStatus == {"pending", "running"}
Polled == -1    \* the delivery of a claim made by a poller

Row == [status : Status, attempts : Nat, runAt : Nat, claimedAt : Nat,
        key : Key \cup {NoKey}, canceled : BOOLEAN]
Claim == [runner : Runner, job : Job, attempts : Nat, claimedAt : Nat,
          epoch : Nat, delivery : Int, phase : {"handling", "hook", "redeliver"}]
Delivery == [job : Job, attempt : Nat, state : {"waiting", "active"}]

TypeOK ==
  /\ jobs \in [Job -> Row]
  /\ claims \subseteq Claim
  /\ deliveries \subseteq Delivery
  /\ now \in Nat
  /\ epoch \in [Job -> Nat]
  /\ deferrals \in [Job -> Nat]
  /\ hooked \subseteq Job

---------------------------------------------------------------------------
(* Helpers *)

\* Whether the environment may still fail, stall or crash a claim of row j.
Slack(j) == epoch[j] < MaxClaims[j]

RetryUntilSuccess(j) == Kind[j] \in RETRY_UNTIL_SUCCESS_KINDS

\* Mutant: the budget is off by one.
SpentOffByOne(j, attempts) == attempts > MaxAttempts[j] /\ ~RetryUntilSuccess(j)

\* No attempt is left after this one.
Spent(j, attempts) == attempts >= MaxAttempts[j] /\ ~RetryUntilSuccess(j)

Live(j) == jobs[j].status \in LiveStatus

\* claimed_at < now() - make_interval(secs => p_stale_seconds)
Stale(j) == jobs[j].claimedAt < now - StaleAfter

\* Mutants: a running row needs no age; a crashed row is never recovered; a
\* failed cleanup row is left alone.
ClaimableWhileRunning(j) ==
  \/ jobs[j].status = "pending" /\ jobs[j].runAt <= now
  \/ jobs[j].status = "failed" /\ RetryUntilSuccess(j)
  \/ jobs[j].status = "running" /\ ~Spent(j, jobs[j].attempts)

ClaimableNoRecovery(j) ==
  \/ jobs[j].status = "pending" /\ jobs[j].runAt <= now
  \/ jobs[j].status = "failed" /\ RetryUntilSuccess(j)

ClaimableNoRevival(j) ==
  \/ jobs[j].status = "pending" /\ jobs[j].runAt <= now
  \/ jobs[j].status = "running" /\ Stale(j) /\ ~Spent(j, jobs[j].attempts)

\* The predicate both claim functions put on a row.
Claimable(j) ==
  \/ jobs[j].status = "pending" /\ jobs[j].runAt <= now
  \/ jobs[j].status = "failed" /\ RetryUntilSuccess(j)
  \/ /\ jobs[j].status = "running"
     /\ Stale(j)
     /\ ~Spent(j, jobs[j].attempts)

\* Rows the batch claim fails terminally: crashed with nothing left to spend.
Abandoned(j) ==
  /\ jobs[j].status = "running"
  /\ Stale(j)
  /\ Spent(j, jobs[j].attempts)

\* Mutant: reviving a failed cleanup row keeps its key.
ClaimedRowKeepsKey(j) ==
  [jobs[j] EXCEPT
     !.status = "running",
     !.claimedAt = now,
     !.attempts = IF RetryUntilSuccess(j) /\ @ >= IntMax THEN IntMax ELSE @ + 1]

\* The row as a claim leaves it.
ClaimedRow(j) ==
  [jobs[j] EXCEPT
     !.status = "running",
     !.claimedAt = now,
     !.attempts = IF RetryUntilSuccess(j) /\ @ >= IntMax THEN IntMax ELSE @ + 1,
     !.key = IF jobs[j].status = "failed" /\ RetryUntilSuccess(j) THEN NoKey ELSE @]

\* The row the claim returns to runner r, which runs it.
ClaimBy(r, j, delivery) ==
  [runner |-> r, job |-> j, attempts |-> ClaimedRow(j).attempts, claimedAt |-> now,
   epoch |-> epoch[j] + 1, delivery |-> delivery, phase |-> "handling"]

\* min(30s * 3^(attempts - 1), 30min)
retryDelay(attempts) ==
  LET base == BaseDelay * 3 ^ (IF attempts > 0 THEN attempts - 1 ELSE 0)
  IN  IF base \in 0..MaxDelay THEN base ELSE MaxDelay

\* Mutants: the token without claimed_at, and without the status.
FencedByAttempts(c) ==
  /\ jobs[c.job].status = "running"
  /\ jobs[c.job].attempts = c.attempts

FencedAnyStatus(c) ==
  /\ jobs[c.job].attempts = c.attempts
  /\ jobs[c.job].claimedAt = c.claimedAt

\* The fencing token: the row is still as this claim left it.
Fenced(c) ==
  /\ jobs[c.job].status = "running"
  /\ jobs[c.job].attempts = c.attempts
  /\ jobs[c.job].claimedAt = c.claimedAt

\* A fenced UPDATE: it changes the row, or matches none.  A write whose
\* response is an error is not looked at, so it may also not land.
FencedUpdate(c, row) ==
  \E landed \in BOOLEAN :
    /\ landed \/ Slack(c.job)
    /\ jobs' = IF landed /\ Fenced(c) THEN [jobs EXCEPT ![c.job] = row] ELSE jobs

\* queue.add with a jobId: a no-op while a job with that id exists.
Deliveries(j, attempt) ==
  IF \E d \in deliveries : d.job = j /\ d.attempt = attempt
  THEN deliveries
  ELSE deliveries \cup {[job |-> j, attempt |-> attempt, state |-> "waiting"]}

\* The BullMQ job of a claim ends with it (removeOnComplete, removeOnFail).
DeliveriesAfter(c, D) ==
  {d \in D : ~(d.job = c.job /\ d.attempt = c.delivery /\ d.state = "active")}

---------------------------------------------------------------------------
(* Producers *)

\* enqueueDbJob.  With a live row under its key the insert is a unique
\* violation, which the caller takes for success and which changes nothing.
enqueueDbJob(j) ==
  /\ jobs[j].status = "absent"
  /\ DedupeKey[j] = NoKey \/ ~\E k \in Job : Live(k) /\ jobs[k].key = DedupeKey[j]
  /\ \E delay \in DelayChoices :
       jobs' = [jobs EXCEPT ![j].status = "pending", ![j].runAt = now + delay]
  /\ \E delivered \in {FALSE, Redis} :
       deliveries' = IF delivered THEN Deliveries(j, 0) ELSE deliveries
  /\ UNCHANGED <<claims, now, epoch, deferrals, hooked>>

\* cancel_db_jobs for one key: pending rows go, running rows are marked.  Only
\* clear-cells calls it, with the keys of extraction jobs.
cancel_db_jobs(key) ==
  /\ \E j \in Job : DedupeKey[j] = key /\ Kind[j] = "extraction.extract"
  /\ \E j \in Job : Live(j) /\ jobs[j].key = key
  /\ jobs' = [j \in Job |->
                IF jobs[j].key # key THEN jobs[j]
                ELSE IF jobs[j].status = "pending" THEN [jobs[j] EXCEPT !.status = "deleted"]
                ELSE IF jobs[j].status = "running" THEN [jobs[j] EXCEPT !.canceled = TRUE]
                ELSE jobs[j]]
  /\ UNCHANGED <<claims, deliveries, now, epoch, deferrals, hooked>>

\* Turns of a conversation, while they stream and when they end, push the
\* conversation's pending consolidation back; once it is deleted there are no
\* more turns, and the consolidation is due at once.
rescheduleConsolidation(j) ==
  /\ Kind[j] = "memory.consolidate"
  /\ jobs[j].status = "pending"
  /\ \E runAt \in {now} \cup (now + 1)..QuietBy :
       /\ IF runAt = now THEN QuietBy <= now /\ jobs[j].runAt > now
                         ELSE jobs[j].runAt < runAt
       /\ jobs' = [jobs EXCEPT ![j].runAt = runAt]
  /\ UNCHANGED <<claims, deliveries, now, epoch, deferrals, hooked>>

---------------------------------------------------------------------------
(* Claiming *)

\* ORDER BY run_at LIMIT p_limit over the claimable rows.
Batch(S) ==
  LET candidates == {j \in Job : Claimable(j)} IN
  /\ S \subseteq candidates
  /\ \/ S = candidates /\ Cardinality(S) <= ClaimBatch
     \/ Cardinality(S) = ClaimBatch
  /\ \A j \in S, k \in candidates \ S : jobs[j].runAt <= jobs[k].runAt

\* runDbJobTick up to the start of the handlers: claim_db_jobs fails the
\* abandoned rows and claims a batch.  A tick never overlaps the last one.
claim_db_jobs(p) ==
  /\ \A c \in claims : c.runner # p
  /\ \E S \in SUBSET Job :
       /\ Batch(S)
       /\ S # {} \/ \E j \in Job : Abandoned(j)
       /\ jobs' = [j \in Job |->
                     IF j \in S THEN ClaimedRow(j)
                     ELSE IF Abandoned(j) THEN [jobs[j] EXCEPT !.status = "failed"]
                     ELSE jobs[j]]
       /\ claims' = claims \cup {ClaimBy(p, j, Polled) : j \in S}
       /\ epoch' = [j \in Job |-> IF j \in S THEN epoch[j] + 1 ELSE epoch[j]]
  /\ UNCHANGED <<deliveries, now, deferrals, hooked>>

\* runAppJobDelivery: claim the row the delivery names, or find it taken,
\* finished, gone or not due and let the delivery go.
claim_db_job(w, d) ==
  /\ d.state = "waiting"
  /\ \A c \in claims : c.runner # w
  /\ \/ /\ Claimable(d.job)
        /\ jobs' = [jobs EXCEPT ![d.job] = ClaimedRow(d.job)]
        /\ claims' = claims \cup {ClaimBy(w, d.job, d.attempt)}
        /\ epoch' = [epoch EXCEPT ![d.job] = @ + 1]
        /\ deliveries' = (deliveries \ {d}) \cup {[d EXCEPT !.state = "active"]}
     \/ /\ ~Claimable(d.job)
        /\ deliveries' = deliveries \ {d}
        /\ UNCHANGED <<jobs, claims, epoch>>
  /\ UNCHANGED <<now, deferrals, hooked>>

---------------------------------------------------------------------------
(* processClaimedJob: the handler's outcome and the fenced write of it *)

\* The execution of c is over.
Ends(c) ==
  /\ claims' = claims \ {c}
  /\ deliveries' = DeliveriesAfter(c, deliveries)

\* The execution of c goes on with its hook or its redelivery.
GoesOn(c, phase) ==
  /\ claims' = (claims \ {c}) \cup {[c EXCEPT !.phase = phase]}
  /\ UNCHANGED deliveries

HasHandler(c) == Kind[c.job] \in DB_JOB_HANDLERS

\* No handler of this kind in this build: terminal at once.
unknownKind(c) ==
  /\ ~HasHandler(c)
  /\ ~RetryUntilSuccess(c.job)
  /\ FencedUpdate(c, [jobs[c.job] EXCEPT !.status = "failed"])
  /\ Ends(c)
  /\ UNCHANGED <<now, epoch, deferrals, hooked>>

\* The handler resolves.
handlerResolves(c) ==
  /\ HasHandler(c)
  /\ FencedUpdate(c, [jobs[c.job] EXCEPT !.status = "done"])
  /\ Ends(c)
  /\ UNCHANGED <<now, epoch, deferrals, hooked>>

\* The handler throws with its budget spent: the row fails, and then the
\* kind's failure hook runs whether or not the write matched the row.
handlerThrowsSpent(c) ==
  /\ HasHandler(c)
  /\ Spent(c.job, c.attempts)
  /\ FencedUpdate(c, [jobs[c.job] EXCEPT !.status = "failed"])
  /\ IF Kind[c.job] \in DB_JOB_FAILURE_HOOKS THEN GoesOn(c, "hook") ELSE Ends(c)
  /\ UNCHANGED <<now, epoch, deferrals, hooked>>

\* Mutant: the failure hook runs on every throw.
AgainWithHook(c, row) ==
  /\ FencedUpdate(c, row)
  /\ IF Kind[c.job] \in DB_JOB_FAILURE_HOOKS THEN GoesOn(c, "hook") ELSE Ends(c)

\* The row goes back to pending; with Redis a delayed delivery follows.
Again(c, row) ==
  /\ FencedUpdate(c, row)
  /\ IF Redis THEN GoesOn(c, "redeliver") ELSE Ends(c)

\* The handler throws with budget left.  A cleanup row without a handler, in
\* a rolling deploy, counts as a throw.
handlerThrows(c) ==
  /\ HasHandler(c) \/ RetryUntilSuccess(c.job)
  /\ ~Spent(c.job, c.attempts)
  /\ Slack(c.job)
  /\ Again(c, [jobs[c.job] EXCEPT !.status = "pending",
                                  !.runAt = now + retryDelay(c.attempts)])
  /\ UNCHANGED <<now, epoch, deferrals, hooked>>

\* Mutant: a deferral gives back two attempts.
handlerDefersTwice(c) ==
  /\ HasHandler(c)
  /\ Kind[c.job] \in DeferringKinds
  /\ Slack(c.job)
  /\ \E delay \in DelayChoices :
       Again(c, [jobs[c.job] EXCEPT !.status = "pending",
                                    !.runAt = now + delay,
                                    !.attempts = c.attempts - 2])
  /\ deferrals' = IF jobs' # jobs THEN [deferrals EXCEPT ![c.job] = @ + 1] ELSE deferrals
  /\ UNCHANGED <<now, epoch, hooked>>

\* The handler throws DbJobDeferredError: the attempt is given back.
handlerDefers(c) ==
  /\ HasHandler(c)
  /\ Kind[c.job] \in DeferringKinds
  /\ Slack(c.job)
  /\ \E delay \in DelayChoices :
       Again(c, [jobs[c.job] EXCEPT !.status = "pending",
                                    !.runAt = now + delay,
                                    !.attempts = IF c.attempts > 0 THEN c.attempts - 1 ELSE 0])
  /\ deferrals' = IF jobs' # jobs THEN [deferrals EXCEPT ![c.job] = @ + 1] ELSE deferrals
  /\ UNCHANGED <<now, epoch, hooked>>

\* The failure hook of a spent claim; its errors are contained.
runFailureHook(c) ==
  /\ c.phase = "hook"
  /\ hooked' = hooked \cup {c.job}
  /\ Ends(c)
  /\ UNCHANGED <<jobs, now, epoch, deferrals>>

\* enqueueAppJobDelivery of a retry, best effort.
redeliver(c) ==
  /\ c.phase = "redeliver"
  /\ \E delivered \in BOOLEAN :
       deliveries' = DeliveriesAfter(c, IF delivered THEN Deliveries(c.job, c.attempts)
                                        ELSE deliveries)
  /\ claims' = claims \ {c}
  /\ UNCHANGED <<jobs, now, epoch, deferrals, hooked>>

processClaimedJob(c) ==
  \/ /\ c.phase = "handling"
     /\ \/ unknownKind(c)
        \/ handlerResolves(c)
        \/ handlerThrowsSpent(c)
        \/ handlerThrows(c)
        \/ handlerDefers(c)
  \/ runFailureHook(c)
  \/ redeliver(c)

---------------------------------------------------------------------------
(* Sweeps, crashes, Redis and time *)

\* Mutant: the sweep of failed rows takes cleanup rows too.
retentionSweepAllKinds(j) ==
  /\ jobs[j].status \in {"done", "failed"}
  /\ jobs' = [jobs EXCEPT ![j].status = "deleted"]
  /\ UNCHANGED <<claims, deliveries, now, epoch, deferrals, hooked>>

\* runDbJobRetentionSweep on one row.  Retention is days, a claim is minutes:
\* the age test is left out, so a finished row may go at any time.
retentionSweep(j) ==
  /\ \/ jobs[j].status = "done"
     \/ jobs[j].status = "failed" /\ ~RetryUntilSuccess(j)
  /\ jobs' = [jobs EXCEPT ![j].status = "deleted"]
  /\ UNCHANGED <<claims, deliveries, now, epoch, deferrals, hooked>>

\* handleAccountDelete purges the queue rows that name the erased user, in
\* whatever state they are.
eraseUserRows ==
  /\ \E j \in Job : Kind[j] \in ErasableKinds /\ jobs[j].status \notin {"absent", "deleted"}
  /\ jobs' = [j \in Job |->
                IF Kind[j] \in ErasableKinds /\ jobs[j].status # "absent"
                THEN [jobs[j] EXCEPT !.status = "deleted"] ELSE jobs[j]]
  /\ UNCHANGED <<claims, deliveries, now, epoch, deferrals, hooked>>

\* A process dies: its executions are gone, the rows they claimed stay running.
Crash(r) ==
  /\ \E c \in claims : c.runner = r
  /\ \A c \in claims : c.runner = r => Slack(c.job)
  /\ claims' = {c \in claims : c.runner # r}
  /\ UNCHANGED <<jobs, deliveries, now, epoch, deferrals, hooked>>

\* Redis loses a delivery, or takes an active one for stalled and offers it again.
DeliveryLost(d) ==
  /\ deliveries' = deliveries \ {d}
  /\ UNCHANGED <<jobs, claims, now, epoch, deferrals, hooked>>

DeliveryStalls(d) ==
  /\ d.state = "active"
  /\ deliveries' = (deliveries \ {d}) \cup {[d EXCEPT !.state = "waiting"]}
  /\ UNCHANGED <<jobs, claims, now, epoch, deferrals, hooked>>

\* The clock advances while a row waits for its run_at or to become stale.
\* A row's last permitted claim never becomes stale if that would claim it again.
Tick ==
  /\ \E j \in Job : \/ jobs[j].status = "pending" /\ jobs[j].runAt > now
                    \/ jobs[j].status = "running" /\ ~Stale(j)
  /\ \A j \in Job : jobs[j].status = "running" =>
       Slack(j) \/ Spent(j, jobs[j].attempts)
                \/ now < jobs[j].claimedAt + StaleAfter
  /\ now' = now + 1
  /\ UNCHANGED <<jobs, claims, deliveries, epoch, deferrals, hooked>>

---------------------------------------------------------------------------

\* Rows are inserted by the running system, except cleanup rows that an earlier
\* release left failed: that release gave them a finite budget.
Init ==
  /\ \E legacy \in SUBSET {j \in Job : RetryUntilSuccess(j)} :
       jobs = [j \in Job |->
                 [status |-> IF j \in legacy THEN "failed" ELSE "absent",
                  attempts |-> IF j \in legacy THEN MaxAttempts[j] ELSE 0,
                  runAt |-> 0, claimedAt |-> 0, key |-> DedupeKey[j], canceled |-> FALSE]]
  /\ claims = {}
  /\ deliveries = {}
  /\ now = 0
  /\ epoch = [j \in Job |-> 0]
  /\ deferrals = [j \in Job |-> 0]
  /\ hooked = {}

\* All that happens to rows that are there.
Works ==
  \/ \E k \in Key : cancel_db_jobs(k)
  \/ \E j \in Job : rescheduleConsolidation(j)
  \/ \E p \in Poller : claim_db_jobs(p)
  \/ \E w \in Worker, d \in deliveries : claim_db_job(w, d)
  \/ \E c \in claims : processClaimedJob(c)
  \/ \E j \in Job : retentionSweep(j)
  \/ eraseUserRows
  \/ \E r \in Runner : Crash(r)
  \/ \E d \in deliveries : DeliveryLost(d) \/ DeliveryStalls(d)
  \/ Tick

Next == (\E j \in Job : enqueueDbJob(j)) \/ Works

Spec == Init /\ [][Next]_vars

\* Pollers keep polling (setInterval, restarted processes), handlers end, and
\* the clock runs.  Nothing is asked of Redis: its workers may never claim.
Fairness ==
  /\ \A p \in Poller : WF_vars(claim_db_jobs(p))
  /\ \A r \in Runner : WF_vars(\E c \in claims : c.runner = r /\ processClaimedJob(c))
  /\ WF_vars(Tick)

FairSpec == Spec /\ Fairness

---------------------------------------------------------------------------
(* Properties *)

\* The queue keeps the ledger's promise: the fence implements "only the latest
\* term reports", by refinement.  A claim is a term of its row.
LedgerPhase ==
  [absent |-> "none", pending |-> "waiting", running |-> "held",
   done |-> "done", failed |-> "failed", deleted |-> "gone"]

Ledger == INSTANCE JobLedger WITH
  Renewable <- {j \in Job : RetryUntilSuccess(j)},
  phase <- [j \in Job |-> LedgerPhase[jobs[j].status]],
  term <- epoch,
  out <- [j \in Job |-> {c.epoch : c \in {d \in claims : d.job = j /\ d.phase = "handling"}}]

\* Every behaviour of the queue is one of the ledger: an outcome is recorded
\* only for the latest claim of a running row, and rows that must succeed are
\* neither given up nor dropped.
ImplementsLedger == Ledger!LedgerSpec

\* The fencing token (status, attempts, claimed_at) names one claim: of all
\* executions still in a handler, exactly the latest claimant of a running
\* row can write its outcome.  A zombie that wakes up after its row was
\* reclaimed matches nothing, and the current claimant is never locked out.
FenceNamesLatestClaim ==
  \A c \in claims :
    c.phase = "handling" /\ jobs[c.job].status = "running" =>
      (Fenced(c) <=> c.epoch = epoch[c.job])

\* Two executions are in the handler of one row only after the earlier claim
\* went stale: polls, deliveries and redeliveries racing each other never
\* run a healthy job twice.
NoDoubleRunBeforeStale ==
  \A c, d \in claims :
    /\ c.job = d.job
    /\ c.phase = "handling" /\ d.phase = "handling"
    /\ c.epoch < d.epoch
    => c.claimedAt + StaleAfter < d.claimedAt

\* At most one live row per dedupe key, so no claim ever runs into the unique
\* index: not when a retry goes back to pending, and not when a failed cleanup
\* row of an earlier release is revived beside a newer row with its key.
LiveKeyUnique ==
  \A j, k \in Job :
    j # k /\ Live(j) /\ Live(k) /\ jobs[j].key # NoKey => jobs[j].key # jobs[k].key

\* A job that keeps killing its worker is not redelivered forever: a row is
\* claimed at most max_attempts times, and once more for each time a claimant
\* deferred it, whatever zombies write back and whichever claim path is used.
BudgetBoundsClaims ==
  \A j \in Job :
    ~RetryUntilSuccess(j) => epoch[j] <= MaxAttempts[j] + deferrals[j]

\* A failure hook flips domain state ("error"), so it runs only for a row that
\* failed for good: never for one that is pending, done or claimed again.  The
\* one exception is a running row whose failed write did not land.
HookOnlyForSpentRows ==
  \A c \in claims :
    c.phase = "hook" =>
      \/ jobs[c.job].status \in {"failed", "deleted"}
      \/ jobs[c.job].status = "running" /\ c.epoch = epoch[c.job]

\* A cleanup row is the last durable pointer to its objects: whatever fails
\* and whoever sweeps, it leaves the table only once a claimant has done it.
CleanupNeverLost ==
  [][\A j \in Job : RetryUntilSuccess(j) /\ jobs'[j].status = "deleted" =>
       jobs[j].status \in {"done", "deleted"}]_vars

\* Finished means finished: no late outcome of a zombie, no redelivery and no
\* sweep brings a done row back, or a failed one other than a cleanup row.
TerminalIsFinal ==
  [][\A j \in Job :
       (jobs[j].status = "done" \/ (jobs[j].status = "failed" /\ ~RetryUntilSuccess(j)))
       => jobs'[j].status \in {jobs[j].status, "deleted"}]_vars

\* Every accepted job ends, with workers dying, deliveries lost, outcome
\* writes lost and handlers outliving their claims on the way.
EveryJobSettles ==
  \A j \in Job : Live(j) ~> ~Live(j)

\* Cleanup, in particular, ends in success, also when it starts as a row an
\* earlier release gave up on.
CleanupCompletes ==
  \A j \in Job : RetryUntilSuccess(j) /\ (Live(j) \/ jobs[j].status = "failed")
                  ~> jobs[j].status \in {"done", "deleted"}
=============================================================================
