------------------------- MODULE DbJobsLedgerProofs -------------------------
(***************************************************************************)
(* What the fence buys, for every instance of DbJobs: the attempt budget   *)
(* bounds how often a row is claimed, no two live rows share a key, a      *)
(* failure hook runs only for a row that failed for good, finished rows    *)
(* stay finished, cleanup rows stay until they are done, and the queue     *)
(* implements the ledger of JobLedger.                                     *)
(*                                                                         *)
(* The budget.  attempts counts the claims of a row, and a deferral,       *)
(* the only write that lowers it, lowers it by one.  That write lands only *)
(* under the token of the latest claim, so it gives back exactly the       *)
(* attempt of that claim: attempts + deferrals = number of claims.  A row  *)
(* is pending, or claimed after a crash, only with an attempt to spend.    *)
(*                                                                         *)
(* The hooks.  An execution that was overtaken had budget left, or its row *)
(* could not have been claimed again, so one that throws with the budget   *)
(* spent is the latest claim of its row and nobody claims the row after it.*)
(*                                                                         *)
(* The ledger.  The terms out for a row are the claims in its handlers.    *)
(* ClaimedOnce makes the end of one of them the end of one term, and only  *)
(* the fence lets it move the row.                                         *)
(***************************************************************************)
EXTENDS DbJobsFenceProofs

---------------------------------------------------------------------------
(* The budget *)

\* The row of a job with a finite budget accounts for each of its claims.
Accounted(j) ==
  /\ jobs[j].attempts + deferrals[j] = epoch[j]
  /\ jobs[j].attempts <= MaxAttempts[j]
  /\ jobs[j].status \in {"absent", "pending"} => jobs[j].attempts < MaxAttempts[j]

BudgetInv ==
  /\ TypeOK
  /\ \A j \in Job : ~RetryUntilSuccess(j) => Accounted(j)
  /\ \A c \in claims : ~RetryUntilSuccess(c.job) => c.attempts >= 1

LEMMA BudgetTypes ==
  ASSUME TypeOK, NEW j \in Job
  PROVE  /\ jobs[j].attempts \in Nat /\ deferrals[j] \in Nat /\ epoch[j] \in Nat
         /\ MaxAttempts[j] \in Nat /\ MaxAttempts[j] >= 1
BY ConstantsAssumption DEF ConstantsAssumption, TypeOK, Row

LEMMA InitBudget == Init => BudgetInv
<1> SUFFICES ASSUME Init PROVE BudgetInv
  OBVIOUS
<1>1. TypeOK /\ claims = {}
  BY InitType DEF Init
<1>2. ASSUME NEW j \in Job, ~RetryUntilSuccess(j) PROVE Accounted(j)
  <2>1. jobs[j].attempts = 0 /\ deferrals[j] = 0 /\ epoch[j] = 0
    BY <1>2 DEF Init
  <2>. QED BY <1>1, <2>1, BudgetTypes DEF Accounted
<1>. QED BY <1>1, <1>2 DEF BudgetInv

LEMMA ClaimKeepsBudget ==
  ASSUME BudgetInv, TypeOK', NEW S \in SUBSET Job, NEW r \in Runner, NEW delivery \in Int,
         ClaimEffect(S, r, delivery)
  PROVE  BudgetInv'
<1> USE DEF BudgetInv
<1>1. deferrals' = deferrals
  BY DEF ClaimEffect
<1>2. ASSUME NEW j \in Job, ~RetryUntilSuccess(j) PROVE Accounted(j)'
  <2>1. CASE j \in S
    <3>1. Claimable(j)
      BY <2>1 DEF ClaimEffect
    <3>2. jobs[j].attempts < MaxAttempts[j]
      BY <1>2, <3>1, BudgetTypes DEF Claimable, Spent, Accounted
    <3>3. /\ jobs'[j].status = "running"
          /\ jobs'[j].attempts = jobs[j].attempts + 1
          /\ epoch'[j] = epoch[j] + 1
      BY <1>2, <2>1, ClaimRowFacts DEF ClaimEffect
    <3>. QED BY <1>1, <1>2, <3>2, <3>3, BudgetTypes DEF Accounted
  <2>2. CASE j \notin S
    <3>1. /\ epoch'[j] = epoch[j]
          /\ jobs'[j].attempts = jobs[j].attempts
          /\ jobs'[j].status \in {jobs[j].status, "failed"}
      <4>1. LET new == [jobs[j] EXCEPT !.status = "failed"] IN
              new.status = "failed" /\ new.attempts = jobs[j].attempts
        BY DEF TypeOK, Row
      <4>. QED BY <2>2, <4>1 DEF ClaimEffect
    <3>. QED BY <1>1, <1>2, <3>1 DEF Accounted
  <2>. QED BY <2>1, <2>2
<1>3. ASSUME NEW c \in claims', ~RetryUntilSuccess(c.job) PROVE c.attempts >= 1
  <2>1. CASE c \in claims
    BY <1>3, <2>1
  <2>2. CASE c \notin claims
    <3>1. PICK j \in S : c = ClaimBy(r, j, delivery)
      BY <2>2 DEF ClaimEffect
    <3>2. c.job = j /\ c.attempts = ClaimedRow(j).attempts
      BY <3>1 DEF ClaimBy
    <3>. QED BY <1>3, <3>2, ClaimRowFacts, BudgetTypes
  <2>. QED BY <2>1, <2>2
<1>. QED BY <1>2, <1>3 DEF RetryUntilSuccess

\* An outcome that lands is that of the latest claim, whose attempts are the
\* row's: a deferral gives back one of them and counts itself.
LEMMA SettleKeepsBudget ==
  ASSUME BudgetInv, TypeOK', NEW c \in claims, SettleEffect(c)
  PROVE  BudgetInv'
<1> USE DEF BudgetInv
<1>1. epoch' = epoch
  BY DEF SettleEffect
<1>2. ASSUME NEW j \in Job, ~RetryUntilSuccess(j) PROVE Accounted(j)'
  <2>1. CASE jobs' = jobs /\ deferrals' = deferrals
    BY <1>1, <1>2, <2>1 DEF Accounted
  <2>2. CASE ~(jobs' = jobs /\ deferrals' = deferrals)
    <3>1. PICK row \in Row : /\ Fenced(c)
                             /\ jobs' = [jobs EXCEPT ![c.job] = row]
                             /\ Outcome(c, row)
      BY <2>2 DEF SettleEffect
    <3>2. CASE j # c.job
      <4>1. jobs'[j] = jobs[j] /\ deferrals'[j] = deferrals[j]
        BY <3>1, <3>2 DEF Outcome, TypeOK
      <4>. QED BY <1>1, <1>2, <4>1 DEF Accounted
    <3>3. CASE j = c.job
      <4>1. c.attempts = jobs[j].attempts /\ c.attempts >= 1 /\ c.attempts \in Nat
        BY <1>2, <3>1, <3>3, ClaimFields DEF Fenced
      <4>2. jobs'[j] = row /\ row.status # "absent"
        BY <3>1, <3>3 DEF Outcome, TypeOK
      <4>3. CASE deferrals' = deferrals /\ row.attempts = jobs[j].attempts
                 /\ (row.status = "pending" => ~Spent(c.job, c.attempts))
        BY <1>1, <1>2, <3>3, <4>1, <4>2, <4>3, BudgetTypes DEF Accounted, Spent
      <4>4. CASE deferrals' = [deferrals EXCEPT ![c.job] = @ + 1]
                 /\ row.attempts = IF c.attempts > 0 THEN c.attempts - 1 ELSE 0
        <5>1. deferrals'[j] = deferrals[j] + 1 /\ row.attempts = jobs[j].attempts - 1
          BY <3>3, <4>1, <4>4 DEF TypeOK
        <5>. QED BY <1>1, <1>2, <4>2, <5>1, BudgetTypes DEF Accounted
      <4>. QED BY <3>1, <3>3, <4>3, <4>4 DEF Outcome
    <3>. QED BY <3>2, <3>3
  <2>. QED BY <2>1, <2>2
<1>3. ASSUME NEW d \in claims', ~RetryUntilSuccess(d.job) PROVE d.attempts >= 1
  <2>1. PICK phase \in {"hook", "redeliver"} :
          claims' \subseteq (claims \ {c}) \cup {[c EXCEPT !.phase = phase]}
    BY DEF SettleEffect
  <2>2. LET e == [c EXCEPT !.phase = phase] IN e.job = c.job /\ e.attempts = c.attempts
    BY DEF TypeOK, Claim
  <2>. QED BY <1>3, <2>1, <2>2
<1>. QED BY <1>2, <1>3 DEF RetryUntilSuccess

LEMMA OtherKeepsBudget ==
  ASSUME BudgetInv, TypeOK', OtherEffect
  PROVE  BudgetInv'
<1>1. ASSUME NEW j \in Job, ~RetryUntilSuccess(j) PROVE Accounted(j)'
  <2>1. /\ jobs'[j].attempts = jobs[j].attempts
        /\ \/ jobs'[j].status = jobs[j].status
           \/ jobs'[j].status = "deleted"
           \/ jobs[j].status = "absent"
        /\ deferrals' = deferrals /\ epoch' = epoch
    BY DEF OtherEffect, Removed
  <2>. QED BY <1>1, <2>1 DEF BudgetInv, Accounted
<1>. QED BY <1>1 DEF BudgetInv, OtherEffect, RetryUntilSuccess

LEMMA NextBudget == BudgetInv /\ [Next]_vars => BudgetInv'
<1> SUFFICES ASSUME BudgetInv, [Next]_vars PROVE BudgetInv'
  OBVIOUS
<1>1. TypeOK /\ TypeOK'
  BY NextType DEF BudgetInv
<1>. QED
  BY <1>1, NextEffect, ClaimKeepsBudget, SettleKeepsBudget, OtherKeepsBudget

\* A job that keeps killing its worker is not redelivered forever: a row is
\* claimed at most max_attempts times plus once for each time it was deferred.
THEOREM BudgetCorrect == Spec => []BudgetBoundsClaims
<1>1. BudgetInv => BudgetBoundsClaims
  <2> SUFFICES ASSUME BudgetInv, NEW j \in Job, ~RetryUntilSuccess(j)
               PROVE  epoch[j] <= MaxAttempts[j] + deferrals[j]
    BY DEF BudgetBoundsClaims
  <2>. QED BY BudgetTypes DEF BudgetInv, Accounted
<1>2. Spec => []BudgetInv
  BY InitBudget, NextBudget, PTL DEF Spec
<1>. QED BY <1>1, <1>2, PTL

---------------------------------------------------------------------------
(* Keys *)

\* A row has the key it is inserted with, until it loses it for good.
KeyInv ==
  /\ TypeOK
  /\ \A j \in Job :
       /\ jobs[j].key \in {DedupeKey[j], NoKey}
       /\ jobs[j].status = "absent" => jobs[j].key = DedupeKey[j]
  /\ LiveKeyUnique

\* The row after a claim keeps its key, or loses it when it is revived.
LEMMA ClaimedKey ==
  ASSUME TypeOK, NEW j \in Job, Claimable(j)
  PROVE  /\ ClaimedRow(j).key \in {jobs[j].key, NoKey}
         /\ Live(j) \/ ClaimedRow(j).key = NoKey
  BY DEF TypeOK, Row, ClaimedRow, Claimable, Live, LiveStatus

LEMMA InitKeys == Init => KeyInv
<1> SUFFICES ASSUME Init PROVE KeyInv
  OBVIOUS
<1>1. \A j \in Job : jobs[j].key = DedupeKey[j] /\ jobs[j].status \in {"absent", "failed"}
  BY DEF Init
<1>. QED BY <1>1, InitType DEF KeyInv, LiveKeyUnique, Live, LiveStatus

\* A step that brings no row with a key to life leaves live keys unique.
LEMMA QuietKeepsKeys ==
  ASSUME KeyInv, TypeOK',
         \A j \in Job : /\ jobs'[j].key \in {jobs[j].key, NoKey}
                        /\ jobs'[j].status = "absent" =>
                             jobs[j].status = "absent" /\ jobs'[j].key = jobs[j].key
                        /\ Live(j)' => Live(j) \/ jobs'[j].key = NoKey
  PROVE  KeyInv'
  BY DEF KeyInv, LiveKeyUnique

LEMMA NextKeys == KeyInv /\ [Next]_vars => KeyInv'
<1> SUFFICES ASSUME KeyInv, [Next]_vars PROVE KeyInv'
  OBVIOUS
<1>t. TypeOK /\ TypeOK'
  BY NextType DEF KeyInv
<1>1. ASSUME NEW S \in SUBSET Job, NEW r \in Runner, NEW delivery \in Int,
             ClaimEffect(S, r, delivery)
      PROVE  KeyInv'
  <2>1. \A j \in S : /\ jobs'[j].status = "running"
                     /\ jobs'[j].key \in {jobs[j].key, NoKey}
                     /\ Live(j) \/ jobs'[j].key = NoKey
    BY <1>t, <1>1, ClaimRowFacts, ClaimedKey DEF ClaimEffect
  <2>2. \A j \in Job \ S : /\ jobs'[j].key = jobs[j].key
                           /\ jobs'[j].status \in {jobs[j].status, "failed"}
    <3>1. \A j \in Job : LET new == [jobs[j] EXCEPT !.status = "failed"] IN
            new.status = "failed" /\ new.key = jobs[j].key
      BY <1>t DEF TypeOK, Row
    <3>. QED BY <1>1, <3>1 DEF ClaimEffect
  <2>. QED BY <1>t, <2>1, <2>2, QuietKeepsKeys DEF Live, LiveStatus
<1>2. ASSUME NEW c \in claims, SettleEffect(c) PROVE KeyInv'
  <2>1. \A j \in Job :
          \/ jobs'[j] = jobs[j]
          \/ /\ jobs[j].status = "running" /\ jobs'[j].key = jobs[j].key
             /\ jobs'[j].status # "absent"
    BY <1>t, <1>2, ClaimFields DEF SettleEffect, Outcome, Fenced, TypeOK
  <2>. QED BY <1>t, <2>1, QuietKeepsKeys DEF Live, LiveStatus
<1>3. CASE OtherEffect /\ ~\E j \in Job : enqueueDbJob(j)
  <2>1. \A j \in Job : /\ jobs'[j].key = jobs[j].key
                       /\ jobs'[j].status \in {jobs[j].status, "deleted"}
    BY <1>3 DEF OtherEffect, Removed
  <2>. QED BY <1>t, <2>1, QuietKeepsKeys DEF Live, LiveStatus
<1>4. ASSUME NEW i \in Job, enqueueDbJob(i) PROVE KeyInv'
  <2>1. /\ jobs[i].status = "absent"
        /\ DedupeKey[i] = NoKey \/ ~\E k \in Job : Live(k) /\ jobs[k].key = DedupeKey[i]
    BY <1>4 DEF enqueueDbJob
  <2>2. \A j \in Job : /\ jobs'[j].key = jobs[j].key
                       /\ j # i => jobs'[j] = jobs[j]
                       /\ j = i => jobs'[j].status = "pending"
    BY <1>4, <1>t DEF enqueueDbJob, TypeOK, Row
  <2>. QED BY <1>t, <2>1, <2>2 DEF KeyInv, LiveKeyUnique, Live, LiveStatus
<1>. QED BY <1>t, <1>1, <1>2, <1>3, <1>4, NextEffect

LEMMA KeyInvHolds == Spec => []KeyInv
  BY InitKeys, NextKeys, PTL DEF Spec

\* At most one live row per dedupe key, so neither a retry nor the revival of
\* a failed cleanup row ever runs into the unique index.
THEOREM KeysCorrect == Spec => []LiveKeyUnique
<1>1. KeyInv => LiveKeyUnique
  BY DEF KeyInv
<1>. QED BY <1>1, KeyInvHolds, PTL

---------------------------------------------------------------------------
(* Finished rows and cleanup rows *)

\* A finished row, other than a failed cleanup row, is not claimed and matches
\* no token, so whatever the step it stays finished.
LEMMA FinishedStays ==
  ASSUME TypeOK, [Next]_vars, NEW j \in Job,
         jobs[j].status = "done" \/ (jobs[j].status = "failed" /\ ~RetryUntilSuccess(j))
  PROVE  jobs'[j].status \in {jobs[j].status, "deleted"}
<1>1. ASSUME NEW S \in SUBSET Job, NEW r \in Runner, NEW delivery \in Int,
             ClaimEffect(S, r, delivery)
      PROVE  jobs'[j] = jobs[j]
  BY <1>1 DEF ClaimEffect, Claimable, Abandoned
<1>2. ASSUME NEW c \in claims, SettleEffect(c) PROVE jobs'[j] = jobs[j]
  BY <1>2, ClaimFields DEF SettleEffect, Fenced, TypeOK
<1>3. CASE OtherEffect
  BY <1>3 DEF OtherEffect, Removed
<1>. QED BY <1>1, <1>2, <1>3, NextEffect

\* Finished means finished: no late outcome of a zombie, no redelivery and no
\* sweep brings a done row back, or a failed one other than a cleanup row.
THEOREM FinishedCorrect == Spec => TerminalIsFinal
<1>1. TypeOK /\ [Next]_vars =>
        [\A j \in Job :
          (jobs[j].status = "done" \/ (jobs[j].status = "failed" /\ ~RetryUntilSuccess(j)))
          => jobs'[j].status \in {jobs[j].status, "deleted"}]_vars
  BY FinishedStays
<1>. QED BY <1>1, TypeCorrect, PTL DEF Spec, TerminalIsFinal

\* A key of cleanup is never canceled: keys are by kind, and only extraction
\* jobs are canceled.
LEMMA RemovedRows ==
  ASSUME KeyInv, NEW j \in Job, Removed(j)
  PROVE  jobs[j].status = "done" \/ (jobs[j].status # "absent" /\ ~RetryUntilSuccess(j))
<1>1. ASSUME NEW key \in Key, cancel_db_jobs(key), jobs[j].key = key
      PROVE  ~RetryUntilSuccess(j)
  <2>1. PICK k \in Job : DedupeKey[k] = key /\ Kind[k] = "extraction.extract"
    BY <1>1 DEF cancel_db_jobs
  <2>2. key # NoKey /\ DedupeKey[j] = key
    BY <1>1 DEF Key, KeyInv
  <2>3. Kind[j] = "extraction.extract"
    BY <2>1, <2>2, KeysByKindAssumption
  <2>. QED BY <2>3 DEF RetryUntilSuccess, RETRY_UNTIL_SUCCESS_KINDS
<1>. QED BY <1>1 DEF Removed

\* A cleanup row leaves the table only when it is done.
LEMMA CleanupStays ==
  ASSUME KeyInv, [Next]_vars, NEW j \in Job, RetryUntilSuccess(j), jobs'[j].status = "deleted"
  PROVE  jobs[j].status \in {"done", "deleted"}
<1>t. TypeOK
  BY DEF KeyInv
<1>1. ASSUME NEW S \in SUBSET Job, NEW r \in Runner, NEW delivery \in Int,
             ClaimEffect(S, r, delivery)
      PROVE  jobs'[j] = jobs[j]
  <2>1. j \notin S
    BY <1>t, <1>1, ClaimRowFacts DEF ClaimEffect
  <2>. QED BY <1>1, <2>1 DEF ClaimEffect, Abandoned, Spent
<1>2. ASSUME NEW c \in claims, SettleEffect(c) PROVE jobs'[j] = jobs[j]
  BY <1>t, <1>2, ClaimFields DEF SettleEffect, Outcome, TypeOK
<1>3. CASE OtherEffect
  BY <1>3, RemovedRows DEF OtherEffect
<1>. QED BY <1>t, <1>1, <1>2, <1>3, NextEffect

\* A cleanup row is the last durable pointer to its objects: it leaves the
\* table only once a claimant has done it, also when another kind's key is
\* canceled or a user's rows are purged.
THEOREM CleanupCorrect == Spec => CleanupNeverLost
<1>1. KeyInv /\ [Next]_vars =>
        [\A j \in Job : RetryUntilSuccess(j) /\ jobs'[j].status = "deleted" =>
           jobs[j].status \in {"done", "deleted"}]_vars
  BY CleanupStays
<1>. QED BY <1>1, KeyInvHolds, PTL DEF Spec, CleanupNeverLost

---------------------------------------------------------------------------
(* Failure hooks *)

\* A row whose failure hook is due: it failed, or its failure was not written
\* and nobody can claim it.
SpentRow(c) ==
  /\ ~RetryUntilSuccess(c.job)
  /\ \/ jobs[c.job].status \in {"failed", "deleted"}
     \/ /\ jobs[c.job].status = "running"
        /\ c.epoch = epoch[c.job]
        /\ Spent(c.job, jobs[c.job].attempts)

HookInv ==
  /\ FenceInv
  /\ \A c \in claims : InHandler(c) /\ c.epoch < epoch[c.job] => ~Spent(c.job, c.attempts)
  /\ \A c \in claims : c.phase = "hook" => SpentRow(c)

LEMMA InitHook == Init => HookInv
  BY InitFence DEF Init, HookInv

\* A claim takes no row whose hook is due, and overtakes only executions that
\* have budget left.
LEMMA ClaimKeepsHook ==
  ASSUME HookInv, FenceInv', NEW S \in SUBSET Job, NEW r \in Runner, NEW delivery \in Int,
         ClaimEffect(S, r, delivery)
  PROVE  HookInv'
<1>t. /\ TypeOK /\ \A c \in claims : c.job \in Job /\ c.epoch \in Nat /\ epoch[c.job] \in Nat
  BY ClaimFields DEF HookInv, FenceInv
<1>n. ASSUME NEW c \in claims' \ claims
      PROVE  c.phase = "handling" /\ c.job \in S /\ c.epoch = epoch'[c.job]
  BY <1>n DEF ClaimEffect, ClaimBy
<1>m. \A c \in claims' : c.job \in Job /\ epoch'[c.job] \in Nat
  BY DEF FenceInv, TypeOK, Claim
<1>1. ASSUME NEW c \in claims', InHandler(c), c.epoch < epoch'[c.job]
      PROVE  ~Spent(c.job, c.attempts)
  <2>1. c \in claims
    BY <1>1, <1>n, <1>m
  <2>2. CASE c.epoch < epoch[c.job]
    BY <1>1, <2>1, <2>2 DEF HookInv
  <2>3. CASE c.epoch = epoch[c.job]
    <3>1. c.job \in S
      <4>1. c.job \notin S => epoch'[c.job] = epoch[c.job]
        BY <1>t, <2>1 DEF ClaimEffect
      <4>. QED BY <1>1, <1>t, <2>1, <2>3, <4>1
    <3>2. /\ Claimable(c.job) /\ c.attempts = jobs[c.job].attempts
          /\ jobs[c.job].status \in {"running", "failed", "deleted"}
          /\ jobs[c.job].status = "failed" => ~RetryUntilSuccess(c.job)
      BY <1>1, <2>1, <2>3, <3>1 DEF ClaimEffect, HookInv, FenceInv, LatestOwns
    <3>. QED BY <3>2 DEF Claimable
  <2>. QED BY <1>t, <2>1, <2>2, <2>3 DEF HookInv, FenceInv, Overtaken
<1>2. ASSUME NEW c \in claims', c.phase = "hook" PROVE SpentRow(c)'
  <2>1. c \in claims /\ SpentRow(c)
    BY <1>2, <1>n DEF HookInv
  <2>2. ~Claimable(c.job)
    BY <2>1 DEF SpentRow, Claimable
  <2>3. /\ epoch'[c.job] = epoch[c.job]
        /\ \/ jobs'[c.job] = jobs[c.job]
           \/ jobs'[c.job] = [jobs[c.job] EXCEPT !.status = "failed"]
    BY <1>t, <2>1, <2>2 DEF ClaimEffect
  <2>4. LET new == [jobs[c.job] EXCEPT !.status = "failed"] IN new.status = "failed"
    BY <1>t, <2>1 DEF TypeOK, Row
  <2>. QED BY <2>1, <2>3, <2>4 DEF SpentRow, RetryUntilSuccess, Spent
<1>. QED BY <1>1, <1>2 DEF HookInv, InHandler, Spent, RetryUntilSuccess

\* Only the latest claim of a row ends in its hook, and an outcome never moves
\* a row whose hook is due: its latest claim is the one with the hook.
LEMMA SettleKeepsHook ==
  ASSUME HookInv, FenceInv', NEW c \in claims, SettleEffect(c)
  PROVE  HookInv'
<1>t. /\ TypeOK /\ \A d \in claims : d.job \in Job /\ d.epoch \in Nat /\ epoch[d.job] \in Nat
  BY ClaimFields DEF HookInv, FenceInv
<1>0. PICK phase \in {"hook", "redeliver"} :
        /\ claims' \subseteq (claims \ {c}) \cup {[c EXCEPT !.phase = phase]}
        /\ phase = "hook" => /\ InHandler(c)
                             /\ Spent(c.job, c.attempts)
                             /\ jobs'[c.job].status \in {jobs[c.job].status, "failed"}
  BY DEF SettleEffect
<1> DEFINE e == [c EXCEPT !.phase = phase]
<1>e. e.job = c.job /\ e.epoch = c.epoch /\ e.phase = phase /\ e.attempts = c.attempts
  BY <1>t DEF TypeOK, Claim
<1>c. \A d \in claims' : d \in claims \ {c} \/ d = e
  BY <1>0
<1>p. epoch' = epoch
  BY DEF SettleEffect
<1> HIDE DEF e
<1>1. ASSUME NEW d \in claims', InHandler(d), d.epoch < epoch'[d.job]
      PROVE  ~Spent(d.job, d.attempts)
  BY <1>1, <1>c, <1>e, <1>p DEF HookInv, InHandler
\* The row moves only for a claim in its handler that is the latest.
<1>2. \A j \in Job : jobs'[j] # jobs[j] =>
        j = c.job /\ InHandler(c) /\ c.epoch = epoch[j] /\ jobs[j].status = "running"
  BY <1>t, FencedIsLatest DEF SettleEffect, HookInv, Fenced, TypeOK
<1>3. ASSUME NEW d \in claims', d.phase = "hook" PROVE SpentRow(d)'
  <2>1. CASE d \in claims \ {c}
    <3>1. SpentRow(d)
      BY <1>3, <2>1 DEF HookInv
    <3>2. jobs'[d.job] = jobs[d.job]
      <4> SUFFICES ASSUME jobs'[d.job] # jobs[d.job] PROVE FALSE
        OBVIOUS
      <4>1. /\ d.job = c.job /\ InHandler(c) /\ c.epoch = epoch[d.job]
            /\ jobs[d.job].status = "running"
        BY <1>2, <1>t, <2>1
      <4>2. d.epoch = epoch[d.job]
        BY <3>1, <4>1 DEF SpentRow
      <4>. QED BY <1>3, <2>1, <4>1, <4>2 DEF HookInv, FenceInv, ClaimedOnce, InHandler
    <3>. QED BY <1>p, <3>1, <3>2 DEF SpentRow, RetryUntilSuccess, Spent
  <2>2. CASE d = e
    <3>1. /\ InHandler(c) /\ Spent(c.job, c.attempts)
          /\ jobs'[c.job].status \in {jobs[c.job].status, "failed"}
          /\ d.job = c.job /\ d.epoch = c.epoch
      BY <1>0, <1>e, <1>3, <2>2
    <3>2. c.epoch = epoch[c.job]
      BY <1>t, <3>1 DEF HookInv, FenceInv, Overtaken
    <3>3. /\ c.attempts = jobs[c.job].attempts
          /\ jobs[c.job].status \in {"running", "failed", "deleted"}
      BY <3>1, <3>2 DEF HookInv, FenceInv, LatestOwns
    <3>4. ~RetryUntilSuccess(c.job)
      BY <3>1 DEF Spent
    <3>5. jobs'[c.job].status \in {"failed", "deleted"} \/ jobs'[c.job] = jobs[c.job]
      <4>1. CASE jobs'[c.job] # jobs[c.job]
        <5>1. jobs'[c.job].status \in {"pending", "done", "failed"}
              /\ jobs[c.job].status = "running"
          BY <1>t, <1>2, <4>1 DEF SettleEffect, Outcome, TypeOK
        <5>2. PICK row \in Row : /\ jobs' = [jobs EXCEPT ![c.job] = row]
                                 /\ row.status \in {"pending", "done", "failed"}
          BY <4>1 DEF SettleEffect, Outcome
        <5>3. jobs'[c.job].status # "running"
          BY <1>t, <5>2 DEF TypeOK
        <5>. QED BY <3>1, <5>1, <5>3
      <4>. QED BY <4>1
    <3>. QED
      BY <1>p, <3>1, <3>2, <3>3, <3>4, <3>5 DEF SpentRow, RetryUntilSuccess, Spent
  <2>. QED BY <1>c, <2>1, <2>2
<1>. QED BY <1>1, <1>3 DEF HookInv, InHandler, Spent, RetryUntilSuccess

LEMMA OtherKeepsHook ==
  ASSUME HookInv, FenceInv', OtherEffect
  PROVE  HookInv'
<1>t. \A c \in claims : c.job \in Job
  BY ClaimFields DEF HookInv, FenceInv
<1>1. \A j \in Job : /\ jobs'[j].attempts = jobs[j].attempts
                     /\ \/ jobs'[j].status \in {jobs[j].status, "deleted"}
                        \/ jobs[j].status = "absent"
  BY DEF OtherEffect, Removed
<1>2. claims' \subseteq claims /\ epoch' = epoch
  BY DEF OtherEffect
<1>3. ASSUME NEW c \in claims', c.phase = "hook" PROVE SpentRow(c)'
  <2>1. c \in claims /\ SpentRow(c)
    BY <1>2, <1>3 DEF HookInv
  <2>. QED BY <1>t, <1>1, <1>2, <2>1 DEF SpentRow, RetryUntilSuccess, Spent
<1>. QED BY <1>2, <1>3 DEF HookInv, InHandler, Spent, RetryUntilSuccess

LEMMA NextHook == HookInv /\ [Next]_vars => HookInv'
<1> SUFFICES ASSUME HookInv, [Next]_vars PROVE HookInv'
  OBVIOUS
<1>1. FenceInv /\ TypeOK /\ FenceInv'
  BY NextFence DEF HookInv, FenceInv
<1>. QED BY <1>1, NextEffect, ClaimKeepsHook, SettleKeepsHook, OtherKeepsHook

\* A failure hook flips domain state, so it runs only for a row that failed
\* for good or was deleted, or for the latest claim of a row whose failure
\* could not be written: never for a row that is pending, done or reclaimed.
THEOREM HooksCorrect == Spec => []HookOnlyForSpentRows
<1>1. HookInv => HookOnlyForSpentRows
  BY DEF HookInv, SpentRow, HookOnlyForSpentRows
<1>2. Spec => []HookInv
  BY InitHook, NextHook, PTL DEF Spec
<1>. QED BY <1>1, <1>2, PTL

---------------------------------------------------------------------------
(* The ledger *)

\* The terms of row j whose executor is in its handler.
Terms(j) == {c.epoch : c \in {d \in claims : d.job = j /\ d.phase = "handling"}}

\* A row's step in the terms of the queue.
Keeps(j) == epoch'[j] = epoch[j] /\ Terms(j)' = Terms(j)

Enters(j) ==
  jobs[j].status = "absent" /\ jobs'[j].status = "pending" /\ Keeps(j)

IsClaimed(j) ==
  /\ \/ jobs[j].status \in {"pending", "running"}
     \/ jobs[j].status = "failed" /\ RetryUntilSuccess(j)
  /\ jobs'[j].status = "running"
  /\ epoch'[j] = epoch[j] + 1
  /\ Terms(j)' = Terms(j) \cup {epoch[j] + 1}

IsReported(j, t) ==
  /\ \/ jobs'[j].status = jobs[j].status
     \/ /\ jobs[j].status = "running" /\ t = epoch[j]
        /\ \/ jobs'[j].status \in {"pending", "done"}
           \/ jobs'[j].status = "failed" /\ ~RetryUntilSuccess(j)
  /\ epoch'[j] = epoch[j]
  /\ Terms(j)' = Terms(j) \ {t}

Stays(j) ==
  jobs'[j].status = jobs[j].status /\ epoch'[j] = epoch[j] /\ Terms(j)' \subseteq Terms(j)

IsAbandoned(j) ==
  /\ jobs[j].status = "running" /\ ~RetryUntilSuccess(j)
  /\ jobs'[j].status = "failed" /\ Keeps(j)

Leaves(j) ==
  /\ \/ jobs[j].status = "done"
     \/ jobs[j].status # "absent" /\ ~RetryUntilSuccess(j)
  /\ jobs'[j].status = "deleted" /\ Keeps(j)

RowStep(j) ==
  \/ Enters(j) \/ IsClaimed(j) \/ (\E t \in Terms(j) : IsReported(j, t))
  \/ Stays(j) \/ IsAbandoned(j) \/ Leaves(j)

\* Which is a step of the ledger for that row.
LEMMA RowStepIsLedgerStep ==
  ASSUME TypeOK, TypeOK', NEW j \in Job, RowStep(j)
  PROVE  Ledger!LedgerStep(j)
<1> DEFINE phase == [k \in Job |-> LedgerPhase[jobs[k].status]]
           out == [k \in Job |-> {c.epoch : c \in {d \in claims : d.job = k /\ d.phase = "handling"}}]
<1>1. /\ phase[j] = LedgerPhase[jobs[j].status] /\ phase'[j] = LedgerPhase[jobs'[j].status]
      /\ out[j] = Terms(j) /\ out'[j] = Terms(j)'
  BY DEF Terms
<1>2. jobs[j].status \in Status /\ jobs'[j].status \in Status
  BY DEF TypeOK, Row
<1>3. /\ LedgerPhase["absent"] = "none" /\ LedgerPhase["pending"] = "waiting"
      /\ LedgerPhase["running"] = "held" /\ LedgerPhase["done"] = "done"
      /\ LedgerPhase["failed"] = "failed" /\ LedgerPhase["deleted"] = "gone"
  BY DEF LedgerPhase
<1>5. CASE Enters(j)
  <2>1. Ledger!Submit(j)
    BY <1>1, <1>3, <1>5 DEF Enters, Keeps, Ledger!Submit, Ledger!Becomes
  <2>. QED BY <2>1 DEF Ledger!LedgerStep
<1>6. CASE IsClaimed(j)
  <2>1. Ledger!Grant(j)
    BY <1>1, <1>3, <1>6 DEF IsClaimed, Ledger!Grant, Ledger!Becomes
  <2>. QED BY <2>1 DEF Ledger!LedgerStep
<1>7. ASSUME NEW t \in Terms(j), IsReported(j, t) PROVE Ledger!LedgerStep(j)
  <2>1. Ledger!Report(j, t)
    BY <1>1, <1>3, <1>7 DEF IsReported, Ledger!Report, Ledger!Becomes
  <2>. QED BY <1>1, <2>1 DEF Ledger!LedgerStep
<1>8. CASE Stays(j)
  <2>1. Ledger!Forget(j)
    <3> DEFINE dead == Terms(j) \ Terms(j)'
    <3>1. dead \subseteq out[j] /\ out'[j] = out[j] \ dead
      BY <1>1, <1>8 DEF Stays
    <3>. QED BY <1>1, <1>8, <3>1 DEF Stays, Ledger!Forget, Ledger!Becomes
  <2>. QED BY <2>1 DEF Ledger!LedgerStep
<1>9. CASE IsAbandoned(j)
  <2>1. Ledger!GiveUp(j)
    BY <1>1, <1>3, <1>9 DEF IsAbandoned, Keeps, Ledger!GiveUp, Ledger!Becomes
  <2>. QED BY <2>1 DEF Ledger!LedgerStep
<1>10. CASE Leaves(j)
  <2>1. phase[j] = "done" \/ (phase[j] # "none" /\ ~RetryUntilSuccess(j))
    BY <1>1, <1>2, <1>3, <1>10 DEF Leaves, Status
  <2>2. Ledger!Remove(j)
    BY <1>1, <1>3, <1>10, <2>1 DEF Leaves, Keeps, Ledger!Remove, Ledger!Becomes
  <2>. QED BY <2>2 DEF Ledger!LedgerStep
<1>. QED BY <1>5, <1>6, <1>7, <1>8, <1>9, <1>10 DEF RowStep

\* A claim grants the rows it takes and gives up the abandoned ones.
LEMMA ClaimIsLedgerStep ==
  ASSUME TypeOK, NEW S \in SUBSET Job, NEW r \in Runner, NEW delivery \in Int,
         ClaimEffect(S, r, delivery), NEW j \in Job
  PROVE  RowStep(j)
<1> DEFINE new == {ClaimBy(r, k, delivery) : k \in S}
<1>1. claims' = claims \cup new
  BY DEF ClaimEffect
<1>2. \A k \in S : LET c == ClaimBy(r, k, delivery) IN
        c.job = k /\ c.phase = "handling" /\ c.epoch = epoch[k] + 1
  BY DEF ClaimBy
<1>3. CASE j \in S
  <2>1. Terms(j)' = Terms(j) \cup {epoch[j] + 1}
    BY <1>1, <1>2, <1>3 DEF Terms
  <2>2. Claimable(j) /\ jobs'[j].status = "running" /\ epoch'[j] = epoch[j] + 1
    BY <1>3, ClaimRowFacts DEF ClaimEffect
  <2>. QED BY <2>1, <2>2 DEF RowStep, IsClaimed, Claimable
<1>4. CASE j \notin S
  <2>1. Terms(j)' = Terms(j)
    BY <1>1, <1>2, <1>4 DEF Terms
  <2>2. epoch'[j] = epoch[j]
    BY <1>4 DEF ClaimEffect
  <2>3. CASE jobs'[j] = jobs[j]
    BY <2>1, <2>2, <2>3 DEF RowStep, Stays
  <2>4. CASE Abandoned(j) /\ jobs'[j] = [jobs[j] EXCEPT !.status = "failed"]
    <3>1. jobs'[j].status = "failed"
      BY <2>4 DEF TypeOK, Row
    <3>. QED BY <2>1, <2>2, <2>4, <3>1 DEF RowStep, IsAbandoned, Keeps, Abandoned, Spent
  <2>. QED BY <1>4, <2>3, <2>4 DEF ClaimEffect
<1>. QED BY <1>3, <1>4

\* The end of an execution is the report of its term; for every other row, and
\* after the handler, it changes nothing.
LEMMA SettleIsLedgerStep ==
  ASSUME FenceInv, TypeOK', NEW c \in claims, SettleEffect(c), NEW j \in Job
  PROVE  RowStep(j)
<1>t. TypeOK /\ c.job \in Job
  BY ClaimFields DEF FenceInv
<1>0. PICK phase \in {"hook", "redeliver"} :
        /\ claims \ {c} \subseteq claims'
        /\ claims' \subseteq (claims \ {c}) \cup {[c EXCEPT !.phase = phase]}
  BY DEF SettleEffect
<1> DEFINE e == [c EXCEPT !.phase = phase]
<1>e. e.phase # "handling"
  BY <1>t DEF TypeOK, Claim
<1> HIDE DEF e
<1>h. \A d : d.phase = "handling" => (d \in claims' <=> d \in claims \ {c})
  BY <1>0, <1>e DEF e
<1>p. epoch' = epoch
  BY DEF SettleEffect
<1>1. CASE InHandler(c) /\ c.job = j
  <2>1. Terms(j)' = Terms(j) \ {c.epoch}
    BY <1>h, <1>1 DEF Terms, FenceInv, ClaimedOnce, InHandler
  <2>2. c.epoch \in Terms(j)
    BY <1>1 DEF Terms, InHandler
  <2>3. CASE jobs' = jobs
    BY <1>p, <2>1, <2>2, <2>3 DEF RowStep, IsReported
  <2>4. CASE jobs' # jobs
    <3>1. PICK row \in Row : Fenced(c) /\ jobs' = [jobs EXCEPT ![c.job] = row] /\ Outcome(c, row)
      BY <2>4 DEF SettleEffect
    <3>2. jobs'[j] = row
      BY <1>t, <1>1, <3>1 DEF TypeOK
    <3>3. jobs[j].status = "running" /\ c.epoch = epoch[j]
      BY <1>1, <3>1, FencedIsLatest DEF Fenced
    <3>. QED
      BY <1>1, <1>p, <2>1, <2>2, <3>1, <3>2, <3>3 DEF RowStep, IsReported, Outcome
  <2>. QED BY <2>3, <2>4
<1>2. CASE ~(InHandler(c) /\ c.job = j)
  <2>1. Terms(j)' = Terms(j)
    BY <1>h, <1>2 DEF Terms, InHandler
  <2>2. jobs'[j] = jobs[j]
    BY <1>t, <1>2 DEF SettleEffect, TypeOK
  <2>. QED BY <1>p, <2>1, <2>2 DEF RowStep, Stays
<1>. QED BY <1>1, <1>2

LEMMA OtherIsLedgerStep ==
  ASSUME KeyInv, OtherEffect, NEW j \in Job
  PROVE  RowStep(j)
<1>1. claims' \subseteq claims /\ epoch'[j] = epoch[j]
  BY DEF OtherEffect
<1>2. CASE jobs'[j].status = jobs[j].status
  <2>1. Terms(j)' \subseteq Terms(j)
    BY <1>1 DEF Terms
  <2>. QED BY <1>1, <1>2, <2>1 DEF RowStep, Stays
<1>3. CASE Removed(j)
  <2>1. Terms(j)' = Terms(j)
    BY <1>3 DEF Removed, Terms
  <2>. QED BY <1>1, <1>3, <2>1, RemovedRows DEF RowStep, Leaves, Keeps, Removed
<1>4. CASE enqueueDbJob(j) /\ jobs[j].status = "absent" /\ jobs'[j].status = "pending"
  <2>1. Terms(j)' = Terms(j)
    BY <1>4 DEF enqueueDbJob, Terms
  <2>. QED BY <1>1, <1>4, <2>1 DEF RowStep, Enters, Keeps
<1>. QED BY <1>2, <1>3, <1>4 DEF OtherEffect

LEMMA InitIsLedgerInit == Init => Ledger!LedgerInit
<1> SUFFICES ASSUME Init PROVE Ledger!LedgerInit
  OBVIOUS
<1>1. \A j \in Job : \/ jobs[j].status = "absent"
                     \/ jobs[j].status = "failed" /\ RetryUntilSuccess(j)
  BY DEF Init
<1>2. \A j \in Job : {c.epoch : c \in {d \in claims : d.job = j /\ d.phase = "handling"}} = {}
  BY DEF Init
<1>3. epoch = [j \in Job |-> 0]
  BY DEF Init
<1>. QED BY <1>1, <1>2, <1>3 DEF Ledger!LedgerInit, LedgerPhase

\* The queue implements its ledger: with any number of processes and rows,
\* with zombies, crashes and lost deliveries, an outcome is recorded only for
\* the latest claim of a running row, and rows that must succeed are neither
\* given up nor dropped.
THEOREM LedgerCorrect == Spec => ImplementsLedger
<1>1. FenceInv /\ KeyInv /\ FenceInv' /\ [Next]_vars => Ledger!LedgerNext
  <2> SUFFICES ASSUME FenceInv, KeyInv, FenceInv', [Next]_vars, NEW j \in Job
               PROVE  Ledger!LedgerStep(j)
    BY DEF Ledger!LedgerNext
  <2>1. TypeOK /\ TypeOK'
    BY DEF FenceInv
  <2>2. RowStep(j)
    BY <2>1, NextEffect, ClaimIsLedgerStep, SettleIsLedgerStep, OtherIsLedgerStep
  <2>. QED BY <2>1, <2>2, RowStepIsLedgerStep
<1>. QED
  BY <1>1, InitIsLedgerInit, FenceInvHolds, KeyInvHolds, PTL
  DEF Spec, ImplementsLedger, Ledger!LedgerSpec
=============================================================================
