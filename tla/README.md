# Verification of Mike's backend

Mike is a document assistant: a TypeScript/Express backend over Postgres (Supabase),
with optional Redis/BullMQ, a web frontend and a Word add-in. This directory holds
TLA+ models of the parts of the backend where processes, requests, jobs and crashes
meet, the TLC configurations that check them on small instances, and TLAPS proofs of
the properties that matter most for every instance. Paths below are relative to
`src/backend/src/` unless they start with `src/`; SQL functions are in
`src/backend/schema.sql`.

## 1. Inventory

| Component | State it keeps | Operations | Interacts with | What is hard | What makes it correct |
|---|---|---|---|---|---|
| **Durable job queue** (`lib/dbq/*`, `claim_db_jobs`, `claim_db_job`, `cancel_db_jobs`) | rows of `db_jobs`: status, attempts, run_at, claimed_at, dedupe key, payload | enqueue, batch claim, claim of one row, outcome (done / retry / failed / deferred), hook, cancel, retention sweep | every component with background work | several pollers and workers, executions that outlive their claim, crashes, a budget that can be given back, rows that must never be lost | only the latest claimant reports; bounded claims; one live row per key; no cleanup row lost; every row settles |
| **Delivery over Redis** (`lib/queue/appJobsQueue.ts`, `workers/appJobsWorker.ts`) | BullMQ jobs that name a row | deliver, redeliver, stall | job queue | lost, duplicated, delayed deliveries; ids that collide | no row is run twice while its claim is fresh; the poller backs up every loss |
| **Tabular generation** (`routes/tabular.ts`, `lib/tabular/*`) | cells (status, content, generation stamp), generation lease on the review | generate, regenerate a cell, clear rows, extraction of a row, release | extraction queue, reaper | the lease expires under a slow holder; superseded runs; partial enqueues; stops | a superseded run writes nothing; results survive; the lease covers queued work; no eternal spinner |
| **Extraction worker and queue** (`workers/extractionWorker.ts`, `lib/queue/extractionQueue.ts`) | one job per row or cell | execute, retry, cancel, permanent failure | tabular generation | zombies, dedupe across generations, cancellation of running jobs | stamps fence every write; the last job out releases the lease |
| **Stale-work reaper** (`lib/maintenance/staleWork.ts`) | none of its own | sweep cells, sweep documents | cells, documents, both queues | reads of cells, lease and jobs at different moments | flips only what has lost its owner |
| **Upload sessions** (`routes/uploadSessions.ts`, `lib/uploadProcessing.ts`, `create_upload_session` and its siblings) | sessions, files, processing jobs with lease and attempts; staged, sealed and source objects | create, confirm, verify, seal, queue, claim, heartbeat, publish, settle, expire, cancel, wipe | documents, storage, browser | leases stolen from wedged workers, unfenced publication, cleanup racing a retry | a published file stays published, with its version and its bytes; every queued file settles |
| **Memory** (`lib/memory/*`, `begin_memory_conversation_turn`, `write_memory_file` and their siblings) | turns, generations, memory files with epoch and revision, consolidation state | begin/finish a turn, schedule, consolidate, wipe, disable, share | queue, chat | turns that end in another order than they began, generations racing turns, minutes between gate and write, resets under running jobs | a consolidation leaves out no finished turn but what its limits and window say; a reset wins; private memory stays private |
| **Export and erasure** (`lib/userDataCleanup.ts`, `lib/dbq/handlers.ts`) | export artifacts, cleanup rows, rows and objects of an account | build, delete account, purge, sweep | queue, storage, organisations, uploads | deletion during an export or upload; a crash between rows and bytes; the org keeps its content | nothing of a deleted account remains, nothing of the organisation goes |
| **Organisations and access** (`lib/orgs.ts`, `lib/access.ts`) | memberships, roles | invite, demote, remove | all routes, erasure | concurrent demotions, cascades that meet two triggers | an organisation keeps an admin, its projects an owner |
| **Documents and versions** (`routes/documents.ts`, `lib/chat/tools/documentOps.ts`) | version rows, objects, current pointer, tracked edits, attested hashes | propose edits, resolve an edit, copy in, delete a version | chat turns, storage, uploads | rows and objects are in two systems; read, then write, without a lock | a listed version has its bytes; numbers order versions; no hash of other bytes |
| **Conversion worker** (`workers/conversionWorker.ts`, `lib/queue/conversionQueue.ts`) | the rendition of a version | convert, store | uploads, queue | a late conversion of a replaced file | writes only while the version still points at its source |
| **Chat streaming, Word protocol** (`lib/chat/*`, `routes/wordChat.ts`) | messages, pending client tool calls | stream, stop, client tool call and answer | LLM providers, add-in | an answer racing its timeout | a call is answered once, by its owner |
| **Sign-in handoff, MCP connectors** (`lib/authHandoff.ts`, `lib/mcp/*`) | codes, tokens | issue, redeem, refresh | providers | double redemption, refresh rotation | a code is used once |
| Projects, library, workflows, search, audit, model selection, LLM providers, storage, frontend, add-in UI | rows, external services | CRUD, calls | | little | covered by tests |

Components call one another through shared tables: a request writes domain rows, then
enqueues; a worker claims, writes domain rows, then the outcome. Nothing holds a lock
across these steps. What makes that safe is different in each place: the triple (status,
attempts, claimed_at) for outcomes of jobs, the generation stamp for cells, a heartbeat just
before each result of an upload, epoch and revision for memory files, and a fixed order of
writes for versions and their objects.

`PROJECT.json` lists the hazards this gives rise to, each at its line, with the
property that watches it or the reason none does.

## 2. Plan

Done: `DbJobs` with `JobLedger`, `TabularGeneration`, `UploadSessions`, `MemoryConsolidation`,
`AccountErasure`, `DocumentVersions`; proofs of all their safety invariants and action properties, and of
the refinement of `JobLedger`. Left, in this order:

1. Abstract specifications of the other components, as `JobLedger` is one of the queue: of a review, what a
   generation promises for its cells (claimed, worked on, settled once); of an upload's file, the
   phases from registered to completed or failed. Their invariants are those of section 5.
2. `TabularGeneration` with a grid that changes: columns and rows come and go under a generation.
3. `DocumentVersions` together with the replacement of a version by an upload.

`DbJobs` is composed with the others through what `JobLedger` promises: a consumer's module
keeps, of the queue, the terms of a claim, the void reports of executions taken for dead,
and the bounded budget (`jobs` and `runs` of `TabularGeneration`, `MemoryConsolidation` and
`AccountErasure`). Uploads have a queue of their own, which `UploadSessions` models whole.

## 3. Modules

| Module | Models |
|---|---|
| `JobLedger` | what the queue promises, without clocks, attempts or Redis |
| `DbJobs` | the queue and its deliveries |
| `TabularGeneration` | one review: cells, lease, requests, extraction jobs and their executions, the sweep |
| `UploadSessions` | sessions, their files and jobs, the browser, requests, workers, the cleanup |
| `MemoryConsolidation` | turns, conversations, memory files, the consolidation jobs |
| `AccountErasure` | the deletion job of one account, exports, uploads, an organisation |
| `DocumentVersions` | the versions of one document and its tracked edits |
| `MC…` | instances of each for TLC |
| `DbJobsProofs`, `DbJobsFenceProofs`, `DbJobsLedgerProofs`, `TabularGenerationProofs`, `UploadSessionsProofs`, `MemoryConsolidationProofs`, `AccountErasureProofs`, `DocumentVersionsProofs` | theorems |

### DbJobs

`jobs[j]` is a row; `claims` are the executions of `processClaimedJob` in progress, each with
what it was claimed with; `deliveries` are BullMQ jobs; `now` is the database clock.
`epoch`, `deferrals` and `hooked` are history variables: the code has no such fields.

| Action | Code |
|---|---|
| `enqueueDbJob` | `lib/dbq/enqueue.ts`: insert, unique-violation as dedupe, delivery |
| `claim_db_jobs` | one tick of `runDbJobTick`: the abandoned rows failed, a batch claimed |
| `claim_db_job` | a delivery's claim of its row |
| `handlerResolves`, `handlerThrows`, `handlerThrowsSpent`, `handlerDefers`, `unknownKind` | the outcome writes of `processClaimedJob`; each may be lost, as the code ignores their errors |
| `runFailureHook`, `redeliver` | what follows an outcome, matched or not |
| `retentionSweep`, `eraseUserRows`, `cancel_db_jobs`, `rescheduleConsolidation` | deletions and updates by others |
| `Crash`, `DeliveryLost`, `DeliveryStalls`, `Tick` | the environment |

The handlers' effects are left out; a handler ends in one of five ways or not at all.
Retention ages are dropped: a finished row may be swept at any time. The three purges
of an account deletion are one step. A delayed delivery may come early, as claiming
checks `run_at` itself.

### TabularGeneration

`cells` maps every cell to its status and stamp; content is present exactly when a cell is
`done`. `lease` is the holder and whether the lease is unexpired. `requests`, `jobs`, `runs` and
`sweep` hold where each actor is. `order` and `by` are history: the order of lease
claims and, for each cell, the place of the request that last wrote it.

| Action | Code |
|---|---|
| `BeginGenerate`, `BeginRegenerate`, `BeginClear` | `begin_tabular_review_generation` answering `started`; every other answer ends the request without a trace |
| `loadTabularGenerateWork`, `claimCellsForGeneration` | the snapshot of a generate, and the stamping UPDATE (unguarded, as in the code) |
| `regenerateCell` | the stamp of a regeneration |
| `enqueueExtraction`, `handOver` | one row's enqueue: inserted, deduplicated, failed, or failed but accepted; then the lease belongs to the jobs |
| `removeQueuedExtractionJobs`, `clearCells` | clear-cells; the first reaches any of the jobs, the second may fail |
| `releaseLease`, `abortGeneration`, `requestFails`, `requestDies` | the ways a request ends; a synchronous one releases its lease when its rows are through, or at once when one of them failed, and the others go on |
| `startJob`, `loadRow`, `loadThrows`, `markGenerating`, `receiveColumn`, `answerEnds` | `runExtractionJob` around `extractRowColumns`; with `startRow`, the synchronous rows too; `rowThrows` is one whose documents cannot be read, which rejects the `Promise.all` of its request |
| `clearRowGenerationStamp`, `checkIdle`, `releaseIdle`, `jobEnds`, `markExtractionFailed` | the `finally` block, the queue's outcome and the hook |
| `loseJob`, `runDies` | a stalled or crashed execution: the job waits again, or is abandoned |
| `renewGeneration`, `leaseLapses` | heartbeats and time |
| `sweepReadsCells` … `sweepReleases` | `sweepStaleGeneratingCells`, read by read |

A run reads, marks and writes in separate steps, column by column, so other actors
come between. The hook's per-cell writes are one step: each is guarded by the stamp that
was read, so only the order among them is lost; the sweep's two lookups of a cell's jobs are one step
too. All cells of the grid exist from the start, and the grid does not change. A query or
UPDATE whose error the code ignores or only logs may fail when `MayFail`; the exceptions are the sweep's
own reads and flips, which the next sweep repeats, and the worker's read of its row's cells, whose
failure would insert a second cell for each column (listed as a hazard).

### UploadSessions

`sessions`, `files` and `jobs` are the three tables; `objects` is what the store holds: a `staged`
upload (or a `misfit`, of the wrong size or type), the `sealed` copy, the `source` of a
version. `client` is how far the browser is, `requests` the completion and cancellation requests
being served, `workers` the claim loops, `sweep` the cleanup.

| Action | Code |
|---|---|
| `Create`, `RefreshUrls`, `Put`, `Confirm`, `Report`, `Cancel` | the browser (`uploadSessionClient.ts`) and `create_upload_session` |
| `Recover` … `ExtendAndRefresh`, `Discard`, `FailTransfer` | the completion endpoint, statement by statement: take over an old claim, claim, verify, seal, record the seal, queue, refresh |
| `CancelSession`, `WipeSession` | the cancellation |
| `ClaimJob`, `Begin`, `Heartbeat` | `claim_upload_processing_job` and the proof of the lease before each write |
| `Download`, `UpsertDocument`, `CopySource`, `WriteVersion`, `Publish` | `processUploadFile` for the three purposes; none of these is fenced |
| `Settle`, `DropSealed`, `FailFile`, `Requeue`, `ResetFile`, `GiveUp`, `PurgeFailed`, `Finish`, `RefreshSession` | `processUploadJob` after it |
| `ExpireOverdue`, `FailExhaustedJob`, `FailExhaustedFile`, `ReadOverSession`, `WipeOverSession` | the cleanup |
| `ComesDue`, `ClaimAges`, `LeaseLapses`, `RequestDies`, `WorkerDies`, `SweepDies` | time and crashes |

A lease lapses while its holder is in `processUploadFile` or when it has none; between a heartbeat and
the statements right after it, it does not. The row update of a replacement and the deletion of
the replaced object are one step. The instance has one file, so what siblings in a session do to
each other's status is not reached. Left out: page counts, renditions, workflow references, and the deletion of
old sessions.

### MemoryConsolidation

A file's content is the set of turns it has learned something from; a rewrite keeps what the curator
read and adds the turns it was shown. `turns` has each turn from its lease to its end, `states` the
generations by conversation and participant, `cut` the turns up to a file's cutoff. `considered` and
`reshared` are history.

A turn's end has the time its transaction began (`terminal_at = now()`), not the time it got its locks. `BeginSchedule` is that
beginning: `upTo[t]` are the turns of the conversation that ended no later by this time. `CompleteTurn` is the rest of the transaction, which
writes `upTo[t]` as the `window` of the conversation, of the actor and of the jobs it queues, in whatever order the locks are had. A
transcript shows what is done, in the job's window and after the file's cutoff; of these `Read` chooses what the limits of 120
messages and 48,000 characters leave (`MayDrop`): they drop nothing while `Room` turns are done, and no more than the conversation has beyond.

| Action | Code |
|---|---|
| `BeginTurn`, `BeginSchedule`, `CompleteTurn`, `ReleaseTurn`, `LeaseExpires`, `QuietComes` | `begin_memory_conversation_turn`, `complete_memory_conversation_turn` with its scheduling and rearming, the lease and the quiet window |
| `DeleteConversation`, `ShareOrUnshare`, `Wipe`, `Disable`, `Enable`, `WipePrivate`, `OpenDraft`, `SaveDraft` | what people do meanwhile; `Reset` is `reset_memory_file` |
| `Claim`, `Abandon`, `RunDies`, `Report`, `Hook` | the queue |
| `Load`, `Refresh`, `Gate`, `GateLeases`, `Read`, `CheckResult`, `ReadCurrent`, `KeepsFile`, `CuratorFails`, `CallsWrite`, `WriteFile`, `Finalize`, `Throws` | `handleMemoryConsolidation`; `Verdict` is the check that `write_memory_file` repeats in its transaction |

One step each: the read of the state with its fenced status update; the fresh check of a write with the
RPC that follows it; the refresh of both files' status; the reads of the conversation; the
insertion of the user's message with the begin of the turn. `run_at` is not there, as the handler's own
gate asks for quiet. Files start enabled. A reset cuts off what had been asked when it takes effect; in the code its time, too, is the start of its
transaction. Which turns the limits drop is left open (the code drops the oldest), and so is a turn's length. Left out: continuation of inputs,
the choice of the model, and moving a conversation between projects.

### AccountErasure

One account (the leaver), one personal project, one organisation. A document is the leaver's own, a colleague's in
the leaver's project, or the leaver's in a project of the organisation. `runs` are executions of
`handleAccountDelete`, phase by phase; `uploads`, `exports` and `builds` are work that goes on without a
session; `role` and `org` the organisation, `creator` the creator of its project, whom `user_id` names until it is detached, `owners` the plain
members an override makes owners of it. `missed` and `finished` are history.

| Action | Code |
|---|---|
| `DeleteAccount`, `ClaimErasure`, `ErasureFails`, `Report` | the request, and the queue's part |
| `CollectDocuments` … `enqueueStorageCleanup`, `deleteStorageFiles`, `ListOrphans`, `SweepOrphans` | `deleteUserAccountData`: candidates, artifacts, detaching, rows, projects, the cleanup row, bytes, the sweep of the prefix |
| `ReadOrganisation`, `SettleOrganisation`, `LeaveOrganisation` | `deleteUserOrganizations` |
| `DeleteExportFiles`, `PurgeRows`, `DeleteUser` | the last purge and the auth user, whose cascade meets the triggers of `org_members` |
| `StartUpload` … `UploadFails` | `processCreatedDocument`, with its own clean-up |
| `RequestExport` … `RetentionSweep` | an export, and the retention of its artifact |
| `AcceptInvitation`, `ChangeRole`, `RemoveMember`, `AssignOwner` | the organisation's other people, with the two triggers: `LastAdmin` and `SoleOwner`, which asks `project_access_role` (`Owner`) for another owner, admin or not |

One step each: the candidates with their paths; membership, admins, heir and content; the listing of
the prefix with the query of what claims it; a phase's last read and its deletion.
`derived` stands for extracted text and PDF rendition, which lie outside the leaver's prefix. An export is
executed at most once at a time. The triggers run as the tables' owner, so that row-level security hides nothing
from them. Listings of the store are current. One project stands for all of the organisation, and workflows, whose guard is the same, for none. Chats, reviews, workflows, grants and audit rows are
single deletions without bytes and left out.

### DocumentVersions

One document. `versions` are the rows, `objects` the store, named by the version whose (random) key they lie under;
bytes are told apart by where they were uploaded, the tracked changes still open in them and those
decided. `requests` are HTTP requests and chat turns, `turns` is `turnEditState`. `overlapped` is history.

| Action | Code |
|---|---|
| `Resolve`, `LoadForResolution`, `SetStatus` | `handleEditResolution`: the edit and the document; the current version again with its bytes; the verdict |
| `RunEditDocument`, `LoadForEdit`, `InsertEdits`, `TurnEnds` | `runEditDocument` and the turn around it |
| `ClearHash`, `Put`, `SetHash` | the in-place overwrite, shared by both |
| `ReadNumber`, `InsertVersion`, `Point` | a new version: highest number, row under the unique index, current pointer |
| `CopyIntoVersion` | a version with another document's bytes |
| `DeleteVersion`, `ReadRows`, `Repoint`, `SoftDelete`, `Wipe` | the deletion of a version |
| `Dies` | the end of any request, at any point |

An edit is one mark; "drawn" is a change made in bytes whose row is not inserted. Each turn edits
under one `turnEditState`, made per stream (`lib/chat/streaming.ts:387`). A statement
that fails ends its request; that the code ignores the failure of a clear of the hash is section 4.1.
Left out: renditions and caches, the source's deletion of a move, filenames, and versions that
are uploaded (`UploadSessions`).

## 4. Runs

| Run | Instance | Shows |
|---|---|---|
| `dbq_liveness` | two pollers; two cleanup rows under one key, a failed one of an older release among them, a cancellable extraction, a deferrable consolidation; fair | fence, budget, hooks, finality, unique keys, cleanup, the refinement of `JobLedger`; every row settles, every cleanup succeeds |
| `dbq_redis` | a poller and two worker slots; an extraction and a row of a retired kind | no healthy row runs twice |
| `tab_async` | one cell, two requests, two tries, deaths, lost writes | superseded runs write nothing; results survive; the sweep spares owned cells |
| `tab_rows` | two rows, two requests, two tries | the lease covers queued work |
| `tab_sync` | two rows, two columns, two requests, no queue | stamps fence synchronous runs, also those whose request failed and let go of the lease; no row leaves a spinner it made; a request that was not stopped and none of whose rows failed leaves none |
| `tab_live` | one cell, two requests, deaths, fair | every spinner resolves |
| `up_files` | one file of any purpose, two completion requests, two workers, two attempts, fair | a completed file stays so, with its version and object; every queued job settles |
| `mem_learning` | a project conversation of its owner and a viewer, two turns that end in any order, room for one, two executions, one disturbance, fair | nothing forgotten or shared is learned by the wrong file; commits and generations leave out no more than windows and limits do; every turn is consolidated or its job fails |
| `erase` | three documents, an export, an organisation with one more person, two attempts by two processes, one event, fair | the organisation keeps its content and somebody in charge; the account's files and exports go; the deletion completes |
| `erase_stuck` | the sole member of an organisation with a project | a finding, below |
| `doc_requests` | three versions, two edits, two requests, deaths anywhere | listed versions have bytes; numbers follow insertion; no lying hash |
| `doc_ids` | the same, one request at a time | a finding, below |

**Bounds.** *Queue.* `MaxClaims`: a row's claim with this number neither fails nor stalls; with a
budget of two, two claims cover first try and retry, and the consolidation's three the claim after a deferral as well.
`QuietBy` bounds the turns that reschedule a consolidation. `IntMax` is 2 or 3
instead of 2147483647, so that saturation is reached. `StaleAfter` 0 or 1 and `DelayChoices` are the
smallest values that order "due", "fresh" and "stale". `Together` takes rows that
can meet: those of one key, a cleanup row and the consolidation, or the extraction alone.

*Tabular.* `MaxRuns` is the number of executions at a time, zombies included: two, as every property
is about an execution and its successor. `MaxTries` is the budget of an extraction job: two gives a
retry, and one still gives permanent failure and abandonment. Two requests suffice for
"superseded"; three, where one takes over from a taker-over, were tried by hand without the queue (one row, two columns, 660,000 states). `Prompt` says that a request is not
delayed beyond its lease (300 s) before its first write and enqueue; `LateEnqueue`, that an enqueue
which timed out may have been accepted. The runs assume the first and exclude the second. Both are
assumptions and not facts of the code: section 4.1 says what happens without them. `MayFail` is
set in `tab_async` and `tab_live`; `tab_sync` is about requests whose writes succeed (a lost one leaves
a spinner, to the next generation), and `tab_rows` leaves it out for size: set, `LeaseCoversWork` holds too, as in every instance (section 5).

*Uploads.* Two attempts give a retry and a last attempt; two workers a zombie and its successor; two requests
a completion that takes over another's claim. `CrashPoints` names where somebody may die: at
any step of a request, in the processing, before a result, between a result and the deletion of the sealed object, and in
the sweep. `InOrder` takes workers and requests in one order, which loses nothing, and leaves
out combinations named at its definition.

*Memory.* Two turns give two orders in which they can end, a superseded generation and a rearmed one; the two people are one whose memory is private and one who
only reads. `MaxEvents` counts disturbances: wipes, disablings, saves, changes of sharing, deletions,
deaths, failing queries and executions taken for dead; one of them can meet every step. With `MaxAttempts` 1 no job is retried after a throw, only taken up again after a deferral. Tried by hand: two attempts with two executions
(4.3 million states, safety), and two disturbances with one execution (3.2 million). `Room` is 1, so that the limits may drop one of two turns.
Three conditions keep the graph small enough for liveness: a transaction begins when it gets its locks or is to be
overtaken (`BeginsLate`), steps that write only a file's status or concern only their own job come at once (`AtOnce`), and nobody resets or edits
the file of the one who only reads, which learns nothing here (`OthersAlone`). Tried by hand without the three, for safety.

*Erasure.* `MaxEvents` counts failing calls, deaths, executions taken for dead and changes in the
organisation. `WorkTries` is one: an upload or export is not retried within the run. `OneAtWork`: an export or an upload is under way, not both, as they share no row. Tried by hand:
two events and three attempts (3.4 million states, safety).

*Documents.* `Together`: of the behaviours in which requests overlap, those with two edits on two versions and those with one edit on
three; of the others, all. Two requests are a reader and the one that invalidates what it read.

`FirstFirst` takes the first of two idle executions that differ in their names only.
Deadlock is not checked: an idle queue, a review nobody works on, or a deleted account may stop.

**Fairness.** Pollers keep polling (`setInterval`, restarted processes), handlers and hooks end (all
calls have time limits), and the clock runs. Nothing is asked of Redis. For the review: requests and executions
that are alive go on, a waiting job finds a worker, the queue notices a dead execution, the
sweep's timer fires, and a lease nobody renews expires. For uploads: claim loops poll, requests are served, deadlines pass, and the
cleanup, which starts every minute with the exhausted jobs, gets to these even if it often dies
later on (strong fairness). For memory: leases and quiet windows run out, the
queue hands a job out time and again (strong fairness, because a claim is not
possible while the job runs) and gives up on dead executions, handlers end. For the erasure: the queue hands out
the job, and a live handler goes on. Nothing makes users
start requests, abort them, or processes die. `DocumentVersions` has no fairness and no liveness property: every request may die.

**Findings.** Each is a run that TLC refutes, with a comment of the code it contradicts:

- `erase_stuck`: the erasure of an organisation's sole member leaves the membership to the cascade from
  `auth.users`, which the guard of resource ownership refuses on every attempt. The account stays, emptied.
- `doc_ids`: w:ids are reused across versions, so resolving an edit of an older version collapses another
  edit's change in the current one.

### 4.1 Limits of the passing properties

What the models also showed, as the conditions under which the properties above hold. Unless said otherwise TLC
found the behaviour.

*Queue*

- A row that crashes on its last attempt is failed by the batch claim, in SQL, and its
  failure hook never runs (`schema.sql:5089`). Its cells are left to the sweep, which is
  why `GeneratingResolves` needs the sweep's fairness.
- A deferral returns its attempt, so the id of a redelivery may repeat (`lib/queue/appJobsQueue.ts:65`) and the
  redelivery be dropped. The poller makes up for it.

*Tabular*

- The first write of a lease holder is guarded by nothing (`claimCellsForGeneration`,
  regenerate-cell's stamp, clear-cells' blanking). With `Prompt = FALSE` a request that stalls
  past its lease before that write overwrites its successor, and `WritesFollowLeaseOrder` fails.
- With `LateEnqueue = TRUE`, enqueues that only seemed to fail let the lease go over queued work, and `LeaseCoversWork` fails.
- A new generation's row may be deduplicated into an old generation's waiting job
  (`lib/queue/extractionQueue.ts:109`), whose writes its stamps reject; the row is then worked off by nobody.
- A canceled job may settle before clear-cells has blanked its row, and drops the stamp of a spinning cell. The sweep flips
  an unstamped cell without a guard (`lib/maintenance/staleWork.ts:248`), and takes a result away that was written since it
  looked, although it flips only work that has "provably lost its owner" (`:173`).
- Without the queue, a finished cell may be blanked by a generation: a run of an
  expired lease may finish a cell between the next request's snapshot and its claim, and the row, which goes by the
  snapshot, blanks it. `RunsKeepResults` is the part that holds, with the queue.
- Without the queue, a generation that is stopped before it has marked a row leaves cells spinning that it took over from an
  expired generation. So does one of whose rows fails to load its documents (`lib/tabular/tabular.extractRow.ts:142`): the `Promise.all`
  rejects (`routes/tabular.ts:1748`), the lease is released over the rows that go on, and the failed row, and any that no worker comes to, keep what
  was taken over. `RequestLeavesNoSpinner` is about the other requests; without either condition TLC refutes it. What holds for all of
  them is `RowsEndTheirSpinners`: a row that gets as far as to mark a cell ends it.

*Uploads*

- A failed attempt puts its file to error (`lib/uploadProcessing.ts:733`) before it requeues the job. A completion
  request's refresh in between ends the session, and the cleanup deletes the sealed object that the queued retry needs,
  against `:918` ("Never remove its sealed source out from under the worker").
- A completion request that dies between sealing and queueing leaves a file that is uploaded and has no job. The cleanup
  expires only `pending_upload` sessions (`:848`), so nobody gets to it (`docs/deployment.md:139`).
- The last attempt of a job whose earlier one crashed past `Publish` removes the object of a document shown as ready;
  hence `CompletedIsStored` is about completed files.
- A worker that lost its lease puts a published document back to processing, until it publishes too; and two sessions that
  replace one version may leave it at a deleted object (`VersionOf(f) = f` in `CompletedIsStored` leaves replacements out).
- A crash between a job's result and the refresh leaves its session in processing; a lapsed holder's heartbeat
  takes the user past the cap on running jobs (`schema.sql:4415`).

*Memory*

- A turn may be done and never shown to a curator, although the generation counts as processed: because the window of its conversation or
  actor went back before it, or because the limits of the transcript dropped it (`lib/memory/curator.ts:393`, `:301-309`).
  `ProcessedMeansConsidered` and `CommitsOnAllThatWasSaid` are therefore about what the current windows show, and allow as many turns to be missing
  as the limits may drop. As long as the transactions get their locks in the order in which they began, and no more than `Room` of them are done, that is all of them.
  The window goes back when, of two turns that end together, the one whose transaction began first gets the lock last: it overwrites
  `latest_turn_completed_at` and `latest_terminal_at` with its own earlier time (`schema.sql:5743`, `:5788`), although a "successful turn advances a durable
  cursor" (`src/docs/memory.md:36`).
- The cutoff of a reset and the time of a turn are both starts of transactions; the model cuts off when the reset takes effect.
- A turn whose answer outlives its lease loses it to the next turn's begin and is never learned: `ProcessedMeansConsidered` is
  about turns that completed.
- Two jobs of one file that end side by side may each leave the file's status to the other, so that it stays
  "processing" (`schema.sql:5994`, `lib/memory/curator.ts:1320`; `docs/memory.md:54`).

*Erasure*

- An export still being built, or an upload still being processed, when the account goes is finished afterwards: `ErasureIsThorough` is about the others.
  The artifact of a failed last attempt is never expired by the retention (`routes/user.ts:2080`); account deletion gets it.
- A crash or a failed deletion between rows and bytes leaks derived objects and colleagues' uploads, which do not lie under the
  leaver's prefix; `ErasureIsThorough` promises these only without a fault.
- The sweep of the prefix and an upload that is being published into the organisation's project may meet so that a row points at
  deleted bytes; `OrgContentSurvives` is about documents published before.
- Somebody who accepts an invitation between the look at the members and the cascade may be left without an admin, in an organisation that holds documents
  only, and in one with projects as well: the last-admin trigger stands aside for the cascade (`schema.sql:268`), and the ownership guard is content with any
  owner, such as a creator of the project who comes back as a plain member (`schema.sql:637`), although the organisation is to be "never stranded
  without anyone able to administer" it (`lib/userDataCleanup.ts:615`). So `OrganisationIsHandedOver` promises an admin while the leaver's
  account is there, and when it goes an owner of the project, at that moment: an owner by an override may be made none later. One that holds nothing is deleted although somebody
  accepted between the probe and the deletion.

*Documents*

- Two people who resolve edits of one document at the same time lose one change, and leave a hash of other bytes, "the
  one thing the manifest must never do" (`routes/documents.ts:1183`). The frontend disables its buttons, but within one
  window only. `HashNeverLies` is therefore about requests that do not overlap. A failing clear of the hash, which the code does
  not look at, does the same (read, not modelled).
- Two concurrent deletions may delete both of two versions (`:868`: "The last remaining version cannot be deleted").
- A turn's second edit after the deletion of its version makes the deleted version current, and the document unreadable
  (`lib/chat/tools/documentOps.ts:1296`). `processNewDocumentVersion` of the upload worker ignores `deleted_at` likewise (read).
- Deleting a version may bring a decided change's open mark back, with the version that becomes current.

*Not in a module, from reading*: the sweep of documents flips a document that an upload's retry has just taken up, until
it publishes; and it looks for a live conversion before it flips.

## 5. Proofs

Every safety invariant and every action property that a passing run checks is also proved for all values of the constants,
and so is the refinement of `JobLedger`. TLC found each inductive invariant to hold on the runs' instances before it was proved.

**Assumptions.** TLC evaluates them in the runs.

| Module | Assumption | Says |
|---|---|---|
| `DbJobs` | `ConstantsAssumption`, `KeysByKindAssumption` | types of the parameters; pollers are not workers; a budget is at least 1 (`check (max_attempts >= 1)`, `schema.sql:4510`); a key belongs to one kind |
| `TabularGeneration` | `TabularAssumption` | types; "all columns" is no column, "no generation" no request; an extraction job has at least one try |
| `UploadSessions` | `UploadAssumption` | types; the pre-existing document and "nobody" are not files or processes |
| `MemoryConsolidation` | `MemoryAssumption` | types; a job has at least one attempt (the same check) |
| `AccountErasure` | `ErasureAssumption` | types; the leaver is not among the others; at least one attempt, also of uploads (`UPLOAD_JOB_MAX_ATTEMPTS` is 3) and exports |
| `DocumentVersions` | `VersionsAssumption` | the first version is a version, "none" is none |

Six theorems have a hypothesis besides. Five of them, in `TabularGenerationProofs`, are about the constants that section 4.1 is
about: `Prompt`, no `LateEnqueue`, and no queue with writes that succeed. They say exactly under which
conditions the property holds, and 4.1 says what happens without. The sixth is `Bounded` in `DocumentVersionsProofs`:
the bounds on versions and edits are finite.

**Theorems.** `TypeCorrect` is `Spec => []TypeOK` in six of the modules, one for each component.

| Theorem | Statement | Invariant |
|---|---|---|
| `DbJobsProofs!TypeCorrect` | `Spec => []TypeOK` | `TypeOK` itself: attempts never fall below zero because a deferral takes back what its claim added |
| `FenceCorrect`, `SingleRunCorrect` | `Spec => []FenceNamesLatestClaim`, `[]NoDoubleRunBeforeStale` | `FenceInv` |
| `BudgetCorrect` | `Spec => []BudgetBoundsClaims` | `BudgetInv` |
| `KeysCorrect`, `FinishedCorrect`, `CleanupCorrect` | `Spec => []LiveKeyUnique`, `TerminalIsFinal`, `CleanupNeverLost` | `KeyInv`; the fence for the others |
| `HooksCorrect` | `Spec => []HookOnlyForSpentRows` | `HookInv` |
| `LedgerCorrect` | `Spec => ImplementsLedger` | all of them |
| `TabularGenerationProofs!TypeCorrect` | `Spec => []TypeOK` | `TypeInv` |
| `OrderCorrect` | `Prompt => (Spec => WritesFollowLeaseOrder)` | `OrderInv` |
| `LeaseCorrect` | `~LateEnqueue => (Spec => LeaseCoversWork)` | `IdleInv`, `EnqueuedInv` |
| `ResultsCorrect` | `Spec => RunsKeepResults` | `SkipInv` |
| `SweepCorrect` | `Prompt => (Spec => SweepFlipsOnlyOrphans)` | `OrphanInv` |
| `SpinnersCorrect` | `~Async /\ ~MayFail => (Spec => RequestLeavesNoSpinner)` | `SpinnerInv`, `HomeInv` |
| `RowsCorrect` | `~Async /\ ~MayFail => (Spec => RowsEndTheirSpinners)` | `MarkedInv` |
| `UploadSessionsProofs!TypeCorrect` | `Spec => []TypeOK` | `TypeOK` itself; no job is claimed more than `MaxAttempts` times |
| `CompletedForGood`, `CompletedStored` | `Spec => CompletedStays`, `[]CompletedIsStored` | `UploadInv`; `StoredInv` |
| `MemoryConsolidationProofs!TypeCorrect` | `Spec => []TypeOK` | `TypeInv` |
| `RevisionsCorrect`, `ForgettingCorrect`, `PrivacyCorrect` | `Spec => []RevisionNamesContent`, `[]ForgottenStaysForgotten`, `[]AppMemoryIsPrivate` | `RevisionInv`, `WorkInv`, `SeenInv`, `ContentInv` |
| `CommitsCorrect` | `Spec => CommitsOnAllThatWasSaid` | `WindowInv`, `SeenInv` |
| `ConsideredCorrect` | `Spec => []ProcessedMeansConsidered` | `ConsideredInv` |
| `AccountErasureProofs!TypeCorrect` | `Spec => []TypeOK` | `TypeInv` |
| `HandoverCorrect`, `ContentCorrect` | `Spec => OrganisationIsHandedOver`, `[]OrgContentSurvives` | `AdminInv`, `ContentInv` |
| `ErasureCorrect` | `Spec => []ErasureIsThorough` | `ErasureInv`, `BytesInv` |
| `DocumentVersionsProofs!TypeCorrect` | `Bounded => (Spec => []TypeOK)` | `DataInv` |
| `LiveVersionsHaveBytes` | `Spec => []LiveVersionHasBytes` | `BytesInv` |
| `NumbersCorrect` | `Spec => NumbersFollowInsertion` | `NumberInv` |
| `HashesCorrect` | `Spec => []HashNeverLies` | `AloneInv` |

### Why the invariants are needed

*Queue.* The fence compares timestamps and attempts, not claims. That an older claim cannot carry the current values
(`FenceInv`) follows only from the facts that no claim is ahead of the clock (`ClockAhead`), that a reclaimed claim is strictly
older than the row's present claimed_at (`Overtaken`), that the latest claim of a running row carries the row's
values (`LatestOwns`) and that a term is claimed once (`ClaimedOnce`). In particular saturated attempts do no harm: `claimed_at` alone
distinguishes the claims. `BudgetInv` says that attempts plus deferrals account for every claim, and that whatever can be claimed has
an attempt to spend. Two live rows cannot share a key (`KeyInv`), because an insertion
looks for a live row with its key, and a revived row comes back without one. `HookInv` says that an execution which was overtaken had budget left, so one
that throws with none is the latest of its row. The terms of `JobLedger` are the claims in their handlers.

*Tabular.* The stamps fence the writes of runs, but a request's first write is guarded by nothing. So `OrderInv` says two
things: the lease goes to requests in their order and is the last one's, and a stamp names whoever wrote its cell last. A guarded
write then repeats the last writer, and an unguarded one is the holder's own, as `LeaseInv` keeps a prompt request in
its lease until then. Ids do not come from nowhere nor come back (`NamesInv`): a generation that somebody found idle stays idle (`IdleInv`), which
covers the moments between a worker's or the sweep's look at the queue and its release. `OrphanInv` says of each step of the
sweep what it has read that stays so: once the lease was seen free, the generation of a stamp read before has enqueued
all it will. `SkipInv` says that of the cells a job's run has in hand, none that still carries its stamp is done. Without a
queue every spinner is in the hands of a run of its request (`SpinnerInv`), unless the request was stopped or has failed; it waits for its runs until one of them
fails (`HomeInv`). A cell that a row marked and has answered does not carry its stamp any more (`MarkedInv`), so what is left at its end is what it still
has in hand. What a request
enqueued is known to it (`EnqueuedInv`). Deaths and lost writes may happen at any step (`MayDie`, `MayFail`) except where a theorem excludes them.

*Uploads.* Workers write results by file, without a fence. `Settled` in `UploadInv` says that a worker which may still have a result
to report and owns the job looks at a file that is not completed, and that a completed file has no error. A worker reports only
right after it proved its ownership; every other write is guarded by a status or a kind of error that a completed file has
not. `StoredInv` says that what an owner has written of a document is there when it reports: others write only the same, and what a
worker may still delete is the content it saw before it published. A worker removes a document only when it failed
with the job's attempts spent, after which nobody owns the job.

*Memory.* A draft, or what a curator has read, is of the file as it is or of an earlier revision (`RevisionInv`); a queued job is about turns that ended
well and has the epochs its files had then (`WorkInv`); what an execution has seen is, but for what the limits drop, what its job shows as long as the conversation has not moved on, and
nothing that was cut off while the epochs agree (`SeenInv`). These make a write of what was forgotten, or private, one that the guard refuses. `WindowInv`: the
windows of a job whose conversation has not moved on are those of the conversation and of its actor, wherever turns that ended out of order have put
them. For `ConsideredInv` the current generation's job must have the current windows (`GenInv`), to people who can still read and edit (`PeopleInv`), and each file that an execution passes over
must need nothing more (`SettledInv`, `ThroughInv`).

*Erasure.* While the account is there the organisation has an admin (`AdminInv`), who owns its project; when the cascade takes the leaver's
membership, either that admin is somebody else or the guard has asked for another owner. `Progress` in `ErasureInv` says, by the place an execution has reached, what is gone and what it has in its memory of what is not. It
survives other executions because nothing that is to go comes back (`Shrinking`). `ContentInv` strengthens
`OrgContentSurvives` to what executions and the durable cleanup name. For the bytes, `BytesInv`: without a fault one execution
is under way, it owns the job, and files whose rows it deleted are in its memory.

*Documents.* `BytesInv` says of a request at each place (`Sound`) what it knows: a version it is about to insert is stored and has no row; a
version it is about to wipe is deleted; one it writes in place has a row. The first survives the steps of others only because a key without a
row belongs to the request that drew it (`Reserved`), the second because deleted rows stay deleted. `NumberInv`: the rows, deleted ones
included, are numbered without gaps, and a number read early is at most one more. `AloneInv`: until two requests have overlapped, what the
only one has read is still so. `DataInv`: a w:id is at most the number of edits its file has seen, open and decided (`Good`), and the edit
that takes the next one is new to every file (`Fresh`); that is why ids which are given again never run past the number of edits.
That a finite set of ids has a maximum at all is `MaxOfBounded`, by an injection instead of an induction.

**Only model-checked**: liveness, which with `ENABLED` is out of the prover's reach: `EveryJobSettles`, `CleanupCompletes`, `JobsSettle`,
`TurnsAreConsolidated`, `DeletionCompletes`, `GeneratingResolves`; and the two findings, which are behaviours.

## 6. Not modelled

- **Conversion worker.** All three callers of `enqueueConversion` pass `finalizeDocumentStatus: false`, so a conversion only fills in a
  rendition, fenced on the storage path it was made from (`workers/conversionWorker.ts:89`). The queue it runs on is `DbJobs`. (The job that
  would finalize a document's status is fenced in its rendition only; nobody enqueues it today.)
- **Chat streaming and tools.** Formatting and provider calls; a turn's memory and its edits are in `MemoryConsolidation` and
  `DocumentVersions`.
- **Word add-in protocol.** A tool call waits in one process for its client's answer, with a timeout; no state outlives the request.
- **Sign-in handoff and MCP connectors.** A code is consumed by one `DELETE … RETURNING`. What two refreshes with one token
  do depends on the provider's rotation policy.
- **Run progress.** Best-effort frames; every view polls the database as well.
- **Memory prompts and archive, workflows, search, audit, models.** Reads, and writes of one row at a time.
- **LLM providers and storage.** External; their failures are handlers that throw and calls that fail.
- **Web frontend and add-in client.** Presentation, more than half of the repository's lines; the one protocol in it, the
  browser's side of an upload, is in `UploadSessions`.

Of those modelled: connection handling and shutdown of Redis clients, the read-only views that tail a run, access checks
(a refused request changes nothing), the text of prompts, results and errors, and the CRUD around reviews, projects, folders and
invitations.
