------------------------- MODULE TabularGeneration -------------------------
(***************************************************************************)
(* One tabular review: its grid of cells, the generation lease on the      *)
(* review row, the requests that take the lease (generate, regenerate one  *)
(* cell, clear rows), the extraction jobs they hand their work to, the     *)
(* executions of those jobs, and the sweep that fails orphaned cells.      *)
(*                                                                         *)
(* A run is one call of extractRowColumns: an execution of an extraction   *)
(* job when Async, part of the request itself when not.  The queue is the  *)
(* DbJobs one, reduced to what a handler sees of it: at most one live job  *)
(* per key, fenced outcomes, a bounded number of tries, and executions     *)
(* that outlive the job they were claimed for.                             *)
(*                                                                         *)
(* The lease lapses when its holder has been quiet for too long; how long  *)
(* that takes is not modelled, so it may lapse at any time unless Prompt.  *)
(* Every cell of the grid exists and is text or nothing: a cell has        *)
(* content exactly when it is "done".                                      *)
(***************************************************************************)
EXTENDS Integers, FiniteSets

CONSTANTS
  Row, Col,         \* the review's rows and columns
  AllCols,          \* the column part of a full-row job's id
  Gen, NoGen,       \* ids of requests, which are generation ids, and null
  Async,            \* ASYNC_TABULAR_EXTRACTION
  MaxTries,         \* attempts of an extraction job
  Prompt,           \* a request enqueues or blanks before its lease can lapse
  LateEnqueue,      \* an enqueue that timed out may have been carried out
  MayDie,           \* requests and workers may die
  MayFail,          \* a query may fail where the code ignores or only logs it
  MaxRuns           \* bound: executions of jobs at a time, dead ones included

Cell == Row \X Col

\* extractionJobId: one key per row, and one per cell for a regeneration.
Key == Row \X (Col \cup {AllCols})
CellsOf(key) == {c \in Cell : c[1] = key[1] /\ key[2] \in {AllCols, c[2]}}

ASSUME TabularAssumption ==
  /\ AllCols \notin Col
  /\ NoGen \notin Gen
  /\ MaxTries \in Nat \ {0} /\ MaxRuns \in Nat
  /\ {Async, Prompt, LateEnqueue, MayDie, MayFail} \subseteq BOOLEAN

VARIABLES
  cells,      \* tabular_cells: status and generation_id of each cell
  lease,      \* active_generation_id, and whether it expires in the future
  requests,   \* what each request is doing
  jobs,       \* the extraction job of each key
  runs,       \* executions of extractRowColumns and what surrounds them
  sweep,      \* the stale-work sweep
  order,      \* history: the place of each request among the lease claims
  by          \* history: the place of the last request that wrote each cell

vars == <<cells, lease, requests, jobs, runs, sweep, order, by>>

Status == {"pending", "generating", "done", "error"}

NoRequest == [op |-> "none", pc |-> "idle", cells |-> {}, todo |-> {},
              enqueued |-> FALSE, aborted |-> FALSE]
NoJob == [gen |-> NoGen, state |-> "none", tries |-> 0, canceled |-> FALSE]
NoSweep == [pc |-> "idle", found |-> {}, condemned |-> {}, touched |-> {}]

RunPc == {"starting", "extracting", "failing", "settling", "checking", "releasing", "ending"}
Run == [gen : Gen, key : Key, tries : Nat, canceled : BOOLEAN, pc : RunPc,
        outstanding : SUBSET Cell, marked : SUBSET Cell,
        outcome : {"settled", "threw", "failed"}]
Request == [op : {"none", "generate", "regenerate", "clear"},
            pc : {"idle", "begun", "loaded", "claimed", "failed", "ending", "over"},
            cells : SUBSET Cell, todo : SUBSET Key, enqueued : BOOLEAN, aborted : BOOLEAN]

TypeOK ==
  /\ cells \in [Cell -> [status : Status, stamp : Gen \cup {NoGen}]]
  /\ lease \in [holder : Gen \cup {NoGen}, live : BOOLEAN]
  /\ requests \in [Gen -> Request]
  /\ jobs \in [Key -> [gen : Gen \cup {NoGen}, state : {"none", "pending", "running"},
                       tries : 0..MaxTries, canceled : BOOLEAN]]
  /\ runs \subseteq Run
  /\ sweep \in [pc : {"idle", "leasing", "flipping", "releasing"},
                found : SUBSET (Cell \X (Gen \cup {NoGen})),
                condemned : SUBSET (Cell \X (Gen \cup {NoGen})), touched : SUBSET Gen]
  /\ order \in [Gen -> Nat]
  /\ by \in [Cell -> Nat]

---------------------------------------------------------------------------
(* The database: the cells and the lease *)

Unfinished(S) == {c \in S : cells[c].status # "done"}
StampedBy(g, S) == {c \in S : cells[c].stamp = g}

\* An UPDATE by request g, or for it, of the cells S.
Write(g, S, status, stamp) ==
  /\ cells' = [c \in Cell |-> IF c \in S THEN [status |-> status, stamp |-> stamp] ELSE cells[c]]
  /\ by' = [c \in Cell |-> IF c \in S THEN order[g] ELSE by[c]]

\* An UPDATE that fails, its error ignored or logged: the caller goes on.
WriteLost == MayFail /\ UNCHANGED <<cells, by>>

\* The writes of a run are guarded by its stamp.
GuardedWrite(g, S, status, stamp) == Write(g, StampedBy(g, S), status, stamp) \/ WriteLost

\* An UPDATE of the stamp alone.
Stamp(g, S, stamp) ==
  /\ cells' = [c \in Cell |-> IF c \in S THEN [cells[c] EXCEPT !.stamp = stamp] ELSE cells[c]]
  /\ by' = [c \in Cell |-> IF c \in S THEN order[g] ELSE by[c]]

\* The request has returned; what it was about is forgotten, but not whether it
\* was told to stop, which its rows still under way look at.
Over(g) ==
  [requests EXCEPT ![g] = [NoRequest EXCEPT !.pc = "over", !.enqueued = requests[g].enqueued,
                                            !.aborted = requests[g].aborted]]

isReviewGenerationRunning == lease.holder # NoGen /\ lease.live

finish_tabular_review_generation(g) ==
  \/ lease' = IF lease.holder = g THEN [holder |-> NoGen, live |-> FALSE] ELSE lease
  \/ MayFail /\ UNCHANGED lease

\* At most one live job per key; a second enqueue is taken for a success.
LiveJob(key) == jobs[key].state # "none"
JobOf(g) == [gen |-> g, state |-> "pending", tries |-> 0, canceled |-> FALSE]

\* An inline run is part of its request; every try of a job has a number.
Inline(r) == r.tries = 0
AtWork(g) == \E r \in runs : r.gen = g /\ Inline(r)

---------------------------------------------------------------------------
(* Requests.  Each takes the lease first; one that is told the review is   *)
(* running, stale or gone returns and leaves no trace.                     *)

begin_tabular_review_generation(g, op, target) ==
  /\ requests[g].pc = "idle"
  /\ ~isReviewGenerationRunning
  /\ lease' = [holder |-> g, live |-> TRUE]
  /\ requests' = [requests EXCEPT ![g].op = op, ![g].pc = "begun", ![g].cells = target]
  /\ order' = [order EXCEPT ![g] = Cardinality({h \in Gen : order[h] # 0}) + 1]
  /\ UNCHANGED <<cells, jobs, runs, sweep, by>>

BeginGenerate(g) == begin_tabular_review_generation(g, "generate", {})
BeginRegenerate(g) == \E c \in Cell : begin_tabular_review_generation(g, "regenerate", {c})
BeginClear(g) ==
  \E R \in SUBSET Row \ {{}} : begin_tabular_review_generation(g, "clear", R \X Col)

\* Generate: snapshot the unfinished cells, after the lease is held.
loadTabularGenerateWork(g) ==
  /\ requests[g].op = "generate" /\ requests[g].pc = "begun"
  /\ requests' = [requests EXCEPT ![g].cells = Unfinished(Cell),
                    ![g].pc = IF Unfinished(Cell) = {} \/ requests[g].aborted
                              THEN "ending" ELSE "loaded"]
  /\ UNCHANGED <<cells, lease, jobs, runs, sweep, order, by>>

\* The runs of a synchronous request, one per row.
InlineRun(g, key, S) ==
  [gen |-> g, key |-> key, tries |-> 0, canceled |-> FALSE, pc |-> "starting",
   outstanding |-> S, marked |-> {}, outcome |-> "settled"]

\* Generate: stamp every cell of the snapshot, whatever became of it since.
claimCellsForGeneration(g) ==
  LET S == requests[g].cells
      rows == {key \in Row \X {AllCols} : CellsOf(key) \cap S # {}}
  IN  /\ requests[g].op = "generate" /\ requests[g].pc = "loaded"
      /\ Stamp(g, S, g)
      /\ requests' = [requests EXCEPT ![g].pc = "claimed", ![g].todo = IF Async THEN rows ELSE {}]
      /\ runs' = IF Async THEN runs
                 ELSE runs \cup {InlineRun(g, key, CellsOf(key) \cap S) : key \in rows}
      /\ UNCHANGED <<lease, jobs, sweep, order>>

\* Regenerate: blank and stamp the one cell.
regenerateCell(g) ==
  LET keys == {<<c[1], c[2]>> : c \in requests[g].cells}
  IN  /\ requests[g].op = "regenerate" /\ requests[g].pc = "begun"
      /\ Write(g, requests[g].cells, "generating", g)
      /\ requests' = [requests EXCEPT ![g].pc = "claimed", ![g].todo = IF Async THEN keys ELSE {}]
      /\ runs' = IF Async THEN runs
                 ELSE runs \cup {[InlineRun(g, key, CellsOf(key)) EXCEPT
                                    !.pc = "extracting", !.marked = CellsOf(key)] : key \in keys}
      /\ UNCHANGED <<lease, jobs, sweep, order>>

\* Loading the work or claiming the cells fails: the request reports it and ends.
requestFails(g) ==
  /\ \/ requests[g].op = "generate" /\ requests[g].pc \in {"begun", "loaded"}
     \/ requests[g].op = "regenerate" /\ requests[g].pc = "begun"
  /\ requests' = [requests EXCEPT ![g].pc = "ending"]
  /\ UNCHANGED <<cells, lease, jobs, runs, sweep, order, by>>

\* Hand one key's work to the queue: inserted, or deduplicated into the live
\* job of that key; or the call fails, with or without the job being there.
enqueueExtraction(g, key) ==
  LET insert == IF LiveJob(key) THEN jobs ELSE [jobs EXCEPT ![key] = JobOf(g)]
  IN  /\ requests[g].pc = "claimed" /\ key \in requests[g].todo
      /\ \/ /\ jobs' = insert
            /\ requests' = [requests EXCEPT ![g].todo = @ \ {key}, ![g].enqueued = TRUE]
            /\ UNCHANGED <<cells, by>>
         \/ /\ jobs' = jobs \/ (LateEnqueue /\ jobs' = insert)
            /\ requests' = [requests EXCEPT ![g].todo = @ \ {key}]
            /\ IF requests[g].op = "regenerate"
               THEN GuardedWrite(g, CellsOf(key), "error", NoGen)
               ELSE UNCHANGED <<cells, by>>
  /\ UNCHANGED <<lease, runs, sweep, order>>

\* All of it is handed over: the jobs own the lease, unless there are none.
\* A synchronous request gets here when its runs are through.
handOver(g) ==
  /\ requests[g].op \in {"generate", "regenerate"}
  /\ requests[g].pc = "claimed" /\ requests[g].todo = {}
  /\ ~AtWork(g)
  /\ requests' = IF requests[g].enqueued THEN Over(g) ELSE [requests EXCEPT ![g].pc = "ending"]
  /\ UNCHANGED <<cells, lease, jobs, runs, sweep, order, by>>

\* Clear: waiting jobs of the rows go, running ones are marked; best effort,
\* key by key.
removeQueuedExtractionJobs(g) ==
  LET keys == {key \in Key : CellsOf(key) \cap requests[g].cells # {} /\ LiveJob(key)}
  IN  /\ requests[g].op = "clear" /\ requests[g].pc = "begun"
      /\ \E reached \in SUBSET keys :
           jobs' = [key \in Key |->
                      IF key \notin reached THEN jobs[key]
                      ELSE IF jobs[key].state = "pending" THEN NoJob
                      ELSE [jobs[key] EXCEPT !.canceled = TRUE]]
      /\ requests' = [requests EXCEPT ![g].pc = "loaded"]
      /\ UNCHANGED <<cells, lease, runs, sweep, order, by>>

\* Clear: blank the cells, or fail to.
clearCells(g) ==
  /\ requests[g].op = "clear" /\ requests[g].pc = "loaded"
  /\ Write(g, requests[g].cells, "pending", NoGen) \/ UNCHANGED <<cells, by>>
  /\ requests' = [requests EXCEPT ![g].pc = "ending"]
  /\ UNCHANGED <<lease, jobs, runs, sweep, order>>

\* The request releases the lease it still owns; one of whose rows failed, at
\* once, its other rows going on without it.
releaseLease(g) ==
  /\ requests[g].pc \in {"ending", "failed"}
  /\ finish_tabular_review_generation(g)
  /\ requests' = Over(g)
  /\ UNCHANGED <<cells, jobs, runs, sweep, order, by>>

\* A generate is told to stop: the client left, or its heartbeat found the
\* lease gone.  Once the queue has the work nobody listens.  A renewal under
\* way when a synchronous one failed may still stop the rows that go on.
abortGeneration(g) ==
  /\ ~requests[g].aborted
  /\ \/ requests[g].op = "generate" /\ requests[g].pc = "begun"
     \/ requests[g].op = "generate" /\ ~Async /\ requests[g].pc \in {"loaded", "claimed"}
     \/ requests[g].pc \in {"failed", "over"} /\ AtWork(g)
  /\ requests' = [requests EXCEPT ![g].aborted = TRUE]
  /\ UNCHANGED <<cells, lease, jobs, runs, sweep, order, by>>

\* The process of a request dies, and its inline runs with it.
requestDies(g) ==
  /\ MayDie
  /\ requests[g].pc # "idle"
  /\ requests[g].pc # "over" \/ AtWork(g)
  /\ requests' = Over(g)
  /\ runs' = {r \in runs : ~(r.gen = g /\ Inline(r))}
  /\ UNCHANGED <<cells, lease, jobs, sweep, order, by>>

---------------------------------------------------------------------------
(* Runs *)

Becomes(r, q) == runs' = (runs \ {r}) \cup {q}
Gone(r) == runs' = runs \ {r}

\* A worker takes the waiting job of a key, with the payload as it is now.
startJob(key) ==
  /\ jobs[key].state = "pending"
  /\ Cardinality(runs) < MaxRuns
  /\ jobs' = [jobs EXCEPT ![key].state = "running", ![key].tries = @ + 1]
  /\ runs' = runs \cup {[InlineRun(jobs[key].gen, key, {}) EXCEPT
                           !.tries = jobs[key].tries + 1, !.canceled = jobs[key].canceled]}
  /\ UNCHANGED <<cells, lease, requests, sweep, order, by>>

\* Mutant: every column of the row is outstanding.
loadWholeRow(r) ==
  /\ r.pc = "starting" /\ ~Inline(r)
  /\ Becomes(r, IF r.canceled THEN [r EXCEPT !.pc = "settling"]
                ELSE [r EXCEPT !.pc = "extracting", !.outstanding = CellsOf(r.key)])
  /\ UNCHANGED <<cells, lease, requests, jobs, sweep, order, by>>

\* A canceled job, one whose row has nothing left, and one that cannot read
\* its review or row, has settled.
loadRow(r) ==
  LET S == Unfinished(CellsOf(r.key))
      settled == [r EXCEPT !.pc = "settling"]
  IN  /\ r.pc = "starting" /\ ~Inline(r)
      /\ \/ Becomes(r, IF r.canceled \/ S = {} THEN settled
                       ELSE [r EXCEPT !.pc = "extracting", !.outstanding = S])
         \/ MayFail /\ Becomes(r, settled)
      /\ UNCHANGED <<cells, lease, requests, jobs, sweep, order, by>>

\* The owner may no longer use the review's model, or looking that up throws.
loadThrows(r) ==
  /\ r.pc = "starting" /\ ~Inline(r) /\ ~r.canceled
  /\ Becomes(r, [r EXCEPT !.pc = "checking", !.outcome = "threw"])
  /\ UNCHANGED <<cells, lease, requests, jobs, sweep, order, by>>

\* A synchronous request's row: from its snapshot, unless told to stop.
startRow(r) ==
  /\ r.pc = "starting" /\ Inline(r)
  /\ IF requests[r.gen].aborted THEN Gone(r) ELSE Becomes(r, [r EXCEPT !.pc = "extracting"])
  /\ UNCHANGED <<cells, lease, requests, jobs, sweep, order, by>>

\* Loading the row's documents throws: the worker of that row is lost, and with
\* it the request, which waits for no other row.
rowThrows(r) ==
  /\ r.pc = "starting" /\ Inline(r)
  /\ Gone(r)
  /\ requests' = [requests EXCEPT ![r.gen].pc = IF @ = "claimed" THEN "failed" ELSE @]
  /\ UNCHANGED <<cells, lease, jobs, sweep, order, by>>

\* Mutant: the mark is not guarded by the stamp.
markUnguarded(r) ==
  \E c \in r.outstanding \ r.marked :
    /\ r.pc = "extracting"
    /\ Write(r.gen, {c}, "generating", r.gen)
    /\ Becomes(r, [r EXCEPT !.marked = @ \cup {c}])
    /\ UNCHANGED <<lease, requests, jobs, sweep, order>>

\* One column is marked "generating" before the model is asked.
markGenerating(r) ==
  \E c \in r.outstanding \ r.marked :
    /\ r.pc = "extracting"
    /\ GuardedWrite(r.gen, {c}, "generating", r.gen)
    /\ Becomes(r, [r EXCEPT !.marked = @ \cup {c}])
    /\ UNCHANGED <<lease, requests, jobs, sweep, order>>

\* Mutant: a result is written whoever has the cell.
receiveUnguarded(r) ==
  \E c \in r.outstanding :
    /\ r.pc = "extracting" /\ r.outstanding \subseteq r.marked
    /\ Write(r.gen, {c}, "done", NoGen)
    /\ Becomes(r, [r EXCEPT !.outstanding = @ \ {c}])
    /\ UNCHANGED <<lease, requests, jobs, sweep, order>>

\* The model returns one column; it may return none of them, or only some.
receiveColumn(r) ==
  \E c \in r.outstanding :
    /\ r.pc = "extracting" /\ r.outstanding \subseteq r.marked
    /\ GuardedWrite(r.gen, {c}, "done", NoGen)
    /\ Becomes(r, [r EXCEPT !.outstanding = @ \ {c}])
    /\ UNCHANGED <<lease, requests, jobs, sweep, order>>

\* Mutant: a synchronous row leaves its missing cells as they are.
answerDropped(r) ==
  /\ r.pc = "extracting" /\ r.outstanding \subseteq r.marked
  /\ Gone(r)
  /\ UNCHANGED <<cells, lease, requests, jobs, sweep, order, by>>

\* Mutant: a synchronous row that was told to stop leaves its cells as they are.
answerLeftWhenStopped(r) ==
  /\ r.pc = "extracting" /\ r.outstanding \subseteq r.marked
  /\ IF requests[r.gen].aborted THEN UNCHANGED <<cells, by>>
     ELSE GuardedWrite(r.gen, r.outstanding, "error", NoGen)
  /\ Gone(r)
  /\ UNCHANGED <<lease, requests, jobs, sweep, order>>

\* The call is over: a job settles or throws for a retry, its missing cells
\* left as they are; a synchronous row finalizes them.
answerEnds(r) ==
  /\ r.pc = "extracting" /\ r.outstanding \subseteq r.marked
  /\ IF Inline(r)
     THEN /\ GuardedWrite(r.gen, r.outstanding,
                          IF requests[r.gen].aborted THEN "pending" ELSE "error", NoGen)
          /\ Gone(r)
     ELSE /\ Becomes(r, IF r.outstanding = {}
                        THEN [r EXCEPT !.pc = "settling", !.marked = {}]
                        ELSE [r EXCEPT !.pc = "checking", !.outcome = "threw",
                                       !.outstanding = {}, !.marked = {}])
          /\ UNCHANGED <<cells, by>>
  /\ UNCHANGED <<lease, requests, jobs, sweep, order>>

\* The job is through with its row: its stamp goes from the cells it skipped.
clearRowGenerationStamp(r) ==
  /\ r.pc = "settling"
  /\ Stamp(r.gen, StampedBy(r.gen, CellsOf(r.key)), NoGen) \/ WriteLost
  /\ Becomes(r, [r EXCEPT !.pc = "checking"])
  /\ UNCHANGED <<lease, requests, jobs, sweep, order>>

\* Mutant: only the cells of this job's row are looked at.
checkOwnRow(r) ==
  /\ r.pc = "checking"
  /\ Becomes(r, [r EXCEPT !.pc = IF StampedBy(r.gen, CellsOf(r.key)) = {}
                                 THEN "releasing" ELSE "ending"])
  /\ UNCHANGED <<cells, lease, requests, jobs, sweep, order, by>>

\* finishGenerationIfIdle: look, then release; a failed look is taken for "busy".
checkIdle(r) ==
  /\ r.pc = "checking"
  /\ \/ Becomes(r, [r EXCEPT !.pc = IF StampedBy(r.gen, Cell) = {} THEN "releasing" ELSE "ending"])
     \/ MayFail /\ Becomes(r, [r EXCEPT !.pc = "ending"])
  /\ UNCHANGED <<cells, lease, requests, jobs, sweep, order, by>>

releaseIdle(r) ==
  /\ r.pc = "releasing"
  /\ finish_tabular_review_generation(r.gen)
  /\ Becomes(r, [r EXCEPT !.pc = "ending"])
  /\ UNCHANGED <<cells, requests, jobs, sweep, order, by>>

\* The queue takes the outcome only of the job's present try.  A spent job
\* fails, and its hook runs whether or not the outcome was taken.
Owns(r) == LET j == jobs[r.key] IN j.state = "running" /\ j.gen = r.gen /\ j.tries = r.tries

\* Mutant: one try too many.
jobEndsLate(r) ==
  LET spent == r.tries > MaxTries
  IN  /\ r.pc = "ending"
      /\ jobs' = IF r.outcome = "failed" \/ ~Owns(r) THEN jobs
                 ELSE IF r.outcome = "threw" /\ ~spent
                      THEN [jobs EXCEPT ![r.key].state = "pending"]
                      ELSE [jobs EXCEPT ![r.key] = NoJob]
      /\ Gone(r)
      /\ UNCHANGED <<cells, lease, requests, sweep, order, by>>

\* The end of one execution.
jobEnds(r) ==
  LET spent == r.tries >= MaxTries
  IN  /\ r.pc = "ending"
      /\ jobs' = IF r.outcome = "failed" \/ ~Owns(r) THEN jobs
                 ELSE IF r.outcome = "threw" /\ ~spent
                      THEN [jobs EXCEPT ![r.key].state = "pending"]
                      ELSE [jobs EXCEPT ![r.key] = NoJob]
      /\ IF r.outcome = "threw" /\ spent
         THEN Becomes(r, [r EXCEPT !.pc = "failing", !.outcome = "failed"])
         ELSE Gone(r)
      /\ UNCHANGED <<cells, lease, requests, sweep, order, by>>

\* The hook of a spent job; it goes on to clear the stamp and check the lease.
markExtractionFailed(r) ==
  /\ r.pc = "failing"
  /\ GuardedWrite(r.gen, Unfinished(CellsOf(r.key)), "error", NoGen)
  /\ Becomes(r, [r EXCEPT !.pc = "settling"])
  /\ UNCHANGED <<lease, requests, jobs, sweep, order>>

runDies(r) ==
  /\ MayDie /\ ~Inline(r)
  /\ Gone(r)
  /\ UNCHANGED <<cells, lease, requests, jobs, sweep, order, by>>

\* The queue takes an execution for dead: the job waits again, or is abandoned
\* without its hook.  The execution may still be there.
loseJob(key) ==
  /\ MayDie /\ jobs[key].state = "running"
  /\ jobs' = IF jobs[key].tries < MaxTries THEN [jobs EXCEPT ![key].state = "pending"]
             ELSE [jobs EXCEPT ![key] = NoJob]
  /\ UNCHANGED <<cells, lease, requests, runs, sweep, order, by>>

---------------------------------------------------------------------------
(* The lease in time *)

HasHeartbeat(g) ==
  \/ /\ requests[g].op \in {"generate", "regenerate"}
     /\ requests[g].pc \in IF Async THEN {"begun"} ELSE {"begun", "loaded", "claimed"}
     /\ ~requests[g].aborted
  \/ \E r \in runs : r.gen = g /\ ~Inline(r) /\ r.pc \in {"starting", "extracting"}

\* The renewal asks who holds the lease, not whether it has expired.
renewGeneration(g) ==
  /\ HasHeartbeat(g) /\ lease.holder = g /\ ~lease.live
  /\ lease' = [lease EXCEPT !.live = TRUE]
  /\ UNCHANGED <<cells, requests, jobs, runs, sweep, order, by>>

\* A request that Prompt keeps from being overtaken.
Hurried(g) == requests[g].pc \in {"begun", "loaded"} \/ (Async /\ requests[g].pc = "claimed")

leaseLapses ==
  /\ isReviewGenerationRunning
  /\ Prompt => ~Hurried(lease.holder)
  /\ lease' = [lease EXCEPT !.live = FALSE]
  /\ UNCHANGED <<cells, requests, jobs, runs, sweep, order, by>>

---------------------------------------------------------------------------
(* sweepStaleGeneratingCells *)

sweepReadsCells ==
  /\ Async /\ sweep.pc = "idle"
  /\ LET S == {c \in Cell : cells[c].status = "generating"}
     IN  /\ S # {}
         /\ sweep' = [NoSweep EXCEPT !.pc = "leasing", !.found = {<<c, cells[c].stamp>> : c \in S}]
  /\ UNCHANGED <<cells, lease, requests, jobs, runs, order, by>>

\* Mutant: a lease that has lapsed still protects the review.
sweepReadsHolder ==
  /\ sweep.pc = "leasing"
  /\ sweep' = IF lease.holder # NoGen THEN NoSweep ELSE [sweep EXCEPT !.pc = "flipping"]
  /\ UNCHANGED <<cells, lease, requests, jobs, runs, order, by>>

\* An unexpired lease protects every cell of its review.
sweepReadsLease ==
  /\ sweep.pc = "leasing"
  /\ sweep' = IF isReviewGenerationRunning THEN NoSweep ELSE [sweep EXCEPT !.pc = "flipping"]
  /\ UNCHANGED <<cells, lease, requests, jobs, runs, order, by>>

\* Mutant: only full-row jobs are looked up.
sweepReadsRowJobs ==
  \E f \in sweep.found \ sweep.condemned :
    /\ sweep.pc = "flipping"
    /\ sweep' = IF LiveJob(<<f[1][1], AllCols>>)
                THEN [sweep EXCEPT !.found = @ \ {f}]
                ELSE [sweep EXCEPT !.condemned = @ \cup {f}]
    /\ UNCHANGED <<cells, lease, requests, jobs, runs, order, by>>

\* Neither the row's job nor the cell's own is in the queue.
sweepReadsJobs ==
  \E f \in sweep.found \ sweep.condemned :
    /\ sweep.pc = "flipping"
    /\ sweep' = IF \E key \in Key : f[1] \in CellsOf(key) /\ LiveJob(key)
                THEN [sweep EXCEPT !.found = @ \ {f}]
                ELSE [sweep EXCEPT !.condemned = @ \cup {f}]
    /\ UNCHANGED <<cells, lease, requests, jobs, runs, order, by>>

\* finalizeCell, guarded by the stamp that was read if there was one.
FlippedBySweep(f) ==
  IF f[2] = NoGen THEN {f[1]} ELSE StampedBy(f[2], {f[1]})

sweepFlips ==
  \E f \in sweep.condemned :
    /\ sweep.pc = "flipping"
    /\ cells' = [c \in Cell |-> IF c \in FlippedBySweep(f)
                                THEN [status |-> "error", stamp |-> NoGen] ELSE cells[c]]
    /\ sweep' = [sweep EXCEPT !.found = @ \ {f}, !.condemned = @ \ {f},
                              !.touched = @ \cup ({f[2]} \ {NoGen})]
    /\ UNCHANGED <<lease, requests, jobs, runs, order, by>>

sweepChecksIdle ==
  /\ sweep.pc = "flipping" /\ sweep.found = {}
  /\ sweep' = LET idle == {g \in sweep.touched : StampedBy(g, Cell) = {}}
              IN  IF idle = {} THEN NoSweep
                  ELSE [NoSweep EXCEPT !.pc = "releasing", !.touched = idle]
  /\ UNCHANGED <<cells, lease, requests, jobs, runs, order, by>>

sweepReleases ==
  \E g \in sweep.touched :
    /\ sweep.pc = "releasing"
    /\ finish_tabular_review_generation(g)
    /\ sweep' = IF sweep.touched = {g} THEN NoSweep ELSE [sweep EXCEPT !.touched = @ \ {g}]
    /\ UNCHANGED <<cells, requests, jobs, runs, order, by>>

---------------------------------------------------------------------------
Init ==
  /\ \E S \in SUBSET Cell :
       cells = [c \in Cell |-> [status |-> IF c \in S THEN "done" ELSE "pending",
                                stamp |-> NoGen]]
  /\ lease = [holder |-> NoGen, live |-> FALSE]
  /\ requests = [g \in Gen |-> NoRequest]
  /\ jobs = [key \in Key |-> NoJob]
  /\ runs = {}
  /\ sweep = NoSweep
  /\ order = [g \in Gen |-> 0]
  /\ by = [c \in Cell |-> 0]

requestStep(g) ==
  \/ loadTabularGenerateWork(g) \/ claimCellsForGeneration(g) \/ regenerateCell(g)
  \/ requestFails(g) \/ (\E key \in Key : enqueueExtraction(g, key)) \/ handOver(g)
  \/ removeQueuedExtractionJobs(g) \/ clearCells(g) \/ releaseLease(g)

runStep(r) ==
  \/ loadRow(r) \/ loadThrows(r) \/ startRow(r) \/ rowThrows(r) \/ markGenerating(r) \/ receiveColumn(r)
  \/ answerEnds(r) \/ clearRowGenerationStamp(r) \/ checkIdle(r) \/ releaseIdle(r)
  \/ jobEnds(r) \/ markExtractionFailed(r)

sweepStep ==
  \/ sweepReadsCells \/ sweepReadsLease \/ sweepReadsJobs \/ sweepFlips
  \/ sweepChecksIdle \/ sweepReleases

Next ==
  \/ \E g \in Gen : \/ BeginGenerate(g) \/ BeginRegenerate(g) \/ BeginClear(g)
                    \/ requestStep(g) \/ abortGeneration(g) \/ requestDies(g)
                    \/ renewGeneration(g)
  \/ \E key \in Key : startJob(key) \/ loseJob(key)
  \/ \E r \in runs : runStep(r) \/ runDies(r)
  \/ leaseLapses
  \/ sweepStep

Spec == Init /\ [][Next]_vars

\* Requests and executions that live go on, the queue finds a worker for a
\* waiting job and notices a dead one, the sweep's timer ticks, and a lease
\* nobody renews lapses.
Abandoned(key) == ~\E r \in runs : r.key = key /\ Owns(r)

Fairness ==
  /\ \A g \in Gen : WF_vars(requestStep(g))
  /\ WF_vars(\E r \in runs : runStep(r))
  /\ \A key \in Key : WF_vars(startJob(key)) /\ WF_vars(Abandoned(key) /\ loseJob(key))
  /\ WF_vars(leaseLapses /\ ~HasHeartbeat(lease.holder))
  /\ WF_vars(sweepStep)

FairSpec == Spec /\ Fairness

---------------------------------------------------------------------------
(* Properties *)

\* A superseded run never overwrites the winner: the last request to have
\* written a cell is never one whose lease is older than the one before it.
WritesFollowLeaseOrder ==
  [][\A c \in Cell : by'[c] >= by[c]]_vars

\* The lease is not given up while the queue still has work of its holder: a
\* live job of its generation over a cell the generation has claimed.
LeaseCoversWork ==
  [][\A g \in Gen : lease.holder = g /\ lease'.holder = NoGen =>
       ~\E key \in Key : /\ LiveJob(key) /\ jobs[key].gen = g
                         /\ StampedBy(g, CellsOf(key)) # {}]_vars

\* No execution of a job takes a result away: one that was superseded, retried
\* or reclaimed skips what is done by the time it writes.
RunsKeepResults ==
  [][Async => \A c \in Cell :
       cells[c].status = "done" /\ cells'[c].status # "done" => runs' = runs]_vars

\* The sweep fails no claimed cell that a job in the queue would still fill.
SweepFlipsOnlyOrphans ==
  [][\A f \in sweep.condemned :
       f \notin sweep'.condemned /\ f[2] # NoGen /\ cells'[f[1]] # cells[f[1]] =>
         ~\E key \in Key : /\ f[1] \in CellsOf(key) /\ LiveJob(key)
                           /\ jobs[key].gen = f[2]]_vars

\* A request that is through, was not told to stop and none of whose rows failed
\* to load leaves no spinner of its own when it lets go of the lease, one it took
\* over from an expired request included.
RequestLeavesNoSpinner ==
  [][\A g \in Gen : releaseLease(g) /\ requests[g].pc = "ending" /\ ~requests[g].aborted =>
       \A c \in StampedBy(g, Cell) : cells[c].status # "generating"]_vars

\* A synchronous row that ends, in whatever way but by the death of its process,
\* has ended every spinner it made itself, also when its request was told to
\* stop or has failed and given up the lease in the meantime.
RowEnds(r) ==
  /\ Inline(r) /\ ~requestDies(r.gen)
  /\ \A q \in runs' : ~(q.gen = r.gen /\ q.key = r.key)

RowsEndTheirSpinners ==
  [][\A r \in runs : RowEnds(r) =>
       \A c \in r.marked : cells'[c].stamp = r.gen => cells'[c].status # "generating"]_vars

\* No spinner is for ever, whoever dies: the hook of a spent job or the sweep
\* puts an end to it.
GeneratingResolves ==
  \A c \in Cell : (cells[c].status = "generating") ~> (cells[c].status # "generating")
=============================================================================
