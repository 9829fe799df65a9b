----------------------- MODULE TabularGenerationProofs -----------------------
(***************************************************************************)
(* What the generation lease and the stamps buy, for every instance of     *)
(* TabularGeneration: for any grid, any number of requests, executions and *)
(* tries, and for failing queries and deaths at any step.                  *)
(*                                                                         *)
(* Names.  A request's id gets on a cell, a job, a run or the sweep's list *)
(* when it claims its cells or later (NamesInv), and no stamp comes back   *)
(* once it is gone; who found a generation idle stays right (IdleInv).     *)
(*                                                                         *)
(* The order of writes.  The holder is the last request to have taken the  *)
(* lease, and a stamp names the last to have written its cell (OrderInv).  *)
(* So a guarded write repeats the cell's last writer, and an unguarded one *)
(* is by the holder (LeaseInv): the claim and the blanking are made by a   *)
(* request that Prompt keeps in its lease.                                 *)
(*                                                                         *)
(* Orphans.  While a request still enqueues, it has the lease (LeaseInv),  *)
(* so the generation of a stamp the sweep read before it saw the lease     *)
(* free has enqueued all it will; a cell without a job then stays without  *)
(* one of that generation (OrphanInv).                                     *)
(*                                                                         *)
(* Results.  A job's run starts from cells that are not done, and done     *)
(* cells carry no stamp but one claimed later (SkipInv).                   *)
(*                                                                         *)
(* The lease and the queue.  Who enqueued nothing has no job (EnqueuedInv).*)
(*                                                                         *)
(* Spinners.  Without a queue every spinner is in the hands of an inline   *)
(* run of its request (SpinnerInv), which waits for its runs unless one of *)
(* them fails (HomeInv).  What a run made a spinner and has answered is no *)
(* longer its generation's (MarkedInv).                                    *)
(***************************************************************************)
EXTENDS TabularGeneration, FiniteSetTheorems, TLAPS

CellRow == [status : Status, stamp : Gen \cup {NoGen}]
JobRow == [gen : Gen \cup {NoGen}, state : {"none", "pending", "running"},
           tries : 0..MaxTries, canceled : BOOLEAN]
SweepRow == [pc : {"idle", "leasing", "flipping", "releasing"},
             found : SUBSET (Cell \X (Gen \cup {NoGen})),
             condemned : SUBSET (Cell \X (Gen \cup {NoGen})), touched : SUBSET Gen]

\* The requests that have taken the lease so far.
Begun == {h \in Gen : order[h] # 0}

CellsType == cells \in [Cell -> CellRow]
LeaseType == lease \in [holder : Gen \cup {NoGen}, live : BOOLEAN]
RequestsType == requests \in [Gen -> Request]
JobsType ==
  /\ jobs \in [Key -> JobRow]
  /\ \A key \in Key : LiveJob(key) => jobs[key].gen \in Gen
  /\ \A key \in Key : jobs[key].state = "pending" => jobs[key].tries < MaxTries
RunsType == runs \subseteq Run
SweepType == sweep \in SweepRow
OrderType == order \in [Gen -> Nat] /\ IsFiniteSet(Begun)
ByType == by \in [Cell -> Nat]

\* What the handlers of the review write, and what surrounds it.
GridType == CellsType /\ ByType /\ RunsType
RestType == LeaseType /\ RequestsType /\ JobsType /\ SweepType /\ OrderType

TypeInv == GridType /\ RestType

LEMMA TypesAreTypes == TypeInv => TypeOK
BY DEF TypeInv, GridType, RestType, TypeOK, CellsType, LeaseType, RequestsType, JobsType,
       RunsType, SweepType, OrderType, ByType, CellRow, JobRow, SweepRow

LEMMA CellsOfKey == \A key \in Key : CellsOf(key) \subseteq Cell
BY DEF CellsOf

LEMMA FullRow ==
  ASSUME NEW c \in Cell
  PROVE  /\ <<c[1], AllCols>> \in Key /\ c \in CellsOf(<<c[1], AllCols>>)
         /\ <<c[1], c[2]>> \in Key /\ CellsOf(<<c[1], c[2]>>) = {c}
BY TabularAssumption DEF Cell, Key, CellsOf, TabularAssumption

LEMMA WriteType ==
  ASSUME CellsType, ByType, OrderType, NEW g \in Gen, NEW S,
         NEW status \in Status, NEW stamp \in Gen \cup {NoGen}, Write(g, S, status, stamp)
  PROVE  CellsType' /\ ByType'
BY DEF CellsType, ByType, OrderType, CellRow, Write

LEMMA GuardedWriteType ==
  ASSUME CellsType, ByType, OrderType, NEW g \in Gen, NEW S,
         NEW status \in Status, NEW stamp \in Gen \cup {NoGen}, GuardedWrite(g, S, status, stamp)
  PROVE  CellsType' /\ ByType'
<1>1. CASE Write(g, StampedBy(g, S), status, stamp)
  BY <1>1, WriteType
<1>2. CASE WriteLost
  BY <1>2 DEF WriteLost, CellsType, ByType
<1>. QED BY <1>1, <1>2 DEF GuardedWrite

LEMMA StampType ==
  ASSUME CellsType, ByType, OrderType, NEW g \in Gen, NEW S,
         NEW stamp \in Gen \cup {NoGen}, Stamp(g, S, stamp)
  PROVE  CellsType' /\ ByType'
BY DEF CellsType, ByType, OrderType, CellRow, Stamp

LEMMA BecomesType ==
  ASSUME RunsType, NEW r, NEW q \in Run, Becomes(r, q)
  PROVE  RunsType'
BY DEF RunsType, Becomes

LEMMA RunWrites ==
  ASSUME NEW r \in Run, NEW pc \in RunPc, NEW out \in SUBSET Cell, NEW marked \in SUBSET Cell,
         NEW outcome \in {"settled", "threw", "failed"}
  PROVE  /\ [r EXCEPT !.pc = pc] \in Run
         /\ [r EXCEPT !.outstanding = out] \in Run
         /\ [r EXCEPT !.marked = marked] \in Run
         /\ [r EXCEPT !.pc = pc, !.outstanding = out] \in Run
         /\ [r EXCEPT !.pc = pc, !.marked = marked] \in Run
         /\ [r EXCEPT !.pc = pc, !.outcome = outcome] \in Run
         /\ [r EXCEPT !.pc = pc, !.outcome = outcome, !.outstanding = out, !.marked = marked] \in Run
BY DEF Run

LEMMA InlineRunType ==
  ASSUME NEW g \in Gen, NEW key \in Key, NEW S \in SUBSET Cell
  PROVE  /\ InlineRun(g, key, S) \in Run
         /\ [InlineRun(g, key, S) EXCEPT !.pc = "extracting", !.marked = S] \in Run
         /\ \A n \in Nat, b \in BOOLEAN :
              [InlineRun(g, key, S) EXCEPT !.tries = n, !.canceled = b] \in Run
BY DEF InlineRun, Run, RunPc

LEMMA RequestWrites ==
  ASSUME NEW q \in Request, NEW pc \in {"idle", "begun", "loaded", "claimed", "failed", "ending", "over"},
         NEW S \in SUBSET Cell, NEW todo \in SUBSET Key
  PROVE  /\ [q EXCEPT !.cells = S, !.pc = pc] \in Request
         /\ [q EXCEPT !.pc = pc, !.todo = todo] \in Request
BY DEF Request

LEMMA OverType ==
  ASSUME RequestsType, NEW g \in Gen
  PROVE  Over(g) \in [Gen -> Request]
BY DEF RequestsType, Over, Request, NoRequest

LEMMA FinishType ==
  ASSUME LeaseType, NEW g, finish_tabular_review_generation(g)
  PROVE  LeaseType' /\ lease' \in {lease, [holder |-> NoGen, live |-> FALSE]}
<1>1. lease' = lease \/ lease' = [holder |-> NoGen, live |-> FALSE]
  BY Zenon DEF finish_tabular_review_generation
<1>2. [holder |-> NoGen, live |-> FALSE] \in [holder : Gen \cup {NoGen}, live : BOOLEAN]
  OBVIOUS
<1>. QED BY <1>1, <1>2, Zenon DEF LeaseType

LEMMA InitType == Init => TypeInv
<1> SUFFICES ASSUME Init PROVE TypeInv
  OBVIOUS
<1>1. CellsType
  BY DEF Init, CellsType, CellRow, Status
<1>2. IsFiniteSet(Begun)
  <2>1. Begun = {}
    BY DEF Init, Begun
  <2>. QED BY <2>1, FS_EmptySet
<1>3. JobsType
  BY TabularAssumption DEF Init, JobsType, JobRow, NoJob, LiveJob, TabularAssumption
<1>. QED
  BY <1>1, <1>2, <1>3 DEF Init, TypeInv, GridType, RestType, ByType, RunsType, LeaseType,
     RequestsType, SweepType, OrderType, SweepRow, NoSweep, Request, NoRequest

LEMMA OrderKept ==
  ASSUME OrderType, UNCHANGED order
  PROVE  OrderType'
<1>1. Begun' = Begun
  BY DEF Begun
<1>. QED BY <1>1 DEF OrderType

LEMMA BeginType ==
  ASSUME TypeInv, NEW g \in Gen, NEW op \in {"generate", "regenerate", "clear"},
         NEW target \in SUBSET Cell, begin_tabular_review_generation(g, op, target)
  PROVE  TypeInv' /\ Begun' = Begun \cup {g} /\ order'[g] = Cardinality({h \in Gen : order[h] # 0}) + 1
<1> USE DEF begin_tabular_review_generation
<1>1. Cardinality(Begun) \in Nat
  BY FS_CardinalityType DEF TypeInv, RestType, OrderType
<1>2. order' = [order EXCEPT ![g] = Cardinality(Begun) + 1]
  BY DEF Begun
<1>3. /\ order' \in [Gen -> Nat] /\ Begun' = Begun \cup {g} /\ order'[g] = Cardinality(Begun) + 1
  BY <1>1, <1>2 DEF TypeInv, RestType, OrderType, Begun
<1>4. OrderType'
  BY <1>3, FS_AddElement DEF TypeInv, RestType, OrderType
<1>5. GridType' /\ SweepType' /\ JobsType'
  BY DEF TypeInv, GridType, CellsType, ByType, RunsType, RestType, SweepType, JobsType, LiveJob
<1>6. LeaseType' /\ RequestsType'
  BY DEF TypeInv, RestType, LeaseType, RequestsType, Request
<1>. QED BY <1>3, <1>4, <1>5, <1>6 DEF TypeInv, RestType, Begun

LEMMA RequestType ==
  ASSUME TypeInv, NEW g \in Gen, requestStep(g) \/ abortGeneration(g) \/ requestDies(g) \/ renewGeneration(g)
  PROVE  TypeInv'
<1> USE DEF TypeInv, GridType, RestType
<1>1. CASE loadTabularGenerateWork(g)
  <2>1. RequestsType'
    <3>1. PICK pc \in {"ending", "loaded"} :
            requests' = [requests EXCEPT ![g].cells = Unfinished(Cell), ![g].pc = pc]
      BY <1>1 DEF loadTabularGenerateWork
    <3>2. Unfinished(Cell) \in SUBSET Cell
      BY DEF Unfinished
    <3>3. [requests[g] EXCEPT !.cells = Unfinished(Cell), !.pc = pc] \in Request
      BY <3>2, RequestWrites DEF RequestsType
    <3>. QED BY <3>1, <3>3 DEF RequestsType
  <2>. QED BY <1>1, <2>1, OrderKept DEF loadTabularGenerateWork, CellsType, ByType, RunsType, LeaseType,
              JobsType, LiveJob, SweepType
<1>2. CASE claimCellsForGeneration(g)
  <2> DEFINE S == requests[g].cells
             rows == {key \in Row \X {AllCols} : CellsOf(key) \cap S # {}}
  <2>1. rows \subseteq Key
    BY DEF Key
  <2>2. CellsType' /\ ByType'
    BY <1>2, StampType DEF claimCellsForGeneration
  <2>3. RequestsType'
    <3>1. requests' = [requests EXCEPT ![g].pc = "claimed", ![g].todo = IF Async THEN rows ELSE {}]
      BY <1>2 DEF claimCellsForGeneration
    <3> DEFINE todo == IF Async THEN rows ELSE {}
    <3>2. todo \in SUBSET Key
      BY <2>1
    <3> HIDE DEF todo
    <3>3. [requests[g] EXCEPT !.pc = "claimed", !.todo = todo] \in Request
      BY <3>2, RequestWrites DEF RequestsType
    <3>4. requests' = [requests EXCEPT ![g].pc = "claimed", ![g].todo = todo]
      BY <3>1 DEF todo
    <3>. QED BY <3>3, <3>4 DEF RequestsType
  <2>4. RunsType'
    <3>1. runs' = IF Async THEN runs
                  ELSE runs \cup {InlineRun(g, key, CellsOf(key) \cap S) : key \in rows}
      BY <1>2 DEF claimCellsForGeneration
    <3>2. \A key \in rows : InlineRun(g, key, CellsOf(key) \cap S) \in Run
      <4> SUFFICES ASSUME NEW key \in rows PROVE InlineRun(g, key, CellsOf(key) \cap S) \in Run
        OBVIOUS
      <4>1. CellsOf(key) \cap S \in SUBSET Cell
        BY <2>1, CellsOfKey
      <4>. QED BY <2>1, <4>1, InlineRunType
    <3> HIDE DEF rows, S
    <3>. QED BY <3>1, <3>2 DEF RunsType
  <2>. QED BY <1>2, <2>2, <2>3, <2>4, OrderKept DEF claimCellsForGeneration, LeaseType, JobsType, LiveJob, SweepType
<1>3. CASE regenerateCell(g)
  <2> DEFINE keys == {<<c[1], c[2]>> : c \in requests[g].cells}
             inline == {[InlineRun(g, key, CellsOf(key)) EXCEPT
                           !.pc = "extracting", !.marked = CellsOf(key)] : key \in keys}
  <2>1. keys \subseteq Key
    BY FullRow DEF RequestsType, Request
  <2>2. CellsType' /\ ByType'
    BY <1>3, WriteType DEF regenerateCell, Status
  <2>3. RequestsType'
    <3>1. requests' = [requests EXCEPT ![g].pc = "claimed", ![g].todo = IF Async THEN keys ELSE {}]
      BY <1>3 DEF regenerateCell
    <3> DEFINE todo == IF Async THEN keys ELSE {}
    <3>2. todo \in SUBSET Key
      BY <2>1
    <3> HIDE DEF todo
    <3>3. [requests[g] EXCEPT !.pc = "claimed", !.todo = todo] \in Request
      BY <3>2, RequestWrites DEF RequestsType
    <3>4. requests' = [requests EXCEPT ![g].pc = "claimed", ![g].todo = todo]
      BY <3>1 DEF todo
    <3>. QED BY <3>3, <3>4 DEF RequestsType
  <2>4. RunsType'
    <3>1. runs' = IF Async THEN runs ELSE runs \cup inline
      BY <1>3 DEF regenerateCell
    <3>2. inline \subseteq Run
      <4> SUFFICES ASSUME NEW key \in keys
                   PROVE [InlineRun(g, key, CellsOf(key)) EXCEPT
                           !.pc = "extracting", !.marked = CellsOf(key)] \in Run
        OBVIOUS
      <4>. QED BY <2>1, CellsOfKey, InlineRunType
    <3> HIDE DEF inline
    <3>. QED BY <3>1, <3>2 DEF RunsType
  <2>. QED BY <1>3, <2>2, <2>3, <2>4, OrderKept DEF regenerateCell, LeaseType, JobsType, LiveJob, SweepType
<1>4. CASE requestFails(g)
  BY <1>4, OrderKept DEF requestFails, RequestsType, Request, CellsType, ByType, RunsType, LeaseType,
     JobsType, LiveJob, SweepType
<1>5. CASE \E key \in Key : enqueueExtraction(g, key)
  <2>1. PICK key \in Key : enqueueExtraction(g, key)
    BY <1>5
  <2>2. jobs' = jobs \/ jobs' = IF LiveJob(key) THEN jobs ELSE [jobs EXCEPT ![key] = JobOf(g)]
    BY <2>1 DEF enqueueExtraction
  <2>3. JobsType'
    <3>1. JobOf(g) \in JobRow /\ JobOf(g).gen = g /\ JobOf(g).tries < MaxTries
      BY TabularAssumption DEF JobOf, JobRow, TabularAssumption
    <3> HIDE DEF JobOf
    <3>. QED BY <2>2, <3>1 DEF JobsType, LiveJob
  <2>4. requests' = [requests EXCEPT ![g].todo = @ \ {key}, ![g].enqueued = TRUE]
        \/ requests' = [requests EXCEPT ![g].todo = @ \ {key}]
    BY <2>1 DEF enqueueExtraction
  <2>5. RequestsType'
    BY <2>4 DEF RequestsType, Request
  <2>6. UNCHANGED <<cells, by>> \/ GuardedWrite(g, CellsOf(key), "error", NoGen)
    BY <2>1, Zenon DEF enqueueExtraction
  <2>7. CellsType' /\ ByType'
    BY <2>6, GuardedWriteType DEF Status, CellsType, ByType
  <2>. QED BY <2>1, <2>3, <2>5, <2>7, OrderKept DEF enqueueExtraction, LeaseType, RunsType, SweepType
<1>6. CASE handOver(g)
  <2>1. RequestsType'
    BY <1>6, OverType DEF handOver, RequestsType, Request
  <2>. QED BY <1>6, <2>1, OrderKept DEF handOver, CellsType, ByType, RunsType, LeaseType, JobsType, LiveJob, SweepType
<1>7. CASE removeQueuedExtractionJobs(g)
  <2>1. JobsType'
    <3>1. PICK reached : jobs' = [key \in Key |->
                      IF key \notin reached THEN jobs[key]
                      ELSE IF jobs[key].state = "pending" THEN NoJob
                      ELSE [jobs[key] EXCEPT !.canceled = TRUE]]
      BY <1>7 DEF removeQueuedExtractionJobs
    <3>2. NoJob \in JobRow /\ NoJob.state = "none"
      BY TabularAssumption DEF NoJob, JobRow, TabularAssumption
    <3> HIDE DEF NoJob
    <3>3. ASSUME NEW key \in Key
          PROVE  /\ jobs'[key] \in JobRow
                 /\ jobs'[key].state # "none" => jobs'[key].gen \in Gen
                 /\ jobs'[key].state = "pending" => jobs'[key].tries < MaxTries
      <4>1. jobs[key] \in JobRow
        BY DEF JobsType
      <4>2. [jobs[key] EXCEPT !.canceled = TRUE] \in JobRow
        BY <4>1 DEF JobRow
      <4>. QED BY <3>1, <3>2, <4>1, <4>2 DEF JobsType, LiveJob, JobRow
    <3>. QED BY <3>1, <3>3 DEF JobsType, LiveJob
  <2>. QED BY <1>7, <2>1, OrderKept DEF removeQueuedExtractionJobs, CellsType, ByType, RunsType, LeaseType,
              RequestsType, Request, SweepType
<1>8. CASE clearCells(g)
  <2>1. CellsType' /\ ByType'
    BY <1>8, WriteType DEF clearCells, Status, CellsType, ByType
  <2>. QED BY <1>8, <2>1, OrderKept DEF clearCells, RunsType, LeaseType, RequestsType, Request,
              JobsType, LiveJob, SweepType
<1>9. CASE releaseLease(g)
  BY <1>9, OverType, FinishType, OrderKept DEF releaseLease, CellsType, ByType, RunsType, RequestsType,
     JobsType, LiveJob, SweepType
<1>10. CASE abortGeneration(g)
  BY <1>10, OrderKept DEF abortGeneration, RequestsType, Request, CellsType, ByType, RunsType, LeaseType,
     JobsType, LiveJob, SweepType
<1>11. CASE requestDies(g)
  BY <1>11, OverType, OrderKept DEF requestDies, RequestsType, CellsType, ByType, RunsType, LeaseType,
     JobsType, LiveJob, SweepType
<1>12. CASE renewGeneration(g)
  BY <1>12, OrderKept DEF renewGeneration, RequestsType, CellsType, ByType, RunsType, LeaseType,
     JobsType, LiveJob, SweepType
<1>. QED BY <1>1, <1>2, <1>3, <1>4, <1>5, <1>6, <1>7, <1>8, <1>9, <1>10, <1>11, <1>12 DEF requestStep

LEMMA RunType ==
  ASSUME TypeInv, NEW r \in runs, runStep(r) \/ runDies(r)
  PROVE  TypeInv'
<1> USE DEF TypeInv, GridType, RestType
<1>0. r \in Run /\ r.gen \in Gen /\ r.key \in Key /\ r.outstanding \in SUBSET Cell /\ r.marked \in SUBSET Cell
  BY DEF RunsType, Run
<1>1. CASE loadRow(r)
  <2>1. Unfinished(CellsOf(r.key)) \in SUBSET Cell
    BY <1>0, CellsOfKey DEF Unfinished
  <2>2. \/ Becomes(r, [r EXCEPT !.pc = "settling"])
        \/ Becomes(r, [r EXCEPT !.pc = "extracting", !.outstanding = Unfinished(CellsOf(r.key))])
    BY <1>1, Zenon DEF loadRow
  <2>3. /\ [r EXCEPT !.pc = "settling"] \in Run
        /\ [r EXCEPT !.pc = "extracting", !.outstanding = Unfinished(CellsOf(r.key))] \in Run
    BY <1>0, <2>1 DEF Run, RunPc
  <2>4. RunsType'
    BY <2>2, <2>3, BecomesType, Zenon
  <2>. QED BY <1>1, <2>4, OrderKept DEF loadRow, CellsType, ByType, LeaseType, RequestsType, JobsType, LiveJob, SweepType
<1>2. CASE loadThrows(r)
  <2>1. RunsType'
    BY <1>0, <1>2, BecomesType, RunWrites DEF loadThrows, RunPc
  <2>. QED BY <1>2, <2>1, OrderKept DEF loadThrows, CellsType, ByType, LeaseType, RequestsType, JobsType, LiveJob, SweepType
<1>3. CASE startRow(r)
  <2>1. Gone(r) \/ Becomes(r, [r EXCEPT !.pc = "extracting"])
    BY <1>3 DEF startRow
  <2>2. RunsType'
    BY <1>0, <2>1, BecomesType, RunWrites DEF RunPc, Gone, RunsType
  <2>. QED BY <1>3, <2>2, OrderKept DEF startRow, CellsType, ByType, LeaseType, RequestsType, JobsType, LiveJob, SweepType
<1>4. CASE markGenerating(r)
  <2>1. PICK c \in r.outstanding \ r.marked :
          /\ GuardedWrite(r.gen, {c}, "generating", r.gen)
          /\ Becomes(r, [r EXCEPT !.marked = @ \cup {c}])
          /\ UNCHANGED <<lease, requests, jobs, sweep, order>>
    BY <1>4 DEF markGenerating
  <2>2. CellsType' /\ ByType'
    BY <1>0, <2>1, GuardedWriteType DEF Status
  <2>3. [r EXCEPT !.marked = r.marked \cup {c}] \in Run
    BY <1>0 DEF Run
  <2>4. RunsType'
    BY <2>1, <2>3, BecomesType
  <2>. QED BY <2>1, <2>2, <2>4, OrderKept DEF LeaseType, RequestsType, JobsType, LiveJob, SweepType
<1>5. CASE receiveColumn(r)
  <2>1. PICK c \in r.outstanding :
          /\ GuardedWrite(r.gen, {c}, "done", NoGen)
          /\ Becomes(r, [r EXCEPT !.outstanding = @ \ {c}])
          /\ UNCHANGED <<lease, requests, jobs, sweep, order>>
    BY <1>5 DEF receiveColumn
  <2>2. CellsType' /\ ByType'
    BY <1>0, <2>1, GuardedWriteType DEF Status
  <2>3. [r EXCEPT !.outstanding = r.outstanding \ {c}] \in Run
    BY <1>0 DEF Run
  <2>4. RunsType'
    BY <2>1, <2>3, BecomesType
  <2>. QED BY <2>1, <2>2, <2>4, OrderKept DEF LeaseType, RequestsType, JobsType, LiveJob, SweepType
<1>6. CASE answerEnds(r)
  <2>1. CASE Inline(r)
    <3>1. PICK status \in {"pending", "error"} : GuardedWrite(r.gen, r.outstanding, status, NoGen)
      BY <1>6, <2>1 DEF answerEnds
    <3>2. CellsType' /\ ByType'
      BY <1>0, <3>1, GuardedWriteType DEF Status
    <3>3. RunsType'
      BY <1>6, <2>1 DEF answerEnds, Gone, RunsType
    <3>. QED BY <1>6, <3>2, <3>3, OrderKept DEF answerEnds, LeaseType, RequestsType, JobsType, LiveJob, SweepType
  <2>2. CASE ~Inline(r)
    <3>1. \/ Becomes(r, [r EXCEPT !.pc = "settling", !.marked = {}])
          \/ Becomes(r, [r EXCEPT !.pc = "checking", !.outcome = "threw", !.outstanding = {}, !.marked = {}])
      BY <1>6, <2>2, Zenon DEF answerEnds
    <3>2. /\ [r EXCEPT !.pc = "settling", !.marked = {}] \in Run
          /\ [r EXCEPT !.pc = "checking", !.outcome = "threw", !.outstanding = {}, !.marked = {}] \in Run
      BY <1>0 DEF Run, RunPc
    <3>3. RunsType'
      BY <3>1, <3>2, BecomesType, Zenon
    <3>. QED BY <1>6, <2>2, <3>3, OrderKept DEF answerEnds, CellsType, ByType, LeaseType, RequestsType,
                JobsType, LiveJob, SweepType
  <2>. QED BY <2>1, <2>2
<1>7. CASE clearRowGenerationStamp(r)
  <2>1. CellsType' /\ ByType'
    <3>1. CASE WriteLost
      BY <3>1 DEF WriteLost, CellsType, ByType
    <3>2. CASE Stamp(r.gen, StampedBy(r.gen, CellsOf(r.key)), NoGen)
      BY <1>0, <3>2, StampType
    <3>. QED BY <1>7, <3>1, <3>2 DEF clearRowGenerationStamp
  <2>2. RunsType'
    BY <1>0, <1>7, BecomesType, RunWrites DEF clearRowGenerationStamp, RunPc
  <2>. QED BY <1>7, <2>1, <2>2, OrderKept DEF clearRowGenerationStamp, LeaseType, RequestsType, JobsType, LiveJob, SweepType
<1>8. CASE checkIdle(r)
  <2>1. PICK pc \in {"releasing", "ending"} : Becomes(r, [r EXCEPT !.pc = pc])
    BY <1>8 DEF checkIdle
  <2>2. RunsType'
    BY <1>0, <2>1, BecomesType, RunWrites DEF RunPc
  <2>. QED BY <1>8, <2>2, OrderKept DEF checkIdle, CellsType, ByType, LeaseType, RequestsType, JobsType, LiveJob, SweepType
<1>9. CASE releaseIdle(r)
  <2>1. RunsType'
    BY <1>0, <1>9, BecomesType, RunWrites DEF releaseIdle, RunPc
  <2>. QED BY <1>9, <2>1, FinishType, OrderKept DEF releaseIdle, CellsType, ByType, RequestsType, JobsType, LiveJob, SweepType
<1>10. CASE jobEnds(r)
  <2>1. RunsType'
    <3>1. Gone(r) \/ Becomes(r, [r EXCEPT !.pc = "failing", !.outcome = "failed"])
      BY <1>10 DEF jobEnds
    <3>. QED BY <1>0, <3>1, BecomesType, RunWrites DEF RunPc, Gone, RunsType
  <2>2. JobsType'
    <3>1. \/ jobs' = jobs
          \/ jobs' = [jobs EXCEPT ![r.key] = NoJob]
          \/ Owns(r) /\ ~(r.tries >= MaxTries) /\ jobs' = [jobs EXCEPT ![r.key].state = "pending"]
      BY <1>10 DEF jobEnds
    <3>2. CASE jobs' = jobs
      BY <3>2 DEF JobsType, LiveJob
    <3>3. CASE jobs' = [jobs EXCEPT ![r.key] = NoJob]
      <4>1. NoJob \in JobRow /\ NoJob.state = "none"
        BY TabularAssumption DEF NoJob, JobRow, TabularAssumption
      <4> HIDE DEF NoJob
      <4>. QED BY <1>0, <3>3, <4>1 DEF JobsType, LiveJob
    <3>4. CASE Owns(r) /\ ~(r.tries >= MaxTries) /\ jobs' = [jobs EXCEPT ![r.key].state = "pending"]
      <4>1. jobs[r.key].tries < MaxTries /\ jobs[r.key].state = "running"
        BY <1>0, <3>4, TabularAssumption DEF Owns, Run, TabularAssumption
      <4>. QED BY <1>0, <3>4, <4>1 DEF JobsType, LiveJob, JobRow
    <3>. QED BY <3>1, <3>2, <3>3, <3>4
  <2>. QED BY <1>10, <2>1, <2>2, OrderKept DEF jobEnds, CellsType, ByType, LeaseType, RequestsType, SweepType
<1>11. CASE markExtractionFailed(r)
  <2>1. CellsType' /\ ByType'
    BY <1>0, <1>11, GuardedWriteType DEF markExtractionFailed, Status
  <2>2. RunsType'
    BY <1>0, <1>11, BecomesType, RunWrites DEF markExtractionFailed, RunPc
  <2>. QED BY <1>11, <2>1, <2>2, OrderKept DEF markExtractionFailed, LeaseType, RequestsType, JobsType, LiveJob, SweepType
<1>12. CASE runDies(r)
  BY <1>12, OrderKept DEF runDies, Gone, CellsType, ByType, RunsType, LeaseType, RequestsType, JobsType, LiveJob, SweepType
<1>13. CASE rowThrows(r)
  <2>1. RequestsType'
    <3>1. requests' = [requests EXCEPT ![r.gen].pc = IF @ = "claimed" THEN "failed" ELSE @]
      BY <1>13 DEF rowThrows
    <3>2. requests[r.gen] \in Request
      BY <1>0 DEF RequestsType
    <3>3. [requests[r.gen] EXCEPT !.pc = IF @ = "claimed" THEN "failed" ELSE @] \in Request
      BY <3>2 DEF Request
    <3>. QED BY <1>0, <3>1, <3>3 DEF RequestsType
  <2>. QED BY <1>13, <2>1, OrderKept DEF rowThrows, Gone, CellsType, ByType, RunsType, LeaseType, JobsType,
              LiveJob, SweepType
<1>. QED BY <1>1, <1>2, <1>3, <1>4, <1>5, <1>6, <1>7, <1>8, <1>9, <1>10, <1>11, <1>12, <1>13 DEF runStep

LEMMA QueueType ==
  ASSUME TypeInv, NEW key \in Key, startJob(key) \/ loseJob(key)
  PROVE  TypeInv'
<1> USE DEF TypeInv, GridType, RestType
<1>1. CASE startJob(key)
  <2>1. jobs[key].gen \in Gen /\ jobs[key].tries + 1 \in Nat /\ jobs[key].tries + 1 <= MaxTries
        /\ jobs[key].canceled \in BOOLEAN
    BY <1>1, TabularAssumption DEF startJob, JobsType, JobRow, LiveJob, TabularAssumption
  <2>2. RunsType'
    <3> DEFINE q == [InlineRun(jobs[key].gen, key, {}) EXCEPT
                       !.tries = jobs[key].tries + 1, !.canceled = jobs[key].canceled]
    <3>1. q \in Run
      BY <2>1, InlineRunType
    <3>2. runs' = runs \cup {q}
      BY <1>1 DEF startJob
    <3> HIDE DEF q
    <3>. QED BY <3>1, <3>2 DEF RunsType
  <2>3. JobsType'
    <3>1. jobs' = [jobs EXCEPT ![key].state = "running", ![key].tries = @ + 1]
      BY <1>1 DEF startJob
    <3>2. [jobs[key] EXCEPT !.state = "running", !.tries = @ + 1] \in JobRow
      <4>1. jobs[key] \in JobRow /\ jobs[key].tries + 1 \in 0..MaxTries
        BY <2>1, TabularAssumption DEF JobsType, TabularAssumption
      <4>. QED BY <4>1 DEF JobRow
    <3>. QED BY <2>1, <3>1, <3>2 DEF JobsType, LiveJob, JobRow
  <2>. QED BY <1>1, <2>2, <2>3, OrderKept DEF startJob, CellsType, ByType, LeaseType, RequestsType, SweepType
<1>2. CASE loseJob(key)
  <2>1. JobsType'
    <3>1. CASE jobs[key].tries < MaxTries
      BY <1>2, <3>1 DEF loseJob, JobsType, LiveJob, JobRow
    <3>2. CASE ~(jobs[key].tries < MaxTries)
      BY <1>2, <3>2, TabularAssumption DEF loseJob, JobsType, LiveJob, JobRow, NoJob, TabularAssumption
    <3>. QED BY <3>1, <3>2
  <2>. QED BY <1>2, <2>1, OrderKept DEF loseJob, CellsType, ByType, RunsType, LeaseType, RequestsType, SweepType
<1>. QED BY <1>1, <1>2

LEMMA SweepStepType ==
  ASSUME TypeInv, sweepStep \/ leaseLapses
  PROVE  TypeInv'
<1> USE DEF TypeInv, GridType, RestType
<1>0. NoSweep \in SweepRow
  BY DEF NoSweep, SweepRow
<1>1. CASE sweepReadsCells
  <2> DEFINE S == {c \in Cell : cells[c].status = "generating"}
             found == {<<c, cells[c].stamp>> : c \in S}
  <2>1. found \subseteq Cell \X (Gen \cup {NoGen})
    BY DEF CellsType, CellRow
  <2>2. sweep' = [NoSweep EXCEPT !.pc = "leasing", !.found = found]
    BY <1>1 DEF sweepReadsCells
  <2> HIDE DEF found
  <2>3. SweepType'
    BY <2>1, <2>2 DEF SweepType, SweepRow, NoSweep
  <2>. QED BY <1>1, <2>3, OrderKept DEF sweepReadsCells, CellsType, ByType, RunsType, LeaseType, RequestsType, JobsType, LiveJob
<1>2. CASE sweepReadsLease
  BY <1>0, <1>2, OrderKept DEF sweepReadsLease, SweepType, SweepRow, CellsType, ByType, RunsType, LeaseType,
     RequestsType, JobsType, LiveJob
<1>3. CASE sweepReadsJobs
  <2>1. PICK f \in sweep.found \ sweep.condemned :
          sweep' \in {[sweep EXCEPT !.found = @ \ {f}], [sweep EXCEPT !.condemned = @ \cup {f}]}
    BY <1>3 DEF sweepReadsJobs
  <2>2. SweepType'
    BY <2>1 DEF SweepType, SweepRow
  <2>3. UNCHANGED <<cells, lease, requests, jobs, runs, order, by>>
    BY <1>3 DEF sweepReadsJobs
  <2>. QED BY <2>2, <2>3, OrderKept DEF CellsType, ByType, RunsType, LeaseType, RequestsType, JobsType, LiveJob
<1>4. CASE sweepFlips
  <2>1. PICK f \in sweep.condemned :
         /\ cells' = [c \in Cell |-> IF c \in FlippedBySweep(f)
                                     THEN [status |-> "error", stamp |-> NoGen] ELSE cells[c]]
         /\ sweep' = [sweep EXCEPT !.found = @ \ {f}, !.condemned = @ \ {f},
                                   !.touched = @ \cup ({f[2]} \ {NoGen})]
         /\ UNCHANGED <<lease, requests, jobs, runs, order, by>>
    BY <1>4 DEF sweepFlips
  <2>2. CellsType'
    BY <2>1 DEF CellsType, CellRow, Status
  <2>3. f[2] \in Gen \cup {NoGen}
    BY DEF SweepType, SweepRow
  <2>4. SweepType'
    BY <2>1, <2>3 DEF SweepType, SweepRow
  <2>. QED BY <2>1, <2>2, <2>4, OrderKept DEF ByType, RunsType, LeaseType, RequestsType, JobsType, LiveJob
<1>5. CASE sweepChecksIdle
  <2> DEFINE idle == {g \in sweep.touched : StampedBy(g, Cell) = {}}
  <2>1. idle \in SUBSET Gen
    BY DEF SweepType, SweepRow
  <2>2. sweep' = IF idle = {} THEN NoSweep ELSE [NoSweep EXCEPT !.pc = "releasing", !.touched = idle]
    BY <1>5 DEF sweepChecksIdle
  <2> HIDE DEF idle
  <2>3. SweepType'
    BY <1>0, <2>1, <2>2 DEF SweepType, SweepRow, NoSweep
  <2>. QED BY <1>5, <2>3, OrderKept DEF sweepChecksIdle, CellsType, ByType, RunsType, LeaseType, RequestsType, JobsType, LiveJob
<1>6. CASE sweepReleases
  <2>1. PICK g \in sweep.touched :
          /\ finish_tabular_review_generation(g)
          /\ sweep' = IF sweep.touched = {g} THEN NoSweep ELSE [sweep EXCEPT !.touched = @ \ {g}]
          /\ UNCHANGED <<cells, requests, jobs, runs, order, by>>
    BY <1>6 DEF sweepReleases
  <2>2. SweepType'
    BY <1>0, <2>1 DEF SweepType, SweepRow
  <2>. QED BY <2>1, <2>2, FinishType, OrderKept DEF CellsType, ByType, RunsType, RequestsType, JobsType, LiveJob
<1>7. CASE leaseLapses
  BY <1>7, OrderKept DEF leaseLapses, LeaseType, CellsType, ByType, RunsType, RequestsType, JobsType, LiveJob, SweepType
<1>. QED BY <1>1, <1>2, <1>3, <1>4, <1>5, <1>6, <1>7 DEF sweepStep

LEMMA StutterType == TypeInv /\ UNCHANGED vars => TypeInv'
BY OrderKept DEF TypeInv, GridType, RestType, vars, CellsType, ByType, RunsType, LeaseType, RequestsType,
   JobsType, LiveJob, SweepType

LEMMA BeginsType ==
  ASSUME TypeInv, NEW g \in Gen, BeginGenerate(g) \/ BeginRegenerate(g) \/ BeginClear(g)
  PROVE  \E op \in {"generate", "regenerate", "clear"}, target \in SUBSET Cell :
           begin_tabular_review_generation(g, op, target)
<1>1. CASE BeginGenerate(g)
  BY <1>1, Zenon DEF BeginGenerate
<1>2. CASE BeginRegenerate(g)
  <2>1. PICK c \in Cell : begin_tabular_review_generation(g, "regenerate", {c})
    BY <1>2 DEF BeginRegenerate
  <2>. QED BY <2>1, Zenon
<1>3. CASE BeginClear(g)
  <2>1. PICK R \in SUBSET Row \ {{}} : begin_tabular_review_generation(g, "clear", R \X Col)
    BY <1>3 DEF BeginClear
  <2>2. R \X Col \in SUBSET Cell
    BY DEF Cell
  <2>. QED BY <2>1, <2>2, Zenon
<1>. QED BY <1>1, <1>2, <1>3

LEMMA NextType == TypeInv /\ [Next]_vars => TypeInv'
<1> SUFFICES ASSUME TypeInv, [Next]_vars PROVE TypeInv'
  OBVIOUS
<1>1. CASE \E g \in Gen : BeginGenerate(g) \/ BeginRegenerate(g) \/ BeginClear(g)
  BY <1>1, BeginsType, BeginType
<1>2. CASE \E g \in Gen : requestStep(g) \/ abortGeneration(g) \/ requestDies(g) \/ renewGeneration(g)
  BY <1>2, RequestType
<1>3. CASE \E key \in Key : startJob(key) \/ loseJob(key)
  BY <1>3, QueueType
<1>4. CASE \E r \in runs : runStep(r) \/ runDies(r)
  BY <1>4, RunType
<1>5. CASE leaseLapses \/ sweepStep
  BY <1>5, SweepStepType
<1>. QED BY <1>1, <1>2, <1>3, <1>4, <1>5, StutterType DEF Next

\* The tables of a review keep their types, whatever its requests, jobs and
\* sweeps do to them; above all, no extraction job is tried more often than
\* its attempts allow.
THEOREM TypeCorrect == Spec => []TypeOK
<1>. QED BY InitType, NextType, TypesAreTypes, PTL DEF Spec

---------------------------------------------------------------------------
(* What a step may do *)

\* A request that has claimed its cells, or never will.
Past(g) == requests[g].pc \in {"claimed", "failed", "ending", "over"}

Claims(g) == claimCellsForGeneration(g) \/ regenerateCell(g)

\* A cell is left alone, claimed by a request, written under the stamp it
\* carries, blanked, failed by the sweep, or marked by a run that has it.
CellStep(c) ==
  \/ cells'[c] = cells[c] /\ by'[c] = by[c]
  \/ \E g \in Gen : Claims(g) /\ cells'[c].stamp = g /\ by'[c] = order[g]
  \/ \E g \in Gen : cells[c].stamp = g /\ cells'[c].stamp = NoGen /\ by'[c] = order[g]
  \/ \E g \in Gen : clearCells(g) /\ cells'[c].stamp = NoGen /\ by'[c] = order[g]
  \/ sweepFlips /\ cells'[c].stamp = NoGen /\ by'[c] = by[c]
  \/ \E g \in Gen : /\ cells[c].stamp = g /\ cells'[c].stamp = g /\ by'[c] = order[g]
                    /\ cells'[c].status = "generating" /\ \E r \in runs : markGenerating(r)

LEMMA GuardedWriteCells ==
  ASSUME TypeInv, NEW g \in Gen, NEW S, NEW status, NEW stamp, GuardedWrite(g, S, status, stamp),
         stamp = NoGen \/ (stamp = g /\ status = "generating" /\ \E r \in runs : markGenerating(r)),
         NEW c \in Cell
  PROVE  CellStep(c)
<1>1. CASE Write(g, StampedBy(g, S), status, stamp)
  <2>1. CASE c \in StampedBy(g, S)
    BY <1>1, <2>1 DEF Write, StampedBy, CellStep
  <2>2. CASE c \notin StampedBy(g, S)
    BY <1>1, <2>2 DEF Write, CellStep
  <2>. QED BY <2>1, <2>2
<1>2. CASE WriteLost
  BY <1>2 DEF WriteLost, CellStep
<1>. QED BY <1>1, <1>2 DEF GuardedWrite

LEMMA CellSteps ==
  ASSUME TypeInv, [Next]_vars, NEW c \in Cell
  PROVE  CellStep(c)
<1>0. UNCHANGED <<cells, by>> => CellStep(c)
  BY DEF CellStep
<1>1. ASSUME NEW g \in Gen, requestStep(g) PROVE CellStep(c)
  <2>1. CASE claimCellsForGeneration(g)
    <3>1. Stamp(g, requests[g].cells, g)
      BY <2>1 DEF claimCellsForGeneration
    <3>2. CASE c \in requests[g].cells
      BY <2>1, <3>1, <3>2 DEF CellStep, Claims, Stamp, TypeInv, GridType, CellsType, CellRow
    <3>3. CASE c \notin requests[g].cells
      BY <3>1, <3>3 DEF CellStep, Stamp
    <3>. QED BY <3>2, <3>3
  <2>2. CASE regenerateCell(g)
    <3>1. Write(g, requests[g].cells, "generating", g)
      BY <2>2 DEF regenerateCell
    <3>2. CASE c \in requests[g].cells
      BY <2>2, <3>1, <3>2 DEF CellStep, Claims, Write
    <3>3. CASE c \notin requests[g].cells
      BY <3>1, <3>3 DEF CellStep, Write
    <3>. QED BY <3>2, <3>3
  <2>3. CASE \E key \in Key : enqueueExtraction(g, key)
    <3>1. PICK key \in Key : enqueueExtraction(g, key)
      BY <2>3
    <3>2. UNCHANGED <<cells, by>> \/ GuardedWrite(g, CellsOf(key), "error", NoGen)
      BY <3>1, Zenon DEF enqueueExtraction
    <3>. QED BY <1>0, <3>2, GuardedWriteCells
  <2>4. CASE clearCells(g)
    <3>1. Write(g, requests[g].cells, "pending", NoGen) \/ UNCHANGED <<cells, by>>
      BY <2>4 DEF clearCells
    <3>2. CASE Write(g, requests[g].cells, "pending", NoGen) /\ c \in requests[g].cells
      BY <2>4, <3>2 DEF CellStep, Write
    <3>3. CASE Write(g, requests[g].cells, "pending", NoGen) /\ c \notin requests[g].cells
      BY <3>3 DEF CellStep, Write
    <3>. QED BY <1>0, <3>1, <3>2, <3>3
  <2>5. CASE loadTabularGenerateWork(g) \/ requestFails(g) \/ handOver(g)
             \/ removeQueuedExtractionJobs(g) \/ releaseLease(g)
    BY <1>0, <2>5 DEF loadTabularGenerateWork, requestFails, handOver, removeQueuedExtractionJobs, releaseLease
  <2>. QED BY <1>1, <2>1, <2>2, <2>3, <2>4, <2>5 DEF requestStep
<1>2. ASSUME NEW r \in runs, runStep(r) PROVE CellStep(c)
  <2>0. r.gen \in Gen
    BY DEF TypeInv, GridType, RunsType, Run
  <2>1. CASE markGenerating(r)
    BY <2>0, <2>1, GuardedWriteCells DEF markGenerating
  <2>2. CASE receiveColumn(r)
    BY <2>0, <2>2, GuardedWriteCells DEF receiveColumn
  <2>3. CASE answerEnds(r)
    <3>1. UNCHANGED <<cells, by>> \/ \E status : GuardedWrite(r.gen, r.outstanding, status, NoGen)
      BY <2>3, Zenon DEF answerEnds
    <3>. QED BY <1>0, <2>0, <3>1, GuardedWriteCells
  <2>4. CASE markExtractionFailed(r)
    BY <2>0, <2>4, GuardedWriteCells DEF markExtractionFailed
  <2>5. CASE clearRowGenerationStamp(r)
    <3>1. Stamp(r.gen, StampedBy(r.gen, CellsOf(r.key)), NoGen) \/ UNCHANGED <<cells, by>>
      BY <2>5 DEF clearRowGenerationStamp, WriteLost
    <3>2. CASE Stamp(r.gen, StampedBy(r.gen, CellsOf(r.key)), NoGen) /\ c \in StampedBy(r.gen, CellsOf(r.key))
      <4>1. cells[c].stamp = r.gen /\ cells'[c].stamp = NoGen /\ by'[c] = order[r.gen]
        BY <3>2 DEF Stamp, StampedBy, TypeInv, GridType, CellsType, CellRow
      <4>. QED BY <2>0, <4>1 DEF CellStep
    <3>3. CASE Stamp(r.gen, StampedBy(r.gen, CellsOf(r.key)), NoGen) /\ c \notin StampedBy(r.gen, CellsOf(r.key))
      BY <3>3 DEF CellStep, Stamp
    <3>. QED BY <1>0, <3>1, <3>2, <3>3
  <2>6. CASE loadRow(r) \/ loadThrows(r) \/ startRow(r) \/ rowThrows(r) \/ checkIdle(r) \/ releaseIdle(r) \/ jobEnds(r)
    BY <1>0, <2>6 DEF loadRow, loadThrows, startRow, rowThrows, checkIdle, releaseIdle, jobEnds
  <2>. QED BY <1>2, <2>1, <2>2, <2>3, <2>4, <2>5, <2>6 DEF runStep
<1>3. CASE sweepFlips
  <2>1. PICK f \in sweep.condemned :
         /\ cells' = [d \in Cell |-> IF d \in FlippedBySweep(f)
                                     THEN [status |-> "error", stamp |-> NoGen] ELSE cells[d]]
         /\ by' = by
    BY <1>3 DEF sweepFlips
  <2>2. CASE c \in FlippedBySweep(f)
    BY <1>3, <2>1, <2>2 DEF CellStep
  <2>3. CASE c \notin FlippedBySweep(f)
    BY <2>1, <2>3 DEF CellStep
  <2>. QED BY <2>2, <2>3
<1>4. CASE \E g \in Gen : \/ BeginGenerate(g) \/ BeginRegenerate(g) \/ BeginClear(g)
                          \/ abortGeneration(g) \/ requestDies(g) \/ renewGeneration(g)
  BY <1>0, <1>4 DEF BeginGenerate, BeginRegenerate, BeginClear, begin_tabular_review_generation,
     abortGeneration, requestDies, renewGeneration
<1>5. CASE (\E key \in Key : startJob(key) \/ loseJob(key)) \/ (\E r \in runs : runDies(r)) \/ leaseLapses
  BY <1>0, <1>5 DEF startJob, loseJob, runDies, leaseLapses
<1>6. CASE sweepReadsCells \/ sweepReadsLease \/ sweepReadsJobs \/ sweepChecksIdle \/ sweepReleases
  BY <1>0, <1>6 DEF sweepReadsCells, sweepReadsLease, sweepReadsJobs, sweepChecksIdle, sweepReleases
<1>7. CASE UNCHANGED vars
  BY <1>0, <1>7 DEF vars
<1>. QED BY <1>1, <1>2, <1>3, <1>4, <1>5, <1>6, <1>7 DEF Next, sweepStep

LEMMA ClaimIsPast ==
  ASSUME TypeInv, NEW g \in Gen, Claims(g)
  PROVE  Past(g)' /\ ~Past(g)
<1>1. CASE claimCellsForGeneration(g)
  BY <1>1 DEF claimCellsForGeneration, Past, TypeInv, RestType, RequestsType, Request
<1>2. CASE regenerateCell(g)
  <2>1. PICK todo : requests' = [requests EXCEPT ![g].pc = "claimed", ![g].todo = todo]
    BY <1>2 DEF regenerateCell
  <2>. QED BY <1>2, <2>1 DEF regenerateCell, Past, TypeInv, RestType, RequestsType, Request
<1>. QED BY <1>1, <1>2 DEF Claims

\* A job in the queue was there, or has just been handed over by a request that
\* has claimed its cells.
JobStep(key) ==
  \/ LiveJob(key) /\ jobs'[key].gen = jobs[key].gen
  \/ \E g \in Gen : /\ requests[g].pc = "claimed" /\ key \in requests[g].todo
                    /\ jobs'[key].gen = g
                    /\ requests'[g].enqueued \/ LateEnqueue

LEMMA JobSteps ==
  ASSUME TypeInv, [Next]_vars, NEW key \in Key, LiveJob(key)'
  PROVE  JobStep(key)
<1> USE DEF TypeInv, RestType, JobsType
<1>0. UNCHANGED jobs => JobStep(key)
  BY DEF LiveJob, JobStep
<1>1. ASSUME NEW g \in Gen, requestStep(g) PROVE JobStep(key)
  <2>1. CASE \E k \in Key : enqueueExtraction(g, k)
    <3>1. PICK k \in Key : enqueueExtraction(g, k)
      BY <2>1
    <3>2. CASE jobs'[key] = jobs[key]
      BY <3>2 DEF LiveJob, JobStep
    <3>3. CASE jobs'[key] # jobs[key]
      <4>1. k = key /\ jobs' = [jobs EXCEPT ![k] = JobOf(g)]
        BY <3>1, <3>3 DEF enqueueExtraction
      <4>2. jobs'[key].gen = g
        BY <4>1 DEF JobOf
      <4>3. \/ LateEnqueue
            \/ requests' = [requests EXCEPT ![g].todo = @ \ {k}, ![g].enqueued = TRUE]
        <5>1. \/ requests' = [requests EXCEPT ![g].todo = @ \ {k}, ![g].enqueued = TRUE]
              \/ jobs' = jobs
              \/ LateEnqueue
          BY <3>1, Zenon DEF enqueueExtraction
        <5>. QED BY <3>3, <5>1
      <4>4. LateEnqueue \/ requests'[g].enqueued
        BY <4>3 DEF RequestsType, Request
      <4>5. requests[g].pc = "claimed" /\ key \in requests[g].todo
        BY <3>1, <4>1 DEF enqueueExtraction
      <4>. QED BY <4>2, <4>4, <4>5 DEF JobStep
    <3>. QED BY <3>2, <3>3
  <2>2. CASE removeQueuedExtractionJobs(g)
    <3>1. PICK reached : jobs' = [k \in Key |->
                      IF k \notin reached THEN jobs[k]
                      ELSE IF jobs[k].state = "pending" THEN NoJob
                      ELSE [jobs[k] EXCEPT !.canceled = TRUE]]
      BY <2>2 DEF removeQueuedExtractionJobs
    <3>2. jobs'[key] \in {jobs[key], NoJob, [jobs[key] EXCEPT !.canceled = TRUE]}
      BY <3>1
    <3>. QED BY <3>2 DEF LiveJob, JobStep, NoJob, JobRow
  <2>3. CASE UNCHANGED jobs
    BY <1>0, <2>3
  <2>4. CASE loadTabularGenerateWork(g) \/ claimCellsForGeneration(g) \/ regenerateCell(g) \/ requestFails(g)
             \/ handOver(g) \/ clearCells(g) \/ releaseLease(g)
    BY <2>3, <2>4 DEF loadTabularGenerateWork, claimCellsForGeneration, regenerateCell, requestFails, handOver,
       clearCells, releaseLease
  <2>. QED BY <1>1, <2>1, <2>2, <2>4 DEF requestStep
<1>2. ASSUME NEW r \in runs, jobEnds(r) PROVE JobStep(key)
  <2>1. \/ jobs' = jobs
        \/ jobs' = [jobs EXCEPT ![r.key] = NoJob]
        \/ Owns(r) /\ jobs' = [jobs EXCEPT ![r.key].state = "pending"]
    BY <1>2 DEF jobEnds
  <2>. QED BY <2>1 DEF LiveJob, JobStep, NoJob, JobRow, Owns
<1>3. CASE \E k \in Key : startJob(k) \/ loseJob(k)
  <2>1. PICK k \in Key : startJob(k) \/ loseJob(k)
    BY <1>3
  <2>2. jobs[k].state # "none"
    BY <2>1 DEF startJob, loseJob
  <2>3. \/ jobs' = [jobs EXCEPT ![k].state = "running", ![k].tries = @ + 1]
        \/ jobs' = [jobs EXCEPT ![k].state = "pending"]
        \/ jobs' = [jobs EXCEPT ![k] = NoJob]
    BY <2>1 DEF startJob, loseJob
  <2>. QED BY <2>2, <2>3 DEF LiveJob, JobStep, NoJob, JobRow
<1>4. CASE \E g \in Gen : \/ BeginGenerate(g) \/ BeginRegenerate(g) \/ BeginClear(g)
                          \/ abortGeneration(g) \/ requestDies(g) \/ renewGeneration(g)
  BY <1>0, <1>4 DEF BeginGenerate, BeginRegenerate, BeginClear, begin_tabular_review_generation,
     abortGeneration, requestDies, renewGeneration
<1>5. CASE (\E r \in runs : runDies(r) \/ (runStep(r) /\ ~jobEnds(r))) \/ leaseLapses
  BY <1>0, <1>5 DEF runStep, loadRow, loadThrows, startRow, rowThrows, markGenerating, receiveColumn, answerEnds,
     clearRowGenerationStamp, checkIdle, releaseIdle, markExtractionFailed, runDies, leaseLapses
<1>6. CASE sweepStep
  BY <1>0, <1>6 DEF sweepStep, sweepReadsCells, sweepReadsLease, sweepReadsJobs, sweepFlips, sweepChecksIdle, sweepReleases
<1>7. CASE UNCHANGED vars
  BY <1>0, <1>7 DEF vars
<1>. QED BY <1>1, <1>2, <1>3, <1>4, <1>5, <1>6, <1>7 DEF Next

\* A run was there before, goes on from one that was, is the execution of a
\* job, or belongs to a synchronous request that has just claimed its cells.
RunOn(r, q) ==
  /\ r.gen = q.gen /\ r.key = q.key /\ r.tries = q.tries
  /\ r.outstanding \subseteq q.outstanding \/ (~Inline(r) /\ r.outstanding \subseteq Unfinished(Cell))
  /\ r.pc = "releasing" => q.pc = "releasing" \/ StampedBy(r.gen, Cell) = {}
  /\ Inline(r) /\ q.pc \in {"starting", "extracting"} => r.pc \in {"starting", "extracting"}

JobRun(r) ==
  \E key \in Key : /\ LiveJob(key) /\ r.gen = jobs[key].gen
                   /\ r.tries = jobs[key].tries + 1 /\ r.pc = "starting" /\ r.outstanding = {}

RunStep(r) ==
  \/ r \in runs
  \/ \E q \in runs : RunOn(r, q)
  \/ JobRun(r)
  \/ ~Async /\ Claims(r.gen) /\ Inline(r) /\ r.pc \in {"starting", "extracting"}

LEMMA RunStays == \A r \in runs : RunOn(r, r)
BY DEF RunOn

LEMMA RunSteps ==
  ASSUME TypeInv, [Next]_vars, NEW r \in runs'
  PROVE  RunStep(r)
<1>0. (runs' \subseteq runs) => RunStep(r)
  BY DEF RunStep
<1>1. CASE \E g \in Gen : claimCellsForGeneration(g)
  <2>1. PICK g \in Gen : claimCellsForGeneration(g)
    BY <1>1
  <2>2. r \in runs \/ (~Async /\ \E key, S : r = InlineRun(g, key, S))
    BY <2>1 DEF claimCellsForGeneration
  <2>3. \A key, S : Inline(InlineRun(g, key, S)) /\ InlineRun(g, key, S).pc = "starting" /\ InlineRun(g, key, S).gen = g
    BY DEF InlineRun, Inline
  <2>. QED BY <2>1, <2>2, <2>3 DEF RunStep, Claims
<1>2. CASE \E g \in Gen : regenerateCell(g)
  <2>1. PICK g \in Gen : regenerateCell(g)
    BY <1>2
  <2>2. r \in runs \/ (~Async /\ \E key \in Key : r = [InlineRun(g, key, CellsOf(key)) EXCEPT
                                    !.pc = "extracting", !.marked = CellsOf(key)])
    <3> DEFINE keys == {<<c[1], c[2]>> : c \in requests[g].cells}
    <3>1. runs' = IF Async THEN runs
                 ELSE runs \cup {[InlineRun(g, key, CellsOf(key)) EXCEPT
                                    !.pc = "extracting", !.marked = CellsOf(key)] : key \in keys}
      BY <2>1 DEF regenerateCell
    <3>2. keys \subseteq Key
      BY FullRow DEF TypeInv, RestType, RequestsType, Request
    <3> HIDE DEF keys
    <3>. QED BY <3>1, <3>2
  <2>3. \A key \in Key : LET q == [InlineRun(g, key, CellsOf(key)) EXCEPT !.pc = "extracting", !.marked = CellsOf(key)]
                  IN  q.tries = 0 /\ q.pc = "extracting" /\ q.gen = g
    BY DEF InlineRun
  <2>4. r \in runs \/ (~Async /\ r.tries = 0 /\ r.pc = "extracting" /\ r.gen = g)
    BY <2>2, <2>3, Zenon
  <2>. QED BY <2>1, <2>4 DEF RunStep, Claims, Inline
<1>3. ASSUME NEW q \in runs, runStep(q) PROVE RunStep(r)
  <2>0. q \in Run /\ CellsOf(q.key) \subseteq Cell
    BY CellsOfKey DEF TypeInv, GridType, RunsType, Run
  <2>1. ASSUME NEW p, RunOn(p, q), Becomes(q, p) PROVE RunStep(r)
    BY <2>1 DEF RunStep, Becomes
  <2>2. CASE loadRow(q)
    <3>1. \/ Becomes(q, [q EXCEPT !.pc = "settling"])
          \/ Becomes(q, [q EXCEPT !.pc = "extracting", !.outstanding = Unfinished(CellsOf(q.key))])
      BY <2>2, Zenon DEF loadRow
    <3>2. ~Inline(q)
      BY <2>2 DEF loadRow
    <3>3. RunOn([q EXCEPT !.pc = "settling"], q)
      BY <2>0, <3>2 DEF RunOn, Run, Inline
    <3>4. Unfinished(CellsOf(q.key)) \subseteq Unfinished(Cell)
      BY <2>0 DEF Unfinished
    <3>5. RunOn([q EXCEPT !.pc = "extracting", !.outstanding = Unfinished(CellsOf(q.key))], q)
      BY <2>0, <3>2, <3>4 DEF RunOn, Run, Inline
    <3>. QED BY <2>1, <3>1, <3>3, <3>5
  <2>3. CASE loadThrows(q)
    <3>1. RunOn([q EXCEPT !.pc = "checking", !.outcome = "threw"], q)
      BY <2>0, <2>3 DEF loadThrows, RunOn, Run, Inline
    <3>. QED BY <2>1, <2>3, <3>1 DEF loadThrows
  <2>4. CASE startRow(q)
    <3>1. RunOn([q EXCEPT !.pc = "extracting"], q)
      BY <2>0 DEF RunOn, Run, Inline
    <3>. QED BY <1>0, <2>1, <2>4, <3>1 DEF startRow, Gone
  <2>5. CASE markGenerating(q)
    <3>1. PICK c \in q.outstanding \ q.marked : Becomes(q, [q EXCEPT !.marked = @ \cup {c}])
      BY <2>5 DEF markGenerating
    <3>2. RunOn([q EXCEPT !.marked = @ \cup {c}], q)
      BY <2>0 DEF RunOn, Run, Inline
    <3>. QED BY <2>1, <3>1, <3>2
  <2>6. CASE receiveColumn(q)
    <3>1. PICK c \in q.outstanding : Becomes(q, [q EXCEPT !.outstanding = @ \ {c}])
      BY <2>6 DEF receiveColumn
    <3>2. RunOn([q EXCEPT !.outstanding = @ \ {c}], q)
      BY <2>0 DEF RunOn, Run, Inline
    <3>. QED BY <2>1, <3>1, <3>2
  <2>7. CASE answerEnds(q)
    <3>1. CASE Inline(q)
      BY <1>0, <2>7, <3>1 DEF answerEnds, Gone
    <3>2. CASE ~Inline(q)
      <4>1. \/ Becomes(q, [q EXCEPT !.pc = "settling", !.marked = {}])
            \/ Becomes(q, [q EXCEPT !.pc = "checking", !.outcome = "threw", !.outstanding = {}, !.marked = {}])
        BY <2>7, <3>2, Zenon DEF answerEnds
      <4>2. RunOn([q EXCEPT !.pc = "settling", !.marked = {}], q)
        BY <2>0, <3>2 DEF RunOn, Run, Inline
      <4>3. RunOn([q EXCEPT !.pc = "checking", !.outcome = "threw", !.outstanding = {}, !.marked = {}], q)
        BY <2>0, <3>2 DEF RunOn, Run, Inline
      <4>. QED BY <2>1, <4>1, <4>2, <4>3
    <3>. QED BY <3>1, <3>2
  <2>8. CASE clearRowGenerationStamp(q) \/ markExtractionFailed(q)
    <3>1. \/ q.pc = "settling" /\ Becomes(q, [q EXCEPT !.pc = "checking"])
          \/ q.pc = "failing" /\ Becomes(q, [q EXCEPT !.pc = "settling"])
      BY <2>8, Zenon DEF clearRowGenerationStamp, markExtractionFailed
    <3>2. /\ q.pc = "settling" => RunOn([q EXCEPT !.pc = "checking"], q)
          /\ q.pc = "failing" => RunOn([q EXCEPT !.pc = "settling"], q)
      BY <2>0 DEF RunOn, Run, Inline
    <3>. QED BY <2>1, <3>1, <3>2
  <2>9. CASE checkIdle(q)
    <3>1. \/ StampedBy(q.gen, Cell) = {} /\ Becomes(q, [q EXCEPT !.pc = "releasing"])
          \/ Becomes(q, [q EXCEPT !.pc = "ending"])
      BY <2>9 DEF checkIdle
    <3>2. /\ q.pc = "checking"
          /\ q.pc = "checking" => RunOn([q EXCEPT !.pc = "ending"], q)
          /\ q.pc = "checking" /\ StampedBy(q.gen, Cell) = {} => RunOn([q EXCEPT !.pc = "releasing"], q)
      BY <2>0, <2>9 DEF checkIdle, RunOn, Run, Inline
    <3>. QED BY <2>1, <3>1, <3>2
  <2>10. CASE releaseIdle(q)
    <3>1. q.pc = "releasing" /\ Becomes(q, [q EXCEPT !.pc = "ending"])
      BY <2>10 DEF releaseIdle
    <3>2. RunOn([q EXCEPT !.pc = "ending"], q)
      BY <2>0, <3>1 DEF RunOn, Run, Inline
    <3>. QED BY <2>1, <3>1, <3>2
  <2>11. CASE jobEnds(q)
    <3>1. q.pc = "ending" /\ (Gone(q) \/ Becomes(q, [q EXCEPT !.pc = "failing", !.outcome = "failed"]))
      BY <2>11 DEF jobEnds
    <3>2. RunOn([q EXCEPT !.pc = "failing", !.outcome = "failed"], q)
      BY <2>0, <3>1 DEF RunOn, Run, Inline
    <3>. QED BY <1>0, <2>1, <3>1, <3>2 DEF Gone
  <2>12. CASE rowThrows(q)
    BY <1>0, <2>12 DEF rowThrows, Gone
  <2>. QED BY <1>3, <2>2, <2>3, <2>4, <2>5, <2>6, <2>7, <2>8, <2>9, <2>10, <2>11, <2>12 DEF runStep
<1>4. ASSUME NEW key \in Key, startJob(key) PROVE RunStep(r)
  <2> DEFINE q == [InlineRun(jobs[key].gen, key, {}) EXCEPT
                     !.tries = jobs[key].tries + 1, !.canceled = jobs[key].canceled]
  <2>1. r \in runs \/ r = q
    BY <1>4 DEF startJob
  <2>2. /\ q.gen = jobs[key].gen /\ q.tries = jobs[key].tries + 1 /\ q.pc = "starting" /\ q.outstanding = {}
    BY DEF InlineRun
  <2>3. LiveJob(key)
    BY <1>4 DEF startJob, LiveJob
  <2> HIDE DEF q
  <2>. QED BY <2>1, <2>2, <2>3 DEF RunStep, JobRun
<1>5. CASE \E g \in Gen : requestDies(g) \/ (requestStep(g) /\ ~Claims(g))
  BY <1>0, <1>5 DEF requestDies, requestStep, Claims, loadTabularGenerateWork, requestFails, enqueueExtraction,
     handOver, removeQueuedExtractionJobs, clearCells, releaseLease
<1>6. CASE \E g \in Gen : \/ BeginGenerate(g) \/ BeginRegenerate(g) \/ BeginClear(g)
                          \/ abortGeneration(g) \/ renewGeneration(g)
  BY <1>0, <1>6 DEF BeginGenerate, BeginRegenerate, BeginClear, begin_tabular_review_generation,
     abortGeneration, renewGeneration
<1>7. CASE (\E q \in runs : runDies(q)) \/ (\E key \in Key : loseJob(key)) \/ leaseLapses
  BY <1>0, <1>7 DEF runDies, Gone, loseJob, leaseLapses
<1>8. CASE sweepStep
  BY <1>0, <1>8 DEF sweepStep, sweepReadsCells, sweepReadsLease, sweepReadsJobs, sweepFlips, sweepChecksIdle, sweepReleases
<1>9. CASE UNCHANGED vars
  BY <1>0, <1>9 DEF vars
<1>. QED BY <1>1, <1>2, <1>3, <1>4, <1>5, <1>6, <1>7, <1>8, <1>9 DEF Next, Claims

\* The lease is left alone, taken, renewed, let lapse, or given up for the
\* request that holds it: by itself, by a run that found it idle, by the sweep.
NoLease == [holder |-> NoGen, live |-> FALSE]

GivesUp(g) ==
  \/ releaseLease(g)
  \/ \E r \in runs : r.pc = "releasing" /\ r.gen = g
  \/ sweep.pc = "releasing" /\ g \in sweep.touched

LeaseStep ==
  \/ lease' = lease
  \/ \E g \in Gen : requests[g].pc = "idle" /\ ~isReviewGenerationRunning
                    /\ lease' = [holder |-> g, live |-> TRUE]
                    /\ order'[g] = Cardinality(Begun) + 1
  \/ ~lease.live /\ lease' = [lease EXCEPT !.live = TRUE]
  \/ leaseLapses
  \/ \E g \in Gen : lease.holder = g /\ lease' = NoLease /\ GivesUp(g)

LEMMA FinishSteps ==
  ASSUME NEW g \in Gen, finish_tabular_review_generation(g), GivesUp(g)
  PROVE  LeaseStep
<1>1. lease' = lease \/ (lease.holder = g /\ lease' = NoLease)
  BY DEF finish_tabular_review_generation, NoLease
<1>. QED BY <1>1, Zenon DEF LeaseStep

LEMMA LeaseSteps ==
  ASSUME TypeInv, [Next]_vars
  PROVE  LeaseStep
<1>0. UNCHANGED lease => LeaseStep
  BY DEF LeaseStep
<1>1. CASE \E g \in Gen : BeginGenerate(g) \/ BeginRegenerate(g) \/ BeginClear(g)
  <2>1. PICK g \in Gen, op \in {"generate", "regenerate", "clear"}, target \in SUBSET Cell :
          begin_tabular_review_generation(g, op, target)
    BY <1>1, BeginsType
  <2>2. order'[g] = Cardinality(Begun) + 1
    BY <2>1, BeginType DEF Begun
  <2>. QED BY <2>1, <2>2, Zenon DEF begin_tabular_review_generation, LeaseStep
<1>2. CASE \E g \in Gen : releaseLease(g)
  BY <1>2, FinishSteps DEF releaseLease, GivesUp
<1>3. CASE \E r \in runs : releaseIdle(r)
  <2>1. PICK r \in runs : r.pc = "releasing" /\ finish_tabular_review_generation(r.gen)
    BY <1>3 DEF releaseIdle
  <2>2. r.gen \in Gen /\ GivesUp(r.gen)
    BY <2>1 DEF GivesUp, TypeInv, GridType, RunsType, Run
  <2>. QED BY <2>1, <2>2, FinishSteps
<1>4. CASE sweepReleases
  <2>1. PICK g \in sweep.touched : sweep.pc = "releasing" /\ finish_tabular_review_generation(g)
    BY <1>4 DEF sweepReleases
  <2>2. g \in Gen /\ GivesUp(g)
    BY <2>1 DEF GivesUp, TypeInv, RestType, SweepType, SweepRow
  <2>. QED BY <2>1, <2>2, FinishSteps
<1>5. CASE leaseLapses \/ \E g \in Gen : renewGeneration(g)
  BY <1>5 DEF renewGeneration, LeaseStep
<1>6. CASE \E g \in Gen : abortGeneration(g) \/ requestDies(g) \/ (requestStep(g) /\ ~releaseLease(g))
  BY <1>0, <1>6 DEF abortGeneration, requestDies, requestStep, loadTabularGenerateWork, claimCellsForGeneration,
     regenerateCell, requestFails, enqueueExtraction, handOver, removeQueuedExtractionJobs, clearCells
<1>7. CASE (\E r \in runs : runDies(r) \/ (runStep(r) /\ ~releaseIdle(r))) \/ (\E key \in Key : startJob(key) \/ loseJob(key))
  BY <1>0, <1>7 DEF runStep, loadRow, loadThrows, startRow, rowThrows, markGenerating, receiveColumn, answerEnds,
     clearRowGenerationStamp, checkIdle, jobEnds, markExtractionFailed, runDies, startJob, loseJob
<1>8. CASE sweepStep /\ ~sweepReleases
  BY <1>0, <1>8 DEF sweepStep, sweepReadsCells, sweepReadsLease, sweepReadsJobs, sweepFlips, sweepChecksIdle
<1>9. CASE UNCHANGED vars
  BY <1>0, <1>9 DEF vars
<1>. QED BY <1>1, <1>2, <1>3, <1>4, <1>5, <1>6, <1>7, <1>8, <1>9 DEF Next

\* Nothing but the sweep itself writes what it has in hand.
LEMMA SweepSteps ==
  ASSUME [Next]_vars
  PROVE  \/ sweep' = sweep
         \/ sweepStep /\ UNCHANGED <<requests, jobs, runs, order, by>>
<1>1. CASE \E g \in Gen : \/ BeginGenerate(g) \/ BeginRegenerate(g) \/ BeginClear(g) \/ requestStep(g)
                          \/ abortGeneration(g) \/ requestDies(g) \/ renewGeneration(g)
  BY <1>1 DEF BeginGenerate, BeginRegenerate, BeginClear, begin_tabular_review_generation,
     abortGeneration, requestDies, renewGeneration, requestStep, loadTabularGenerateWork,
     claimCellsForGeneration, regenerateCell, requestFails, enqueueExtraction, handOver,
     removeQueuedExtractionJobs, clearCells, releaseLease
<1>2. CASE (\E r \in runs : runStep(r) \/ runDies(r)) \/ (\E key \in Key : startJob(key) \/ loseJob(key)) \/ leaseLapses
  BY <1>2 DEF runStep, loadRow, loadThrows, startRow, rowThrows, markGenerating, receiveColumn, answerEnds,
     clearRowGenerationStamp, checkIdle, releaseIdle, jobEnds, markExtractionFailed, runDies, startJob, loseJob,
     leaseLapses
<1>3. CASE sweepStep
  BY <1>3 DEF sweepStep, sweepReadsCells, sweepReadsLease, sweepReadsJobs, sweepFlips, sweepChecksIdle, sweepReleases
<1>. QED BY <1>1, <1>2, <1>3 DEF Next, vars

\* A request only goes forward: it takes the lease, loads its work, claims its
\* cells, hands its work over, and is over.
Kept(h) ==
  /\ requests'[h].todo = requests[h].todo
  /\ requests'[h].enqueued = requests[h].enqueued
  /\ requests'[h].aborted = requests[h].aborted

Takes(h) ==
  \E op \in {"generate", "regenerate", "clear"}, target \in SUBSET Cell :
    begin_tabular_review_generation(h, op, target)

RequestStep(h) ==
  \/ requests'[h] = requests[h]
  \/ /\ requests[h].pc = "idle" /\ requests'[h].pc = "begun" /\ Kept(h)
     /\ Takes(h)
  \/ requests[h].pc \in {"begun", "loaded"} /\ requests'[h].pc \in {"loaded", "ending"} /\ Kept(h)
  \/ /\ Claims(h) /\ requests'[h].pc = "claimed"
     /\ Async \/ requests'[h].todo = {}
     /\ requests'[h].enqueued = requests[h].enqueued /\ requests'[h].aborted = requests[h].aborted
  \/ /\ requests[h].pc = "claimed" /\ requests'[h].pc = "claimed"
     /\ requests'[h].todo \subseteq requests[h].todo
     /\ requests[h].enqueued => requests'[h].enqueued
     /\ requests'[h].aborted = requests[h].aborted
  \/ handOver(h) /\ ~requests[h].enqueued /\ requests'[h].pc = "ending" /\ Kept(h)
  \/ requests[h].pc = "claimed" /\ AtWork(h) /\ requests'[h].pc = "failed" /\ Kept(h)
  \/ /\ requests[h].pc # "idle" /\ requests'[h].pc = "over"
     /\ requests'[h].todo = {} /\ requests'[h].enqueued = requests[h].enqueued
     /\ handOver(h) \/ releaseLease(h) \/ requestDies(h)
  \/ /\ requests'[h].pc = requests[h].pc /\ requests'[h].todo = requests[h].todo
     /\ requests'[h].enqueued = requests[h].enqueued /\ requests'[h].aborted

LEMMA RequestSteps ==
  ASSUME TypeInv, [Next]_vars, NEW h \in Gen
  PROVE  RequestStep(h)
<1> USE DEF TypeInv, RestType, RequestsType, Request
<1>1. CASE \E g \in Gen : BeginGenerate(g) \/ BeginRegenerate(g) \/ BeginClear(g)
  <2>1. PICK g \in Gen, op \in {"generate", "regenerate", "clear"}, target \in SUBSET Cell :
          begin_tabular_review_generation(g, op, target)
    BY <1>1, BeginsType
  <2>2. requests' = [requests EXCEPT ![g].op = op, ![g].pc = "begun", ![g].cells = target]
        /\ requests[g].pc = "idle"
    BY <2>1 DEF begin_tabular_review_generation
  <2>3. Takes(g)
    BY <2>1, Zenon DEF Takes
  <2>. QED BY <2>2, <2>3 DEF RequestStep, Kept
<1>2. ASSUME NEW g \in Gen, requestStep(g) \/ abortGeneration(g) \/ requestDies(g) \/ renewGeneration(g)
      PROVE  RequestStep(h)
  <2>1. CASE loadTabularGenerateWork(g) \/ requestFails(g) \/ removeQueuedExtractionJobs(g) \/ clearCells(g)
    <3>1. requests[g].pc \in {"begun", "loaded"} /\ \E S, pc \in {"loaded", "ending"} :
            requests' = [requests EXCEPT ![g].cells = S, ![g].pc = pc]
      <4>1. CASE loadTabularGenerateWork(g)
        BY <4>1 DEF loadTabularGenerateWork
      <4>2. CASE requestFails(g)
        <5>1. requests' = [requests EXCEPT ![g].cells = requests[g].cells, ![g].pc = "ending"]
          BY <4>2 DEF requestFails
        <5>. QED BY <4>2, <5>1 DEF requestFails
      <4>3. CASE removeQueuedExtractionJobs(g)
        <5>1. requests' = [requests EXCEPT ![g].cells = requests[g].cells, ![g].pc = "loaded"]
          BY <4>3 DEF removeQueuedExtractionJobs
        <5>. QED BY <4>3, <5>1 DEF removeQueuedExtractionJobs
      <4>4. CASE clearCells(g)
        <5>1. requests' = [requests EXCEPT ![g].cells = requests[g].cells, ![g].pc = "ending"]
          BY <4>4 DEF clearCells
        <5>. QED BY <4>4, <5>1 DEF clearCells
      <4>. QED BY <2>1, <4>1, <4>2, <4>3, <4>4
    <3>. QED BY <3>1 DEF RequestStep, Kept
  <2>2. CASE Claims(g)
    <3>1. PICK todo : requests' = [requests EXCEPT ![g].pc = "claimed", ![g].todo = todo] /\ (Async \/ todo = {})
      <4>1. CASE claimCellsForGeneration(g)
        BY <4>1 DEF claimCellsForGeneration
      <4>2. CASE regenerateCell(g)
        BY <4>2 DEF regenerateCell
      <4>. QED BY <2>2, <4>1, <4>2 DEF Claims
    <3>. QED BY <2>2, <3>1 DEF RequestStep
  <2>3. CASE \E key \in Key : enqueueExtraction(g, key)
    <3>1. PICK key \in Key : enqueueExtraction(g, key)
      BY <2>3
    <3>2. \/ requests' = [requests EXCEPT ![g].todo = @ \ {key}, ![g].enqueued = TRUE]
          \/ requests' = [requests EXCEPT ![g].todo = @ \ {key}]
      BY <3>1 DEF enqueueExtraction
    <3>3. requests[g].pc = "claimed"
      BY <3>1 DEF enqueueExtraction
    <3>. QED BY <3>2, <3>3 DEF RequestStep
  <2>4. CASE handOver(g)
    <3>1. \/ ~requests[g].enqueued /\ requests' = [requests EXCEPT ![g].pc = "ending"]
          \/ requests[g].pc = "claimed" /\ requests' = Over(g)
      BY <2>4 DEF handOver
    <3>2. CASE ~requests[g].enqueued /\ requests' = [requests EXCEPT ![g].pc = "ending"]
      BY <2>4, <3>2 DEF RequestStep, Kept
    <3>3. CASE requests[g].pc = "claimed" /\ requests' = Over(g)
      BY <2>4, <3>3 DEF RequestStep, Over, NoRequest
    <3>. QED BY <3>1, <3>2, <3>3
  <2>5. CASE releaseLease(g) \/ requestDies(g)
    <3>1. requests' = Over(g) /\ requests[g].pc # "idle"
      BY <2>5 DEF releaseLease, requestDies
    <3>. QED BY <2>5, <3>1 DEF RequestStep, Over, NoRequest
  <2>6. CASE abortGeneration(g)
    <3>1. requests' = [requests EXCEPT ![g].aborted = TRUE]
      BY <2>6 DEF abortGeneration
    <3>. QED BY <3>1 DEF RequestStep
  <2>7. CASE renewGeneration(g)
    BY <2>7 DEF renewGeneration, RequestStep
  <2>. QED BY <1>2, <2>1, <2>2, <2>3, <2>4, <2>5, <2>6, <2>7 DEF requestStep, Claims
<1>3. CASE UNCHANGED requests
  BY <1>3 DEF RequestStep
<1>4. CASE (\E r \in runs : runDies(r) \/ (runStep(r) /\ ~rowThrows(r))) \/ (\E key \in Key : startJob(key) \/ loseJob(key))
  BY <1>3, <1>4 DEF runStep, loadRow, loadThrows, startRow, markGenerating, receiveColumn, answerEnds,
     clearRowGenerationStamp, checkIdle, releaseIdle, jobEnds, markExtractionFailed, runDies, startJob, loseJob
<1>6. ASSUME NEW r \in runs, rowThrows(r) PROVE RequestStep(h)
  <2>1. requests' = [requests EXCEPT ![r.gen].pc = IF @ = "claimed" THEN "failed" ELSE @] /\ Inline(r)
    BY <1>6 DEF rowThrows
  <2>2. CASE h = r.gen /\ requests[h].pc = "claimed"
    <3>1. AtWork(h)
      BY <2>1, <2>2 DEF AtWork
    <3>. QED BY <2>1, <2>2, <3>1 DEF RequestStep, Kept
  <2>3. CASE ~(h = r.gen /\ requests[h].pc = "claimed")
    <3>1. requests'[h] = requests[h]
      BY <2>1, <2>3
    <3>. QED BY <3>1 DEF RequestStep
  <2>. QED BY <2>2, <2>3
<1>5. CASE leaseLapses \/ sweepStep
  BY <1>3, <1>5 DEF leaseLapses, sweepStep, sweepReadsCells, sweepReadsLease, sweepReadsJobs, sweepFlips,
     sweepChecksIdle, sweepReleases
<1>. QED BY <1>1, <1>2, <1>3, <1>4, <1>5, <1>6 DEF Next, vars

LEMMA PastStays ==
  ASSUME TypeInv, [Next]_vars, NEW h \in Gen, Past(h)
  PROVE  Past(h)'
<1>1. ~Claims(h)
  BY ClaimIsPast
<1>2. requests[h].pc # "begun" /\ requests[h].pc # "loaded" /\ requests[h].pc # "idle"
  BY DEF Past
<1>. QED BY <1>1, <1>2, RequestSteps DEF RequestStep, Past

LEMMA OrderSteps ==
  ASSUME TypeInv, [Next]_vars
  PROVE  \/ \E g \in Gen : Takes(g)
         \/ order' = order /\ \A g \in Gen : requests[g].pc = "idle" <=> requests'[g].pc = "idle"
<1> SUFFICES ASSUME ~\E g \in Gen : Takes(g)
             PROVE  order' = order /\ \A g \in Gen : requests[g].pc = "idle" <=> requests'[g].pc = "idle"
  OBVIOUS
<1>1. ~\E g \in Gen : BeginGenerate(g) \/ BeginRegenerate(g) \/ BeginClear(g)
  BY BeginsType, Zenon DEF Takes
<1>2. order' = order
  <2>1. CASE \E g \in Gen : requestStep(g) \/ abortGeneration(g) \/ requestDies(g) \/ renewGeneration(g)
    BY <2>1 DEF abortGeneration, requestDies, renewGeneration, requestStep, loadTabularGenerateWork,
       claimCellsForGeneration, regenerateCell, requestFails, enqueueExtraction, handOver,
       removeQueuedExtractionJobs, clearCells, releaseLease
  <2>2. CASE (\E r \in runs : runStep(r) \/ runDies(r)) \/ (\E key \in Key : startJob(key) \/ loseJob(key)) \/ leaseLapses
    BY <2>2 DEF runStep, loadRow, loadThrows, startRow, rowThrows, markGenerating, receiveColumn, answerEnds,
       clearRowGenerationStamp, checkIdle, releaseIdle, jobEnds, markExtractionFailed, runDies, startJob, loseJob,
       leaseLapses
  <2>3. CASE sweepStep
    BY <2>3 DEF sweepStep, sweepReadsCells, sweepReadsLease, sweepReadsJobs, sweepFlips, sweepChecksIdle, sweepReleases
  <2>. QED BY <1>1, <2>1, <2>2, <2>3 DEF Next, vars
<1>3. ASSUME NEW g \in Gen PROVE requests[g].pc = "idle" <=> requests'[g].pc = "idle"
  <2>1. RequestStep(g) /\ ~Takes(g)
    BY RequestSteps
  <2>2. Claims(g) => requests[g].pc # "idle"
    BY DEF Claims, claimCellsForGeneration, regenerateCell
  <2>3. handOver(g) => requests[g].pc # "idle"
    BY DEF handOver
  <2>. QED BY <2>1, <2>2, <2>3 DEF RequestStep, Kept
<1>. QED BY <1>2, <1>3

---------------------------------------------------------------------------
(* The invariant *)

\* Whatever carries a request's id got it when the request claimed its cells,
\* or later.
NamesInv ==
  /\ \A g \in Gen, c \in Cell : cells[c].stamp = g => Past(g)
  /\ \A key \in Key : LiveJob(key) => Past(jobs[key].gen)
  /\ \A r \in runs : Past(r.gen)
  /\ \A f \in sweep.found : f[2] \in Gen => Past(f[2])
  /\ sweep.condemned \subseteq sweep.found
  /\ \A g \in sweep.touched : Past(g)

LEMMA NamesStep ==
  ASSUME TypeInv, NamesInv, [Next]_vars
  PROVE  NamesInv'
<1>0. TypeInv' /\ NoGen \notin Gen
  BY NextType, TabularAssumption DEF TabularAssumption
<1>1. ASSUME NEW g \in Gen, NEW c \in Cell, (cells[c].stamp = g)' PROVE Past(g)'
  <2>1. cells[c].stamp = g \/ Claims(g)
    BY <1>0, <1>1, CellSteps DEF CellStep
  <2>. QED BY <2>1, PastStays, ClaimIsPast DEF NamesInv
<1>2. ASSUME NEW key \in Key, LiveJob(key)' PROVE Past(jobs[key].gen)'
  <2>1. jobs'[key].gen \in Gen
    BY <1>0, <1>2 DEF TypeInv, RestType, JobsType
  <2>2. Past(jobs'[key].gen)
    BY <1>2, JobSteps DEF JobStep, NamesInv, Past
  <2>3. \A g \in Gen : Past(g) => Past(g)'
    BY PastStays
  <2>4. PICK g \in Gen : g = jobs'[key].gen
    BY <2>1
  <2>. QED BY <2>2, <2>3, <2>4 DEF Past
<1>3. ASSUME NEW r \in runs' PROVE Past(r.gen)'
  <2>1. r.gen \in Gen
    BY <1>0 DEF TypeInv, GridType, RunsType, Run
  <2>2. Past(r.gen) \/ Claims(r.gen)
    BY RunSteps DEF RunStep, RunOn, JobRun, NamesInv
  <2>. QED BY <2>1, <2>2, PastStays, ClaimIsPast
<1>4. /\ \A f \in sweep'.found : f[2] \in Gen => Past(f[2])
      /\ sweep'.condemned \subseteq sweep'.found
      /\ \A g \in sweep'.touched : Past(g)
  <2> USE DEF NamesInv, TypeInv, RestType, SweepType, SweepRow
  <2>1. CASE sweep' = sweep
    BY <2>1
  <2>2. CASE sweepReadsCells
    <3>1. /\ sweep'.found = {<<c, cells[c].stamp>> : c \in {c \in Cell : cells[c].status = "generating"}}
          /\ sweep'.condemned = {} /\ sweep'.touched = {}
      BY <2>2 DEF sweepReadsCells, NoSweep
    <3>. QED BY <3>1
  <2>3. CASE sweepReadsLease
    BY <2>3 DEF sweepReadsLease, NoSweep
  <2>4. CASE sweepReadsJobs
    <3>1. PICK f \in sweep.found \ sweep.condemned :
             sweep' \in {[sweep EXCEPT !.found = @ \ {f}], [sweep EXCEPT !.condemned = @ \cup {f}]}
      BY <2>4 DEF sweepReadsJobs
    <3>. QED BY <3>1
  <2>5. CASE sweepFlips
    <3>1. PICK f \in sweep.condemned : sweep' = [sweep EXCEPT !.found = @ \ {f}, !.condemned = @ \ {f},
                                                   !.touched = @ \cup ({f[2]} \ {NoGen})]
      BY <2>5 DEF sweepFlips
    <3>. QED BY <3>1
  <2>6. CASE sweepChecksIdle
    <3> DEFINE idle == {g \in sweep.touched : StampedBy(g, Cell) = {}}
    <3>1. sweep' = IF idle = {} THEN NoSweep ELSE [NoSweep EXCEPT !.pc = "releasing", !.touched = idle]
      BY <2>6 DEF sweepChecksIdle
    <3>2. idle \subseteq sweep.touched
      OBVIOUS
    <3> HIDE DEF idle
    <3>. QED BY <3>1, <3>2 DEF NoSweep
  <2>7. CASE sweepReleases
    BY <2>7 DEF sweepReleases, NoSweep
  <2>. QED BY <2>1, <2>2, <2>3, <2>4, <2>5, <2>6, <2>7, SweepSteps DEF sweepStep
<1>5. sweep'.touched \subseteq Gen
  BY <1>0 DEF TypeInv, RestType, SweepType, SweepRow
<1>6. \A g \in Gen : Past(g) => Past(g)'
  BY PastStays
<1>7. /\ \A f \in sweep'.found : f[2] \in Gen => Past(f[2])'
      /\ \A g \in sweep'.touched : Past(g)'
  BY <1>4, <1>5, <1>6
<1>. QED BY <1>1, <1>2, <1>3, <1>4, <1>7 DEF NamesInv

\* With a queue every run is a job's; without one every run is a request's,
\* and nothing is queued.
ModeInv ==
  /\ Async => \A r \in runs : ~Inline(r)
  /\ ~Async => /\ \A key \in Key : ~LiveJob(key)
               /\ \A g \in Gen : requests[g].todo = {}
               /\ \A r \in runs : Inline(r) /\ r.pc \in {"starting", "extracting"}

LEMMA ModeStep ==
  ASSUME TypeInv, ModeInv, [Next]_vars
  PROVE  ModeInv'
<1>0. TypeInv'
  BY NextType
<1>1. ASSUME Async, NEW r \in runs' PROVE ~Inline(r)
  <2>1. CASE JobRun(r)
    BY <2>1 DEF JobRun, Inline, TypeInv, RestType, JobsType, JobRow
  <2>. QED BY <1>1, <2>1, RunSteps DEF RunStep, RunOn, ModeInv, Inline
<1>2. ASSUME ~Async, NEW key \in Key PROVE ~LiveJob(key)'
  BY <1>2, JobSteps DEF JobStep, ModeInv
<1>3. ASSUME ~Async, NEW g \in Gen PROVE requests'[g].todo = {}
  BY <1>3, RequestSteps DEF RequestStep, Kept, ModeInv
<1>4. ASSUME ~Async, NEW r \in runs' PROVE Inline(r) /\ r.pc \in {"starting", "extracting"}
  <2>1. ~JobRun(r)
    BY <1>4 DEF JobRun, ModeInv
  <2>. QED BY <1>4, <2>1, RunSteps DEF RunStep, RunOn, ModeInv, Inline
<1>. QED BY <1>1, <1>2, <1>3, <1>4 DEF ModeInv, Inline

\* Once a request has claimed its cells, those it has lost it does not get back.
LEMMA IdleStays ==
  ASSUME TypeInv, [Next]_vars, NEW g \in Gen, Past(g), StampedBy(g, Cell) = {}
  PROVE  \A c \in Cell : cells'[c].stamp # g
<1> SUFFICES ASSUME NEW c \in Cell, cells'[c].stamp = g PROVE FALSE
  OBVIOUS
<1>1. cells[c].stamp # g
  BY DEF StampedBy
<1>2. ~Claims(g)
  BY ClaimIsPast
<1>. QED BY <1>1, <1>2, CellSteps, TabularAssumption DEF CellStep, TabularAssumption

\* Who is about to release an idle generation is right about it.
IdleInv ==
  /\ \A r \in runs, c \in Cell : r.pc = "releasing" => cells[c].stamp # r.gen
  /\ \A g \in sweep.touched, c \in Cell : sweep.pc = "releasing" => cells[c].stamp # g

LEMMA IdleStep ==
  ASSUME TypeInv, NamesInv, IdleInv, [Next]_vars
  PROVE  IdleInv'
<1>0. TypeInv' /\ NamesInv'
  BY NextType, NamesStep
<1>1. ASSUME NEW r \in runs', r.pc = "releasing" PROVE \A c \in Cell : cells'[c].stamp # r.gen
  <2>0. r.gen \in Gen
    BY <1>0 DEF TypeInv, GridType, RunsType, Run
  <2>1. Past(r.gen) /\ StampedBy(r.gen, Cell) = {}
    <3>1. CASE ~Async /\ Claims(r.gen) /\ Inline(r) /\ r.pc \in {"starting", "extracting"}
      BY <1>1, <3>1
    <3>2. CASE JobRun(r)
      BY <1>1, <3>2 DEF JobRun
    <3>3. CASE r \in runs
      BY <1>1, <3>3 DEF IdleInv, NamesInv, StampedBy
    <3>4. CASE \E q \in runs : RunOn(r, q)
      BY <1>1, <3>4 DEF IdleInv, NamesInv, StampedBy, RunOn
    <3>. QED BY <3>1, <3>2, <3>3, <3>4, RunSteps DEF RunStep
  <2>. QED BY <2>0, <2>1, IdleStays
<1>2. ASSUME NEW g \in sweep'.touched, sweep'.pc = "releasing" PROVE \A c \in Cell : cells'[c].stamp # g
  <2>0. g \in Gen
    BY <1>0 DEF TypeInv, RestType, SweepType, SweepRow
  <2>1. g \in sweep.touched /\ StampedBy(g, Cell) = {}
    <3> USE DEF TypeInv, RestType, SweepType, SweepRow, NoSweep
    <3>1. CASE sweep' = sweep
      BY <1>2, <3>1 DEF IdleInv, StampedBy
    <3>2. CASE sweepChecksIdle
      <4> DEFINE idle == {h \in sweep.touched : StampedBy(h, Cell) = {}}
      <4>1. sweep' = IF idle = {} THEN NoSweep ELSE [NoSweep EXCEPT !.pc = "releasing", !.touched = idle]
        BY <3>2 DEF sweepChecksIdle
      <4>2. g \in idle
        <5> HIDE DEF idle
        <5>. QED BY <1>2, <4>1
      <4>. QED BY <4>2
    <3>3. CASE sweepReleases
      BY <1>2, <3>3 DEF sweepReleases, IdleInv, StampedBy
    <3>4. CASE sweepReadsCells
      <4>1. sweep'.pc = "leasing"
        BY <3>4 DEF sweepReadsCells
      <4>. QED BY <1>2, <4>1
    <3>5. CASE sweepReadsLease
      BY <1>2, <3>5 DEF sweepReadsLease
    <3>6. CASE sweepReadsJobs
      <4>1. sweep'.pc = "flipping"
        BY <3>6 DEF sweepReadsJobs
      <4>. QED BY <1>2, <4>1
    <3>7. CASE sweepFlips
      <4>1. sweep'.pc = "flipping"
        BY <3>7 DEF sweepFlips
      <4>. QED BY <1>2, <4>1
    <3>. QED BY <3>1, <3>2, <3>3, <3>4, <3>5, <3>6, <3>7, SweepSteps DEF sweepStep
  <2>. QED BY <2>0, <2>1, IdleStays DEF NamesInv
<1>. QED BY <1>1, <1>2 DEF IdleInv

\* Requests take the lease one after the other; the holder is the last that
\* did, and a stamp names the last to have written the cell.
OrderInv ==
  /\ \A g \in Gen : order[g] <= Cardinality(Begun)
  /\ \A g \in Gen : requests[g].pc = "idle" <=> order[g] = 0
  /\ \A c \in Cell : by[c] <= Cardinality(Begun)
  /\ \A g \in Gen : lease.holder = g => order[g] = Cardinality(Begun)
  /\ \A g \in Gen, c \in Cell : cells[c].stamp = g => by[c] = order[g]

LEMMA OrderStep ==
  ASSUME TypeInv, NamesInv, OrderInv, [Next]_vars
  PROVE  OrderInv'
<1>0. /\ TypeInv' /\ NoGen \notin Gen /\ Cardinality(Begun) \in Nat
      /\ order \in [Gen -> Nat] /\ by \in [Cell -> Nat] /\ by' \in [Cell -> Nat]
  BY NextType, TabularAssumption, FS_CardinalityType
     DEF TabularAssumption, TypeInv, GridType, ByType, RestType, OrderType
<1>1. CASE \E g \in Gen : Takes(g)
  <2>1. PICK g \in Gen, op \in {"generate", "regenerate", "clear"}, target \in SUBSET Cell :
          begin_tabular_review_generation(g, op, target)
    BY <1>1 DEF Takes
  <2>2. Begun' = Begun \cup {g} /\ order'[g] = Cardinality(Begun) + 1
    BY <2>1, BeginType DEF Begun
  <2>3. /\ requests[g].pc = "idle" /\ UNCHANGED <<cells, by>>
        /\ order' = [order EXCEPT ![g] = Cardinality(Begun) + 1]
        /\ lease' = [holder |-> g, live |-> TRUE]
        /\ requests' = [requests EXCEPT ![g].op = op, ![g].pc = "begun", ![g].cells = target]
    BY <2>1 DEF begin_tabular_review_generation, Begun
  <2>4. g \notin Begun /\ Cardinality(Begun') = Cardinality(Begun) + 1
    <3>1. order[g] = 0 /\ g \notin Begun
      BY <2>3 DEF OrderInv, Begun
    <3>. QED BY <2>2, <3>1, FS_AddElement DEF TypeInv, RestType, OrderType
  <2>5. ~Past(g) /\ \A c \in Cell : cells[c].stamp # g
    BY <2>3 DEF Past, NamesInv
  <2> HIDE DEF begin_tabular_review_generation
  <2>6. /\ \A h \in Gen : order'[h] <= Cardinality(Begun)'
        /\ \A c \in Cell : by'[c] <= Cardinality(Begun)'
        /\ \A h \in Gen : lease'.holder = h => order'[h] = Cardinality(Begun)'
    BY <1>0, <2>3, <2>4 DEF OrderInv
  <2>7. \A h \in Gen : requests'[h].pc = "idle" <=> order'[h] = 0
    BY <1>0, <2>3 DEF OrderInv, TypeInv, RestType, RequestsType, Request
  <2>8. \A h \in Gen, c \in Cell : cells'[c].stamp = h => by'[c] = order'[h]
    BY <1>0, <2>3, <2>5 DEF OrderInv
  <2>. QED BY <2>6, <2>7, <2>8 DEF OrderInv
<1>2. CASE order' = order /\ (\A g \in Gen : requests[g].pc = "idle" <=> requests'[g].pc = "idle")
  <2>1. Begun' = Begun
    BY <1>2 DEF Begun
  <2>2. ASSUME NEW c \in Cell
        PROVE  by'[c] <= Cardinality(Begun) /\ \A g \in Gen : cells'[c].stamp = g => by'[c] = order[g]
    BY <1>0, CellSteps DEF CellStep, OrderInv
  <2>3. ASSUME NEW g \in Gen, lease'.holder = g PROVE order[g] = Cardinality(Begun)
    <3>1. lease.holder = g \/ ~LeaseStep
      <4>1. ASSUME NEW h \in Gen, order'[h] = Cardinality(Begun) + 1 PROVE FALSE
        BY <1>0, <1>2, <4>1 DEF OrderInv
      <4>2. lease \in [holder : Gen \cup {NoGen}, live : BOOLEAN]
        BY DEF TypeInv, RestType, LeaseType
      <4>. QED BY <1>0, <2>3, <4>1, <4>2 DEF LeaseStep, NoLease, leaseLapses
    <3>. QED BY <3>1, LeaseSteps DEF OrderInv
  <2>4. Cardinality(Begun)' = Cardinality(Begun)
    BY <2>1
  <2>5. /\ \A g \in Gen : order'[g] <= Cardinality(Begun)'
        /\ \A g \in Gen : requests'[g].pc = "idle" <=> order'[g] = 0
    BY <1>2, <2>4 DEF OrderInv
  <2>6. /\ \A c \in Cell : by'[c] <= Cardinality(Begun)'
        /\ \A g \in Gen : lease'.holder = g => order'[g] = Cardinality(Begun)'
        /\ \A g \in Gen, c \in Cell : cells'[c].stamp = g => by'[c] = order'[g]
    BY <1>2, <2>2, <2>3, <2>4
  <2>. QED BY <2>5, <2>6 DEF OrderInv
<1>. QED BY <1>1, <1>2, OrderSteps

\* Until it has claimed its cells, and handed them to the queue if there is
\* one, a hurried request has the lease.
Held(g) == [holder |-> g, live |-> TRUE]
LeaseInv ==
  Prompt => /\ \A g \in Gen : requests[g].pc \in {"begun", "loaded"} => lease = Held(g)
            /\ Async => \A g \in Gen, c \in Cell :
                          requests[g].pc = "claimed" /\ cells[c].stamp = g => lease = Held(g)

LEMMA HeldStays ==
  ASSUME TypeInv, NamesInv, IdleInv, Prompt, [Next]_vars, NEW g \in Gen, lease = Held(g), Hurried(g),
         Past(g) => \E c \in Cell : cells[c].stamp = g
  PROVE  lease' = Held(g)
<1>1. isReviewGenerationRunning /\ lease.holder = g
  BY TabularAssumption DEF Held, isReviewGenerationRunning, TabularAssumption
<1>2. ~leaseLapses
  BY <1>1 DEF leaseLapses
<1>3. ~GivesUp(g)
  <2>1. requests[g].pc \notin {"ending", "failed"}
    BY DEF Hurried
  <2>. QED BY <2>1 DEF GivesUp, releaseLease, IdleInv, NamesInv
<1>4. lease.live
  BY DEF Held
<1>. QED BY <1>1, <1>2, <1>3, <1>4, LeaseSteps DEF LeaseStep

LEMMA LeaseInvStep ==
  ASSUME TypeInv, NamesInv, IdleInv, LeaseInv, [Next]_vars
  PROVE  LeaseInv'
<1> SUFFICES ASSUME Prompt
             PROVE  /\ \A g \in Gen : requests'[g].pc \in {"begun", "loaded"} => lease' = Held(g)
                    /\ Async => \A g \in Gen, c \in Cell :
                                  requests'[g].pc = "claimed" /\ cells'[c].stamp = g => lease' = Held(g)
  BY DEF LeaseInv, Held
<1>1. ASSUME NEW g \in Gen, requests[g].pc \in {"begun", "loaded"} PROVE lease' = Held(g)
  <2>1. lease = Held(g) /\ Hurried(g) /\ ~Past(g)
    BY <1>1 DEF LeaseInv, Hurried, Past
  <2>. QED BY <2>1, HeldStays
<1>2. ASSUME NEW g \in Gen, Takes(g) PROVE lease' = Held(g)
  BY <1>2 DEF Takes, begin_tabular_review_generation, Held
<1>3. ASSUME NEW g \in Gen, Claims(g) PROVE lease' = Held(g)
  <2>1. requests[g].pc \in {"begun", "loaded"}
    BY <1>3 DEF Claims, claimCellsForGeneration, regenerateCell
  <2>. QED BY <1>1, <2>1
<1>4. ASSUME NEW g \in Gen, requests'[g].pc \in {"begun", "loaded"} PROVE lease' = Held(g)
  <2>1. requests[g].pc \in {"begun", "loaded"} \/ Takes(g)
    BY <1>4, RequestSteps DEF RequestStep
  <2>. QED BY <1>1, <1>2, <2>1
<1>5. ASSUME Async, NEW g \in Gen, NEW c \in Cell, requests'[g].pc = "claimed", cells'[c].stamp = g
      PROVE  lease' = Held(g)
  <2>1. requests[g].pc = "claimed" \/ Claims(g)
    BY <1>5, RequestSteps DEF RequestStep
  <2>2. cells[c].stamp = g \/ Claims(g)
    BY <1>5, CellSteps, TabularAssumption DEF CellStep, TabularAssumption
  <2>3. CASE requests[g].pc = "claimed" /\ cells[c].stamp = g
    <3>1. lease = Held(g) /\ Hurried(g)
      BY <1>5, <2>3 DEF LeaseInv, Hurried
    <3>. QED BY <2>3, <3>1, HeldStays
  <2>. QED BY <1>3, <2>1, <2>2, <2>3
<1>. QED BY <1>4, <1>5

\* What the sweep has found, and is about to fail, nobody will fill: its
\* request has handed over all it will, and the queue has no job for it.
OrphanInv ==
  /\ sweep.pc # "flipping" => sweep.condemned = {}
  /\ ~Async => sweep.found = {}
  /\ Prompt /\ sweep.pc = "flipping" =>
       \A f \in sweep.found : f[2] \in Gen /\ cells[f[1]].stamp = f[2] =>
         /\ requests[f[2]].pc # "claimed"
         /\ f \in sweep.condemned =>
              \A key \in Key : f[1] \in CellsOf(key) /\ LiveJob(key) => jobs[key].gen # f[2]

LEMMA OrphanStep ==
  ASSUME TypeInv, NamesInv, LeaseInv, OrphanInv, [Next]_vars
  PROVE  OrphanInv'
<1> USE DEF TypeInv, RestType, SweepType, SweepRow
<1>1. sweep'.pc # "flipping" => sweep'.condemned = {}
  <2>1. CASE sweepFlips \/ sweepReadsJobs
    <3>1. sweep'.pc = "flipping"
      BY <2>1 DEF sweepFlips, sweepReadsJobs
    <3>. QED BY <3>1
  <2>2. CASE sweepReleases
    BY <2>2 DEF sweepReleases, NoSweep, OrphanInv
  <2>3. CASE sweepReadsCells
    BY <2>3 DEF sweepReadsCells, NoSweep
  <2>4. CASE sweepReadsLease
    BY <2>4 DEF sweepReadsLease, NoSweep
  <2>5. CASE sweepChecksIdle
    BY <2>5 DEF sweepChecksIdle, NoSweep
  <2>. QED BY <2>1, <2>2, <2>3, <2>4, <2>5, SweepSteps DEF sweepStep, OrphanInv
<1>2. ~Async => sweep'.found = {}
  <2>1. CASE sweepReadsCells
    BY <2>1 DEF sweepReadsCells
  <2>2. CASE sweepReadsJobs
    BY <2>2 DEF sweepReadsJobs, OrphanInv
  <2>3. CASE sweepFlips
    BY <2>3 DEF sweepFlips, OrphanInv
  <2>4. CASE sweepReadsLease
    BY <2>4 DEF sweepReadsLease, NoSweep, OrphanInv
  <2>5. CASE sweepChecksIdle
    BY <2>5 DEF sweepChecksIdle, NoSweep
  <2>6. CASE sweepReleases
    BY <2>6 DEF sweepReleases, NoSweep, OrphanInv
  <2>. QED BY <2>1, <2>2, <2>3, <2>4, <2>5, <2>6, SweepSteps DEF sweepStep, OrphanInv
<1>3. ASSUME Prompt, sweep'.pc = "flipping",
             NEW f \in sweep'.found, f[2] \in Gen, cells'[f[1]].stamp = f[2]
      PROVE  /\ requests'[f[2]].pc # "claimed"
             /\ f \in sweep'.condemned =>
                  \A key \in Key : f[1] \in CellsOf(key) /\ LiveJob(key)' => jobs'[key].gen # f[2]
  <2> DEFINE Given(h) == requests[h].pc = "claimed"
             Covered == \E key \in Key : f[1] \in CellsOf(key) /\ LiveJob(key) /\ jobs[key].gen = f[2]
  <2>1. f \in sweep.found /\ (f \in sweep'.condemned => f \in sweep.condemned \/ ~Covered)
        /\ (sweep.pc = "flipping" \/ sweepReadsLease)
    <3>1. CASE sweep' = sweep
      BY <1>3, <3>1
    <3>2. CASE sweepReadsLease
      BY <1>3, <3>2 DEF sweepReadsLease, NoSweep
    <3>3. CASE sweepReadsJobs
      <4>1. PICK e \in sweep.found \ sweep.condemned :
              /\ sweep.pc = "flipping"
              /\ \/ sweep' = [sweep EXCEPT !.found = @ \ {e}]
                 \/ /\ sweep' = [sweep EXCEPT !.condemned = @ \cup {e}]
                    /\ ~\E key \in Key : e[1] \in CellsOf(key) /\ LiveJob(key)
        BY <3>3 DEF sweepReadsJobs
      <4>. QED BY <1>3, <4>1
    <3>4. CASE sweepFlips
      <4>1. PICK e \in sweep.condemned : sweep' = [sweep EXCEPT !.found = @ \ {e}, !.condemned = @ \ {e},
                                                     !.touched = @ \cup ({e[2]} \ {NoGen})]
        BY <3>4 DEF sweepFlips
      <4>2. sweep.pc = "flipping"
        BY <3>4 DEF sweepFlips
      <4>. QED BY <1>3, <4>1, <4>2
    <3>5. CASE sweepReadsCells
      <4>1. sweep'.pc = "leasing"
        BY <3>5 DEF sweepReadsCells, NoSweep
      <4>. QED BY <1>3, <4>1
    <3>6. CASE sweepChecksIdle
      BY <1>3, <3>6 DEF sweepChecksIdle, NoSweep
    <3>7. CASE sweepReleases
      <4>1. sweep'.pc # "flipping"
        BY <3>7 DEF sweepReleases, NoSweep
      <4>. QED BY <1>3, <4>1
    <3>. QED BY <3>1, <3>2, <3>3, <3>4, <3>5, <3>6, <3>7, SweepSteps DEF sweepStep
  <2>2. Past(f[2]) /\ f[1] \in Cell
    BY <1>3, <2>1 DEF NamesInv
  <2>3. ~Claims(f[2])
    BY <1>3, <2>2, ClaimIsPast
  <2>4. cells[f[1]].stamp = f[2]
    BY <1>3, <2>2, <2>3, CellSteps, TabularAssumption DEF CellStep, TabularAssumption
  <2>5. requests[f[2]].pc # "claimed"
    <3>1. CASE sweep.pc = "flipping"
      BY <1>3, <2>1, <2>4, <3>1 DEF OrphanInv
    <3>2. CASE sweepReadsLease
      <4>1. ~isReviewGenerationRunning
        BY <1>3, <3>2 DEF sweepReadsLease, NoSweep
      <4>2. lease # Held(f[2])
        BY <1>3, <4>1, TabularAssumption DEF isReviewGenerationRunning, Held, TabularAssumption
      <4>3. Async
        BY <2>1 DEF OrphanInv
      <4>. QED BY <1>3, <2>2, <2>4, <4>2, <4>3 DEF LeaseInv
    <3>. QED BY <2>1, <3>1, <3>2
  <2>6. requests'[f[2]].pc # "claimed"
    BY <1>3, <2>3, <2>5, RequestSteps DEF RequestStep
  <2>7. ASSUME f \in sweep'.condemned, NEW key \in Key, f[1] \in CellsOf(key), LiveJob(key)',
               jobs'[key].gen = f[2]
        PROVE  FALSE
    <3>1. LiveJob(key) /\ jobs[key].gen = f[2]
      BY <1>3, <2>5, <2>7, JobSteps DEF JobStep
    <3>2. Covered
      BY <2>7, <3>1
    <3>3. f \in sweep.condemned /\ sweep.pc = "flipping"
      BY <2>1, <2>7, <3>2 DEF OrphanInv
    <3>. QED BY <1>3, <2>1, <2>4, <2>7, <3>1, <3>3 DEF OrphanInv
  <2>. QED BY <2>6, <2>7
<1>. QED BY <1>1, <1>2, <1>3 DEF OrphanInv, LiveJob

\* A job's run has only cells in hand that are not done, or are no longer its
\* generation's.
SkipInv ==
  Async => \A r \in runs, c \in Cell :
             c \in r.outstanding /\ cells[c].stamp = r.gen => cells[c].status # "done"

LEMMA SkipStep ==
  ASSUME TypeInv, NamesInv, SkipInv, [Next]_vars
  PROVE  SkipInv'
<1> SUFFICES ASSUME Async, NEW r \in runs', NEW c \in Cell, c \in r.outstanding, cells'[c].stamp = r.gen
             PROVE  cells'[c].status # "done"
  BY DEF SkipInv
<1>0. r.gen \in Gen /\ NoGen \notin Gen
  BY NextType, TabularAssumption DEF TabularAssumption, TypeInv, GridType, RunsType, Run
<1>1. PICK q \in runs : RunOn(r, q)
  BY RunSteps, RunStays DEF RunStep, JobRun
<1>2. ~Claims(r.gen)
  BY <1>0, <1>1, ClaimIsPast DEF RunOn, NamesInv
<1>3. CASE cells'[c] = cells[c]
  BY <1>1, <1>3 DEF SkipInv, RunOn, Unfinished
<1>4. CASE cells'[c].status = "generating"
  BY <1>4
<1>. QED BY <1>0, <1>2, <1>3, <1>4, CellSteps DEF CellStep

\* A request counts what it enqueued, and hands over only then.
EnqueuedInv ==
  /\ \A g \in Gen : requests[g].enqueued => requests[g].pc \in {"claimed", "failed", "over"}
  /\ ~LateEnqueue => \A key \in Key : LiveJob(key) => requests[jobs[key].gen].enqueued

LEMMA EnqueuedStep ==
  ASSUME TypeInv, EnqueuedInv, [Next]_vars
  PROVE  EnqueuedInv'
<1>1. ASSUME NEW g \in Gen, requests'[g].enqueued PROVE requests'[g].pc \in {"claimed", "failed", "over"}
  <2>1. handOver(g) => requests[g].pc = "claimed"
    BY DEF handOver
  <2>. QED BY <1>1, <2>1, RequestSteps DEF RequestStep, Kept, EnqueuedInv
<1>2. ASSUME NEW g \in Gen, requests[g].enqueued PROVE requests'[g].enqueued
  BY <1>2, RequestSteps DEF RequestStep, Kept
<1>3. ASSUME ~LateEnqueue, NEW key \in Key, LiveJob(key)' PROVE requests'[jobs'[key].gen].enqueued
  <2>1. PICK g \in Gen : g = jobs'[key].gen
    BY <1>3, NextType DEF TypeInv, RestType, JobsType
  <2>2. JobStep(key)
    BY <1>3, JobSteps
  <2>3. CASE LiveJob(key) /\ jobs'[key].gen = jobs[key].gen
    BY <1>2, <1>3, <2>1, <2>3 DEF EnqueuedInv
  <2>. QED BY <1>3, <2>1, <2>2, <2>3 DEF JobStep
<1>. QED BY <1>1, <1>3 DEF EnqueuedInv

\* Without a queue, a request whose runs go on is at work itself, or did not
\* wait for them because one of them failed; with one, none of them does.
HomeInv ==
  /\ ~Async => \A r \in runs : requests[r.gen].pc \in {"claimed", "failed", "over"}
  /\ Async => \A g \in Gen : requests[g].pc # "failed"

LEMMA HomeStep ==
  ASSUME TypeInv, ModeInv, HomeInv, [Next]_vars
  PROVE  HomeInv'
<1>1. ASSUME ~Async, NEW r \in runs' PROVE requests'[r.gen].pc \in {"claimed", "failed", "over"}
  <2>0. r.gen \in Gen /\ Inline(r)
    BY <1>1, NextType, ModeStep DEF TypeInv, GridType, RunsType, Run, ModeInv, Inline
  <2>1. \/ Claims(r.gen)
        \/ requests[r.gen].pc \in {"claimed", "failed", "over"} /\ \E q \in runs : q.gen = r.gen /\ Inline(q)
    <3>1. ~JobRun(r)
      BY <1>1 DEF JobRun, ModeInv
    <3>. QED BY <1>1, <2>0, <3>1, RunSteps DEF RunStep, RunOn, HomeInv, Inline
  <2>2. CASE Claims(r.gen)
    <3>1. PICK todo : requests' = [requests EXCEPT ![r.gen].pc = "claimed", ![r.gen].todo = todo]
      <4>1. CASE claimCellsForGeneration(r.gen)
        BY <4>1 DEF claimCellsForGeneration
      <4>2. CASE regenerateCell(r.gen)
        BY <4>2 DEF regenerateCell
      <4>. QED BY <2>2, <4>1, <4>2 DEF Claims
    <3>. QED BY <2>0, <3>1 DEF TypeInv, RestType, RequestsType, Request
  <2>3. CASE requests[r.gen].pc \in {"claimed", "failed", "over"} /\ \E q \in runs : q.gen = r.gen /\ Inline(q)
    <3>1. ~handOver(r.gen)
      BY <2>3 DEF handOver, AtWork
    <3>2. ~Claims(r.gen)
      BY <2>0, <2>3, ClaimIsPast DEF Past
    <3>. QED BY <2>0, <2>3, <3>1, <3>2, RequestSteps DEF RequestStep
  <2>. QED BY <2>1, <2>2, <2>3
<1>2. ASSUME Async, NEW g \in Gen PROVE requests'[g].pc # "failed"
  <2>1. ~AtWork(g)
    BY <1>2 DEF AtWork, ModeInv
  <2>. QED BY <1>2, <2>1, RequestSteps DEF RequestStep, HomeInv
<1>. QED BY <1>1, <1>2 DEF HomeInv

\* A spinner of a synchronous request that nobody told to stop, and that did not
\* fail, is in the hands of one of its runs.
SpinnerInv ==
  ~Async /\ ~MayFail => \A g \in Gen, c \in Cell :
    cells[c].stamp = g /\ cells[c].status = "generating" =>
      \/ requests[g].aborted
      \/ requests[g].pc \in {"failed", "over"}
      \/ \E r \in runs : r.gen = g /\ c \in r.outstanding

\* Its run takes a cell it has answered, or is through with, from the spinners.
LEMMA SpinnerRun ==
  ASSUME TypeInv, ModeInv, HomeInv, ~Async, ~MayFail, NEW q \in runs, runStep(q),
         NEW r \in runs, NEW c \in r.outstanding, ~requests[r.gen].aborted,
         requests'[r.gen].pc \notin {"failed", "over"},
         c \in Cell, cells'[c].stamp = r.gen, cells'[c].status = "generating"
  PROVE  \E p \in runs' : p.gen = r.gen /\ c \in p.outstanding
<1>0. q \in Run /\ Inline(q) /\ q.pc \in {"starting", "extracting"} /\ NoGen # r.gen
  BY TabularAssumption DEF ModeInv, TypeInv, GridType, RunsType, Run, TabularAssumption
<1>1. ASSUME NEW p, Becomes(q, p), q = r => p.gen = r.gen /\ c \in p.outstanding
      PROVE  \E s \in runs' : s.gen = r.gen /\ c \in s.outstanding
  <2>1. CASE q = r
    <3>1. p \in runs'
      BY <1>1 DEF Becomes
    <3>. QED BY <1>1, <2>1, <3>1
  <2>2. CASE q # r
    <3>1. r \in runs'
      BY <1>1, <2>2 DEF Becomes
    <3>. QED BY <3>1
  <2>. QED BY <2>1, <2>2
<1>2. CASE startRow(q)
  <2>1. CASE requests[q.gen].aborted
    <3>1. q # r /\ Gone(q)
      BY <1>2, <2>1 DEF startRow
    <3>2. r \in runs'
      BY <3>1 DEF Gone
    <3>. QED BY <3>2
  <2>2. CASE ~requests[q.gen].aborted
    <3>1. Becomes(q, [q EXCEPT !.pc = "extracting"])
      BY <1>2, <2>2 DEF startRow
    <3>. QED BY <1>0, <1>1, <3>1 DEF Run
  <2>. QED BY <2>1, <2>2
<1>3. CASE markGenerating(q)
  <2>1. PICK d \in q.outstanding \ q.marked : Becomes(q, [q EXCEPT !.marked = @ \cup {d}])
    BY <1>3 DEF markGenerating
  <2>. QED BY <1>0, <1>1, <2>1 DEF Run
<1>4. CASE receiveColumn(q)
  <2>1. PICK d \in q.outstanding : /\ GuardedWrite(q.gen, {d}, "done", NoGen)
                                   /\ Becomes(q, [q EXCEPT !.outstanding = @ \ {d}])
    BY <1>4 DEF receiveColumn
  <2>2. Write(q.gen, StampedBy(q.gen, {d}), "done", NoGen)
    BY <2>1 DEF GuardedWrite, WriteLost
  <2>3. ~(q = r /\ c = d)
    <3> SUFFICES ASSUME q = r, c = d PROVE FALSE
      OBVIOUS
    <3>1. c \notin StampedBy(q.gen, {d})
      BY <2>2 DEF Write
    <3>2. cells'[c] = cells[c]
      BY <2>2, <3>1 DEF Write
    <3>. QED BY <3>1, <3>2 DEF StampedBy
  <2>. QED BY <1>0, <1>1, <2>1, <2>3 DEF Run
<1>5. CASE answerEnds(q)
  <2>1. PICK status \in {"pending", "error"} : GuardedWrite(q.gen, q.outstanding, status, NoGen)
    BY <1>0, <1>5 DEF answerEnds
  <2>2. Write(q.gen, StampedBy(q.gen, q.outstanding), status, NoGen) /\ Gone(q)
    BY <1>0, <1>5, <2>1 DEF GuardedWrite, WriteLost, answerEnds
  <2>3. q # r
    <3> SUFFICES ASSUME q = r PROVE FALSE
      OBVIOUS
    <3>1. c \notin StampedBy(q.gen, q.outstanding)
      BY <2>2 DEF Write
    <3>2. cells'[c] = cells[c]
      BY <2>2, <3>1 DEF Write
    <3>. QED BY <3>1, <3>2 DEF StampedBy
  <2>4. r \in runs'
    BY <2>2, <2>3 DEF Gone
  <2>. QED BY <2>4
<1>6. CASE loadRow(q) \/ loadThrows(q)
  BY <1>0, <1>6 DEF loadRow, loadThrows
<1>7. CASE clearRowGenerationStamp(q) \/ checkIdle(q) \/ releaseIdle(q) \/ jobEnds(q) \/ markExtractionFailed(q)
  BY <1>0, <1>7 DEF clearRowGenerationStamp, checkIdle, releaseIdle, jobEnds, markExtractionFailed
<1>8. CASE rowThrows(q)
  <2>1. q # r
    <3> SUFFICES ASSUME q = r PROVE FALSE
      OBVIOUS
    <3>1. requests' = [requests EXCEPT ![r.gen].pc = IF @ = "claimed" THEN "failed" ELSE @]
      BY <1>8 DEF rowThrows
    <3>2. requests[r.gen].pc \in {"claimed", "failed", "over"} /\ r.gen \in Gen
      BY <1>0 DEF HomeInv, Run
    <3>. QED BY <3>1, <3>2 DEF TypeInv, RestType, RequestsType, Request
  <2>2. r \in runs'
    BY <1>8, <2>1 DEF rowThrows, Gone
  <2>. QED BY <2>2
<1>. QED BY <1>2, <1>3, <1>4, <1>5, <1>6, <1>7, <1>8 DEF runStep

\* What a request claims, its runs get.
LEMMA ClaimedIsInHand ==
  ASSUME TypeInv, NamesInv, ~Async, NEW g \in Gen, Claims(g), NEW c \in Cell, cells'[c].stamp = g
  PROVE  \E r \in runs' : r.gen = g /\ c \in r.outstanding
<1>0. cells[c].stamp # g
  BY ClaimIsPast DEF NamesInv
<1>1. CASE claimCellsForGeneration(g)
  <2> DEFINE S == requests[g].cells
             rows == {key \in Row \X {AllCols} : CellsOf(key) \cap S # {}}
             key == <<c[1], AllCols>>
             r == InlineRun(g, key, CellsOf(key) \cap S)
  <2>1. c \in S
    BY <1>0, <1>1 DEF claimCellsForGeneration, Stamp
  <2>2. key \in rows /\ c \in CellsOf(key) \cap S
    BY <2>1, FullRow DEF Cell
  <2>3. r \in runs'
    <3>1. runs' = runs \cup {InlineRun(g, k, CellsOf(k) \cap S) : k \in rows}
      BY <1>1 DEF claimCellsForGeneration
    <3>. QED BY <2>2, <3>1
  <2>4. r.gen = g /\ r.outstanding = CellsOf(key) \cap S
    BY DEF InlineRun
  <2> HIDE DEF r, key, S
  <2>. QED BY <2>2, <2>3, <2>4
<1>2. CASE regenerateCell(g)
  <2> DEFINE keys == {<<d[1], d[2]>> : d \in requests[g].cells}
             key == <<c[1], c[2]>>
             r == [InlineRun(g, key, CellsOf(key)) EXCEPT !.pc = "extracting", !.marked = CellsOf(key)]
  <2>1. c \in requests[g].cells
    BY <1>0, <1>2 DEF regenerateCell, Write
  <2>2. key \in keys /\ CellsOf(key) = {c}
    BY <2>1, FullRow
  <2>3. r \in runs'
    <3>1. runs' = runs \cup {[InlineRun(g, k, CellsOf(k)) EXCEPT
                                !.pc = "extracting", !.marked = CellsOf(k)] : k \in keys}
      BY <1>2 DEF regenerateCell
    <3> HIDE DEF keys
    <3>. QED BY <2>2, <3>1
  <2>4. r.gen = g /\ r.outstanding = CellsOf(key)
    BY DEF InlineRun
  <2> HIDE DEF r, key
  <2>. QED BY <2>2, <2>3, <2>4
<1>. QED BY <1>1, <1>2 DEF Claims

LEMMA SpinnerStep ==
  ASSUME TypeInv, NamesInv, ModeInv, HomeInv, SpinnerInv, [Next]_vars
  PROVE  SpinnerInv'
<1> SUFFICES ASSUME ~Async, ~MayFail, NEW g \in Gen, NEW c \in Cell,
                    cells'[c].stamp = g, cells'[c].status = "generating",
                    ~requests'[g].aborted, requests'[g].pc \notin {"failed", "over"}
             PROVE  \E r \in runs' : r.gen = g /\ c \in r.outstanding
  BY DEF SpinnerInv
<1>0. NoGen \notin Gen
  BY TabularAssumption DEF TabularAssumption
<1>1. CASE Claims(g)
  BY <1>1, ClaimedIsInHand
<1>2. CASE ~Claims(g)
  <2>1. cells[c].stamp = g /\ Past(g)
    BY <1>0, <1>2, CellSteps DEF CellStep, NamesInv
  <2>2. ~requests[g].aborted /\ requests[g].pc \notin {"failed", "over"}
    <3>1. requests[g].pc \in {"claimed", "failed", "ending", "over"}
      BY <2>1 DEF Past
    <3>2. RequestStep(g)
      BY RequestSteps
    <3>3. requests[g].pc \notin {"failed", "over"}
      BY <1>2, <3>2 DEF RequestStep, handOver
    <3>4. ~requests[g].aborted
      BY <1>2, <3>1, <3>2 DEF RequestStep, Kept
    <3>. QED BY <3>3, <3>4
  <2>3. CASE \E r \in runs : r.gen = g /\ c \in r.outstanding
    <3>1. PICK r \in runs : r.gen = g /\ c \in r.outstanding
      BY <2>3
    <3>2. CASE \E q \in runs : runStep(q)
      BY <2>2, <3>1, <3>2, SpinnerRun
    <3>3. CASE r \in runs'
      BY <3>1, <3>3
    <3>4. CASE \E h \in Gen : requestDies(h)
      <4>1. PICK h \in Gen : requestDies(h)
        BY <3>4
      <4>2. h # g
        BY <4>1 DEF requestDies, Over, NoRequest, TypeInv, RestType, RequestsType
      <4>. QED BY <3>1, <4>1, <4>2 DEF requestDies
    <3>5. CASE \E q \in runs : runDies(q)
      BY <3>5 DEF runDies, ModeInv
    <3>6. CASE \E h \in Gen : requestStep(h)
      <4>1. runs \subseteq runs'
        BY <3>6 DEF requestStep, loadTabularGenerateWork, claimCellsForGeneration, regenerateCell, requestFails,
           enqueueExtraction, handOver, removeQueuedExtractionJobs, clearCells, releaseLease
      <4>. QED BY <3>3, <4>1
    <3>7. CASE \E h \in Gen : \/ BeginGenerate(h) \/ BeginRegenerate(h) \/ BeginClear(h)
                              \/ abortGeneration(h) \/ renewGeneration(h)
      BY <3>3, <3>7 DEF BeginGenerate, BeginRegenerate, BeginClear, begin_tabular_review_generation,
         abortGeneration, renewGeneration
    <3>8. CASE (\E key \in Key : startJob(key) \/ loseJob(key)) \/ leaseLapses \/ UNCHANGED vars
      BY <3>3, <3>8 DEF startJob, loseJob, leaseLapses, vars
    <3>9. CASE sweepStep
      BY <3>3, <3>9 DEF sweepStep, sweepReadsCells, sweepReadsLease, sweepReadsJobs, sweepFlips, sweepChecksIdle, sweepReleases
    <3>. QED BY <3>2, <3>4, <3>5, <3>6, <3>7, <3>8, <3>9 DEF Next
  <2>4. CASE cells[c].status # "generating"
    <3>1. cells'[c] # cells[c]
      BY <2>4
    <3>2. PICK r \in runs : r.gen = g /\ c \in r.outstanding
      <4>1. PICK r \in runs : markGenerating(r)
        BY <1>0, <1>2, <2>1, <3>1, CellSteps DEF CellStep
      <4>2. PICK d \in r.outstanding : Write(r.gen, StampedBy(r.gen, {d}), "generating", r.gen)
        BY <4>1 DEF markGenerating, GuardedWrite, WriteLost
      <4>3. c \in StampedBy(r.gen, {d})
        BY <3>1, <4>2 DEF Write
      <4>4. c = d /\ r.gen = g
        BY <2>1, <4>3 DEF StampedBy
      <4>. QED BY <4>4
    <3>. QED BY <2>3, <3>2
  <2>. QED BY <2>1, <2>2, <2>3, <2>4 DEF SpinnerInv
<1>. QED BY <1>1, <1>2

\* A synchronous row marks cells once it has started, and those it has marked
\* and answered have lost its stamp.
MarkedInv ==
  ~Async /\ ~MayFail => \A r \in runs :
    /\ r.pc = "starting" => r.marked = {}
    /\ \A c \in r.marked \ r.outstanding : cells[c].stamp # r.gen

\* How the run of a synchronous request comes about.
LEMMA InlineSteps ==
  ASSUME TypeInv, ModeInv, ~Async, [Next]_vars, NEW r \in runs', r \notin runs
  PROVE  \/ r.marked = {}
         \/ r.pc = "extracting" /\ r.marked = r.outstanding
         \/ \E q \in runs : \/ r = [q EXCEPT !.pc = "extracting"]
                            \/ markGenerating(q) /\ Becomes(q, r)
                            \/ receiveColumn(q) /\ Becomes(q, r)
<1>1. CASE \E g \in Gen : claimCellsForGeneration(g)
  <2>1. PICK g \in Gen : claimCellsForGeneration(g)
    BY <1>1
  <2>2. \E key, S : r = InlineRun(g, key, S)
    BY <2>1 DEF claimCellsForGeneration
  <2>. QED BY <2>2 DEF InlineRun
<1>2. CASE \E g \in Gen : regenerateCell(g)
  <2>1. PICK g \in Gen : regenerateCell(g)
    BY <1>2
  <2>2. PICK key : r = [InlineRun(g, key, CellsOf(key)) EXCEPT !.pc = "extracting", !.marked = CellsOf(key)]
    BY <2>1 DEF regenerateCell
  <2>. QED BY <2>2 DEF InlineRun
<1>3. ASSUME NEW q \in runs, runStep(q)
      PROVE  \/ r = [q EXCEPT !.pc = "extracting"]
             \/ markGenerating(q) /\ Becomes(q, r)
             \/ receiveColumn(q) /\ Becomes(q, r)
  <2>0. Inline(q) /\ q.pc \in {"starting", "extracting"}
    BY DEF ModeInv
  <2>1. ASSUME NEW p, Becomes(q, p) PROVE r = p
    BY <2>1 DEF Becomes
  <2>2. CASE startRow(q)
    BY <2>1, <2>2 DEF startRow, Gone
  <2>3. CASE markGenerating(q)
    BY <2>1, <2>3 DEF markGenerating
  <2>4. CASE receiveColumn(q)
    BY <2>1, <2>4 DEF receiveColumn
  <2>5. CASE answerEnds(q) \/ rowThrows(q)
    BY <2>0, <2>5 DEF answerEnds, rowThrows, Gone
  <2>6. CASE loadRow(q) \/ loadThrows(q) \/ clearRowGenerationStamp(q) \/ checkIdle(q) \/ releaseIdle(q)
             \/ jobEnds(q) \/ markExtractionFailed(q)
    BY <2>0, <2>6 DEF loadRow, loadThrows, clearRowGenerationStamp, checkIdle, releaseIdle, jobEnds, markExtractionFailed
  <2>. QED BY <1>3, <2>2, <2>3, <2>4, <2>5, <2>6 DEF runStep
<1>4. CASE \E g \in Gen : requestDies(g) \/ (requestStep(g) /\ ~Claims(g))
  BY <1>4 DEF requestDies, requestStep, Claims, loadTabularGenerateWork, requestFails, enqueueExtraction,
     handOver, removeQueuedExtractionJobs, clearCells, releaseLease
<1>5. CASE \E g \in Gen : \/ BeginGenerate(g) \/ BeginRegenerate(g) \/ BeginClear(g)
                          \/ abortGeneration(g) \/ renewGeneration(g)
  BY <1>5 DEF BeginGenerate, BeginRegenerate, BeginClear, begin_tabular_review_generation,
     abortGeneration, renewGeneration
<1>6. CASE (\E q \in runs : runDies(q)) \/ (\E key \in Key : startJob(key) \/ loseJob(key)) \/ leaseLapses
  BY <1>6 DEF runDies, Gone, startJob, loseJob, leaseLapses, ModeInv, LiveJob
<1>7. CASE sweepStep
  BY <1>7 DEF sweepStep, sweepReadsCells, sweepReadsLease, sweepReadsJobs, sweepFlips, sweepChecksIdle, sweepReleases
<1>8. CASE UNCHANGED vars
  BY <1>8 DEF vars
<1>. QED BY <1>1, <1>2, <1>3, <1>4, <1>5, <1>6, <1>7, <1>8 DEF Next, Claims

\* A run that has claimed its cells gets no stamp back.
LEMMA StampGone ==
  ASSUME TypeInv, NamesInv, [Next]_vars, NEW q \in runs, NEW c \in Cell, cells[c].stamp # q.gen
  PROVE  cells'[c].stamp # q.gen
<1>1. q.gen \in Gen /\ ~Claims(q.gen) /\ NoGen \notin Gen
  BY ClaimIsPast, TabularAssumption DEF TabularAssumption, NamesInv, TypeInv, GridType, RunsType, Run
<1>. QED BY <1>1, CellSteps DEF CellStep

LEMMA MarkedStep ==
  ASSUME TypeInv, NamesInv, ModeInv, MarkedInv, [Next]_vars
  PROVE  MarkedInv'
<1> SUFFICES ASSUME ~Async, ~MayFail, NEW r \in runs'
             PROVE  /\ r.pc = "starting" => r.marked = {}
                    /\ \A c \in r.marked \ r.outstanding : cells'[c].stamp # r.gen
  BY DEF MarkedInv
<1>0. \A q \in runs : q \in Run
  BY DEF TypeInv, GridType, RunsType
<1>1. ASSUME NEW q \in runs, NEW c \in q.marked \ q.outstanding PROVE cells'[c].stamp # q.gen
  <2>1. c \in Cell /\ cells[c].stamp # q.gen
    BY <1>0, <1>1 DEF MarkedInv, Run
  <2>. QED BY <2>1, StampGone
<1>2. CASE r \in runs
  BY <1>1, <1>2 DEF MarkedInv
<1>3. CASE r.marked = {} \/ (r.pc = "extracting" /\ r.marked = r.outstanding)
  BY <1>3
<1>4. ASSUME NEW q \in runs, r = [q EXCEPT !.pc = "extracting"]
      PROVE  r.pc = "extracting" /\ \A c \in r.marked \ r.outstanding : cells'[c].stamp # r.gen
  <2>1. r.pc = "extracting" /\ r.marked = q.marked /\ r.outstanding = q.outstanding /\ r.gen = q.gen
    BY <1>0, <1>4 DEF Run
  <2>. QED BY <1>1, <2>1
<1>5. ASSUME NEW q \in runs, markGenerating(q), Becomes(q, r), r \notin runs
      PROVE  r.pc = "extracting" /\ \A c \in r.marked \ r.outstanding : cells'[c].stamp # r.gen
  <2>1. PICK d \in q.outstanding : r = [q EXCEPT !.marked = @ \cup {d}]
    BY <1>5 DEF markGenerating, Becomes
  <2>2. r.pc = "extracting" /\ r.marked = q.marked \cup {d} /\ r.outstanding = q.outstanding /\ r.gen = q.gen
    BY <1>0, <1>5, <2>1 DEF Run, markGenerating
  <2>. QED BY <1>1, <2>1, <2>2
<1>6. ASSUME NEW q \in runs, receiveColumn(q), Becomes(q, r), r \notin runs
      PROVE  r.pc = "extracting" /\ \A c \in r.marked \ r.outstanding : cells'[c].stamp # r.gen
  <2>1. PICK d \in q.outstanding : /\ GuardedWrite(q.gen, {d}, "done", NoGen)
                                  /\ r = [q EXCEPT !.outstanding = @ \ {d}]
    BY <1>6 DEF receiveColumn, Becomes
  <2>2. r.pc = "extracting" /\ r.marked = q.marked /\ r.outstanding = q.outstanding \ {d} /\ r.gen = q.gen
    BY <1>0, <1>6, <2>1 DEF Run, receiveColumn
  <2>3. Write(q.gen, StampedBy(q.gen, {d}), "done", NoGen)
    BY <2>1 DEF GuardedWrite, WriteLost
  <2>4. d \in Cell /\ q.gen # NoGen
    BY <1>0, TabularAssumption DEF Run, TabularAssumption
  <2>5. cells'[d].stamp # q.gen
    <3>1. CASE cells[d].stamp = q.gen
      BY <2>3, <2>4, <3>1 DEF Write, StampedBy
    <3>2. CASE cells[d].stamp # q.gen
      BY <2>4, <3>2, StampGone
    <3>. QED BY <3>1, <3>2
  <2>. QED BY <1>1, <2>2, <2>5
<1>. QED BY <1>2, <1>3, <1>4, <1>5, <1>6, InlineSteps

---------------------------------------------------------------------------
(* The theorems *)

GenerationInv ==
  /\ TypeInv /\ NamesInv /\ ModeInv /\ IdleInv /\ OrderInv
  /\ LeaseInv /\ OrphanInv /\ SkipInv /\ EnqueuedInv /\ HomeInv /\ SpinnerInv
  /\ MarkedInv

LEMMA InitGeneration == Init => GenerationInv
<1> SUFFICES ASSUME Init PROVE GenerationInv
  OBVIOUS
<1>0. TypeInv /\ NoGen \notin Gen
  BY InitType, TabularAssumption DEF TabularAssumption
<1>1. /\ \A c \in Cell : cells[c].stamp = NoGen
      /\ \A key \in Key : ~LiveJob(key)
      /\ \A g \in Gen : requests[g] = NoRequest
      /\ runs = {} /\ sweep = NoSweep
  BY DEF Init, LiveJob, NoJob
<1>2. OrderInv
  <2>1. Begun = {} /\ Cardinality(Begun) = 0
    <3>1. Begun = {}
      BY DEF Init, Begun
    <3>. QED BY <3>1, FS_EmptySet
  <2>2. lease.holder = NoGen
    BY DEF Init
  <2>3. \A g \in Gen : requests[g].pc = "idle"
    BY <1>1 DEF NoRequest
  <2>. QED BY <1>0, <1>1, <2>1, <2>2, <2>3 DEF Init, OrderInv
<1>3. \A g \in Gen : requests[g].pc = "idle" /\ ~requests[g].enqueued /\ requests[g].todo = {}
  BY <1>1 DEF NoRequest
<1>4. NamesInv /\ ModeInv /\ IdleInv /\ HomeInv /\ SkipInv
  BY <1>0, <1>1, <1>3 DEF NamesInv, ModeInv, IdleInv, HomeInv, SkipInv, NoSweep
<1>5. LeaseInv /\ OrphanInv /\ EnqueuedInv /\ SpinnerInv /\ MarkedInv
  BY <1>0, <1>1, <1>3 DEF LeaseInv, OrphanInv, EnqueuedInv, SpinnerInv, MarkedInv, NoSweep
<1>. QED BY <1>0, <1>2, <1>4, <1>5 DEF GenerationInv

LEMMA NextGeneration == GenerationInv /\ [Next]_vars => GenerationInv'
BY NextType, NamesStep, ModeStep, IdleStep, OrderStep, LeaseInvStep, OrphanStep, SkipStep,
   EnqueuedStep, HomeStep, SpinnerStep, MarkedStep DEF GenerationInv

\* A superseded run never overwrites the winner, whoever writes a cell: a
\* request that claims or clears, a run, a failed enqueue or a spent job.
THEOREM OrderCorrect == Prompt => (Spec => WritesFollowLeaseOrder)
<1> SUFFICES ASSUME Prompt PROVE Spec => WritesFollowLeaseOrder
  OBVIOUS
<1>1. GenerationInv /\ [Next]_vars => [\A c \in Cell : by'[c] >= by[c]]_vars
  <2> SUFFICES ASSUME GenerationInv, [Next]_vars, NEW c \in Cell PROVE by'[c] >= by[c]
    OBVIOUS
  <2>0. /\ by \in [Cell -> Nat] /\ order \in [Gen -> Nat] /\ by[c] <= Cardinality(Begun)
        /\ Cardinality(Begun) \in Nat
    BY FS_CardinalityType DEF GenerationInv, OrderInv, TypeInv, GridType, RestType, ByType, OrderType
  <2>1. ASSUME NEW g \in Gen, Claims(g) \/ clearCells(g) PROVE order[g] >= by[c]
    <3>1. requests[g].pc \in {"begun", "loaded"}
      BY <2>1 DEF Claims, claimCellsForGeneration, regenerateCell, clearCells
    <3>2. lease.holder = g
      BY <3>1 DEF GenerationInv, LeaseInv, Held
    <3>. QED BY <2>0, <3>2 DEF GenerationInv, OrderInv
  <2>2. ASSUME NEW g \in Gen, cells[c].stamp = g PROVE order[g] = by[c]
    BY <2>2 DEF GenerationInv, OrderInv
  <2>3. CellStep(c)
    BY CellSteps DEF GenerationInv
  <2>4. by'[c] = by[c] \/ \E g \in Gen : by'[c] = order[g] /\ order[g] >= by[c]
    BY <2>0, <2>1, <2>2, <2>3 DEF CellStep
  <2>. QED BY <2>0, <2>4
<1>. QED BY <1>1, InitGeneration, NextGeneration, PTL DEF Spec, WritesFollowLeaseOrder

\* The lease covers the work in the queue: whoever gives it up, the holder
\* itself, a run that is through or the sweep, leaves no job behind that would
\* still write one of its cells.
THEOREM LeaseCorrect == ~LateEnqueue => (Spec => LeaseCoversWork)
<1> SUFFICES ASSUME ~LateEnqueue PROVE Spec => LeaseCoversWork
  OBVIOUS
<1>1. GenerationInv /\ [Next]_vars =>
        [\A g \in Gen : lease.holder = g /\ lease'.holder = NoGen =>
           ~\E key \in Key : /\ LiveJob(key) /\ jobs[key].gen = g
                             /\ StampedBy(g, CellsOf(key)) # {}]_vars
  <2> SUFFICES ASSUME GenerationInv, [Next]_vars, NEW g \in Gen, lease.holder = g, lease'.holder = NoGen,
                      NEW key \in Key, LiveJob(key), jobs[key].gen = g, StampedBy(g, CellsOf(key)) # {}
               PROVE  FALSE
    OBVIOUS
  <2>1. g # NoGen /\ lease \in [holder : Gen \cup {NoGen}, live : BOOLEAN]
    BY TabularAssumption DEF TabularAssumption, GenerationInv, TypeInv, RestType, LeaseType
  <2>2. GivesUp(g)
    <3>1. ASSUME NEW h \in Gen PROVE lease' # [holder |-> h, live |-> TRUE]
      BY TabularAssumption DEF TabularAssumption
    <3>. QED BY <2>1, <3>1, LeaseSteps DEF LeaseStep, GenerationInv, leaseLapses
  <2>3. PICK c \in Cell : cells[c].stamp = g
    BY CellsOfKey DEF StampedBy
  <2>4. ~releaseLease(g)
    <3>1. Async /\ requests[g].enqueued
      BY DEF GenerationInv, ModeInv, EnqueuedInv
    <3>. QED BY <3>1 DEF releaseLease, GenerationInv, EnqueuedInv, HomeInv
  <2>. QED BY <2>2, <2>3, <2>4 DEF GivesUp, GenerationInv, IdleInv
<1>. QED BY <1>1, InitGeneration, NextGeneration, PTL DEF Spec, LeaseCoversWork

\* No execution of an extraction job takes a result away, be it superseded, a
\* retry, or one the queue has given up.
THEOREM ResultsCorrect == Spec => RunsKeepResults
<1>1. GenerationInv /\ [Next]_vars =>
        [Async => \A c \in Cell : cells[c].status = "done" /\ cells'[c].status # "done" => runs' = runs]_vars
  <2> SUFFICES ASSUME GenerationInv, [Next]_vars, Async, NEW c \in Cell,
                      cells[c].status = "done", cells'[c].status # "done"
               PROVE  runs' = runs
    OBVIOUS
  <2>0. cells'[c] # cells[c]
    OBVIOUS
  <2>1. CASE \E r \in runs : runStep(r)
    <3>1. PICK r \in runs : runStep(r)
      BY <2>1
    <3>2. ~Inline(r)
      BY DEF GenerationInv, ModeInv
    <3>3. CASE markGenerating(r)
      <4>1. PICK d \in r.outstanding : GuardedWrite(r.gen, {d}, "generating", r.gen)
        BY <3>3 DEF markGenerating
      <4>2. Write(r.gen, StampedBy(r.gen, {d}), "generating", r.gen)
        BY <2>0, <4>1 DEF GuardedWrite, WriteLost
      <4>3. c \in StampedBy(r.gen, {d})
        BY <2>0, <4>2 DEF Write
      <4>. QED BY <4>3 DEF StampedBy, GenerationInv, SkipInv
    <3>4. CASE receiveColumn(r)
      <4>1. PICK d \in r.outstanding : GuardedWrite(r.gen, {d}, "done", NoGen)
        BY <3>4 DEF receiveColumn
      <4>. QED BY <2>0, <4>1 DEF GuardedWrite, WriteLost, Write
    <3>5. CASE markExtractionFailed(r)
      <4>1. GuardedWrite(r.gen, Unfinished(CellsOf(r.key)), "error", NoGen)
        BY <3>5 DEF markExtractionFailed
      <4>. QED BY <2>0, <4>1 DEF GuardedWrite, WriteLost, Write, StampedBy, Unfinished
    <3>6. CASE clearRowGenerationStamp(r)
      <4>1. Stamp(r.gen, StampedBy(r.gen, CellsOf(r.key)), NoGen) \/ UNCHANGED cells
        BY <3>6 DEF clearRowGenerationStamp, WriteLost
      <4>2. cells \in [Cell -> CellRow]
        BY DEF GenerationInv, TypeInv, GridType, CellsType
      <4>3. cells'[c].status = cells[c].status
        BY <4>1, <4>2 DEF Stamp, CellRow
      <4>. QED BY <4>3
    <3>7. CASE answerEnds(r)
      BY <2>0, <3>2, <3>7 DEF answerEnds
    <3>8. CASE loadRow(r) \/ loadThrows(r) \/ startRow(r) \/ rowThrows(r) \/ checkIdle(r) \/ releaseIdle(r) \/ jobEnds(r)
      BY <2>0, <3>8 DEF loadRow, loadThrows, startRow, rowThrows, checkIdle, releaseIdle, jobEnds
    <3>. QED BY <3>1, <3>3, <3>4, <3>5, <3>6, <3>7, <3>8 DEF runStep
  <2>2. CASE (\E r \in runs : runDies(r)) \/ (\E key \in Key : startJob(key) \/ loseJob(key)) \/ leaseLapses
    BY <2>0, <2>2 DEF runDies, startJob, loseJob, leaseLapses
  <2>3. CASE \E g \in Gen : requestStep(g)
    <3>1. PICK g \in Gen : requestStep(g)
      BY <2>3
    <3>2. CASE claimCellsForGeneration(g) \/ regenerateCell(g)
      BY <3>2 DEF claimCellsForGeneration, regenerateCell
    <3>3. CASE ~claimCellsForGeneration(g) /\ ~regenerateCell(g)
      BY <3>1, <3>3 DEF requestStep, loadTabularGenerateWork, requestFails, enqueueExtraction, handOver,
         removeQueuedExtractionJobs, clearCells, releaseLease
    <3>. QED BY <3>2, <3>3
  <2>4. CASE \E g \in Gen : \/ BeginGenerate(g) \/ BeginRegenerate(g) \/ BeginClear(g)
                            \/ abortGeneration(g) \/ requestDies(g) \/ renewGeneration(g)
    BY <2>0, <2>4 DEF BeginGenerate, BeginRegenerate, BeginClear, begin_tabular_review_generation,
       abortGeneration, requestDies, renewGeneration
  <2>5. CASE sweepStep
    BY <2>5 DEF sweepStep, sweepReadsCells, sweepReadsLease, sweepReadsJobs, sweepFlips, sweepChecksIdle, sweepReleases
  <2>6. CASE UNCHANGED vars
    BY <2>6 DEF vars
  <2>. QED BY <2>1, <2>2, <2>3, <2>4, <2>5, <2>6 DEF Next
<1>. QED BY <1>1, InitGeneration, NextGeneration, PTL DEF Spec, RunsKeepResults

\* The sweep fails no claimed cell that a job in the queue would still fill,
\* however long ago it read the cells, the lease and the queue.
THEOREM SweepCorrect == Prompt => (Spec => SweepFlipsOnlyOrphans)
<1> SUFFICES ASSUME Prompt PROVE Spec => SweepFlipsOnlyOrphans
  OBVIOUS
<1>1. GenerationInv /\ [Next]_vars =>
        [\A f \in sweep.condemned :
           f \notin sweep'.condemned /\ f[2] # NoGen /\ cells'[f[1]] # cells[f[1]] =>
             ~\E key \in Key : /\ f[1] \in CellsOf(key) /\ LiveJob(key)
                               /\ jobs[key].gen = f[2]]_vars
  <2> SUFFICES ASSUME GenerationInv, [Next]_vars, NEW f \in sweep.condemned,
                      f \notin sweep'.condemned, f[2] # NoGen, cells'[f[1]] # cells[f[1]],
                      NEW key \in Key, f[1] \in CellsOf(key), LiveJob(key), jobs[key].gen = f[2]
               PROVE  FALSE
    OBVIOUS
  <2>0. f[1] \in Cell /\ f[2] \in Gen /\ f \in sweep.found
    BY DEF GenerationInv, TypeInv, RestType, SweepType, SweepRow, NamesInv
  <2>1. sweepFlips
    <3>1. sweep' # sweep /\ cells' # cells
      OBVIOUS
    <3>2. sweepStep
      BY <3>1, SweepSteps
    <3>. QED BY <3>1, <3>2 DEF sweepStep, sweepReadsCells, sweepReadsLease, sweepReadsJobs, sweepChecksIdle, sweepReleases
  <2>2. PICK e \in sweep.condemned :
         /\ sweep.pc = "flipping"
         /\ cells' = [c \in Cell |-> IF c \in FlippedBySweep(e)
                                     THEN [status |-> "error", stamp |-> NoGen] ELSE cells[c]]
         /\ sweep' = [sweep EXCEPT !.found = @ \ {e}, !.condemned = @ \ {e},
                                   !.touched = @ \cup ({e[2]} \ {NoGen})]
    BY <2>1 DEF sweepFlips
  <2>3. e = f
    BY <2>2 DEF GenerationInv, TypeInv, RestType, SweepType, SweepRow
  <2>4. f[1] \in StampedBy(f[2], {f[1]})
    BY <2>0, <2>2, <2>3 DEF FlippedBySweep
  <2>. QED BY <2>0, <2>2, <2>4 DEF StampedBy, GenerationInv, OrphanInv
<1>. QED BY <1>1, InitGeneration, NextGeneration, PTL DEF Spec, SweepFlipsOnlyOrphans

\* Without a queue, and as long as its writes succeed, a request that was not
\* told to stop and none of whose rows failed to load lets go of the lease only
\* when no cell it claimed is a spinner any more.
THEOREM SpinnersCorrect == ~Async /\ ~MayFail => (Spec => RequestLeavesNoSpinner)
<1> SUFFICES ASSUME ~Async, ~MayFail PROVE Spec => RequestLeavesNoSpinner
  OBVIOUS
<1>1. GenerationInv /\ [Next]_vars =>
        [\A g \in Gen : releaseLease(g) /\ requests[g].pc = "ending" /\ ~requests[g].aborted =>
           \A c \in StampedBy(g, Cell) : cells[c].status # "generating"]_vars
  <2> SUFFICES ASSUME GenerationInv, NEW g \in Gen, requests[g].pc = "ending", ~requests[g].aborted,
                      NEW c \in StampedBy(g, Cell), cells[c].status = "generating"
               PROVE  FALSE
    OBVIOUS
  <2>1. c \in Cell /\ cells[c].stamp = g
    BY DEF StampedBy
  <2>2. PICK r \in runs : r.gen = g
    BY <2>1 DEF GenerationInv, SpinnerInv
  <2>. QED BY <2>1, <2>2 DEF GenerationInv, HomeInv
<1>. QED BY <1>1, InitGeneration, NextGeneration, PTL DEF Spec, RequestLeavesNoSpinner

\* Without a queue, and as long as its writes succeed, a row that ends has ended
\* every spinner it made itself, whether its request goes on, was told to stop,
\* or has failed and given up the lease.
THEOREM RowsCorrect == ~Async /\ ~MayFail => (Spec => RowsEndTheirSpinners)
<1> SUFFICES ASSUME ~Async, ~MayFail PROVE Spec => RowsEndTheirSpinners
  OBVIOUS
<1>1. GenerationInv /\ [Next]_vars =>
        [\A r \in runs : RowEnds(r) =>
           \A c \in r.marked : cells'[c].stamp = r.gen => cells'[c].status # "generating"]_vars
  <2> SUFFICES ASSUME GenerationInv, [Next]_vars, NEW r \in runs, RowEnds(r),
                      NEW c \in r.marked, cells'[c].stamp = r.gen
               PROVE  cells'[c].status # "generating"
    OBVIOUS
  <2>0. r \in Run /\ c \in Cell /\ Inline(r) /\ r.pc \in {"starting", "extracting"} /\ r.gen # NoGen
    BY TabularAssumption DEF GenerationInv, TypeInv, GridType, RunsType, Run, ModeInv, TabularAssumption
  <2>1. r \notin runs'
    BY DEF RowEnds
  <2>2. ASSUME NEW p, Becomes(r, p), p.gen = r.gen, p.key = r.key PROVE FALSE
    BY <2>2 DEF RowEnds, Becomes
  <2>3. CASE runStep(r)
    <3>1. CASE startRow(r) \/ rowThrows(r)
      BY <3>1 DEF GenerationInv, MarkedInv, startRow, rowThrows
    <3>2. CASE markGenerating(r)
      <4>1. PICK d : Becomes(r, [r EXCEPT !.marked = @ \cup {d}])
        BY <3>2 DEF markGenerating
      <4>. QED BY <2>0, <2>2, <4>1 DEF Run
    <3>3. CASE receiveColumn(r)
      <4>1. PICK d : Becomes(r, [r EXCEPT !.outstanding = @ \ {d}])
        BY <3>3 DEF receiveColumn
      <4>. QED BY <2>0, <2>2, <4>1 DEF Run
    <3>4. CASE answerEnds(r)
      <4>1. PICK status \in {"pending", "error"} : GuardedWrite(r.gen, r.outstanding, status, NoGen)
        BY <2>0, <3>4 DEF answerEnds
      <4>2. Write(r.gen, StampedBy(r.gen, r.outstanding), status, NoGen)
        BY <4>1 DEF GuardedWrite, WriteLost
      <4>3. cells[c].stamp = r.gen
        BY <2>0, StampGone DEF GenerationInv
      <4>4. c \in r.outstanding
        BY <4>3 DEF GenerationInv, MarkedInv
      <4>. QED BY <2>0, <4>2, <4>3, <4>4 DEF Write, StampedBy
    <3>5. CASE loadRow(r) \/ loadThrows(r) \/ clearRowGenerationStamp(r) \/ checkIdle(r) \/ releaseIdle(r)
               \/ jobEnds(r) \/ markExtractionFailed(r)
      BY <2>0, <3>5 DEF loadRow, loadThrows, clearRowGenerationStamp, checkIdle, releaseIdle, jobEnds, markExtractionFailed
    <3>. QED BY <2>3, <3>1, <3>2, <3>3, <3>4, <3>5 DEF runStep
  <2>4. CASE \E q \in runs : runStep(q) /\ q # r
    BY <2>1, <2>4 DEF runStep, loadRow, loadThrows, startRow, rowThrows, markGenerating, receiveColumn, answerEnds,
       clearRowGenerationStamp, checkIdle, releaseIdle, jobEnds, markExtractionFailed, Becomes, Gone
  <2>5. CASE \E g \in Gen : requestDies(g)
    BY <2>1, <2>5 DEF requestDies, RowEnds
  <2>6. CASE \E g \in Gen : requestStep(g)
    BY <2>1, <2>6 DEF requestStep, loadTabularGenerateWork, claimCellsForGeneration, regenerateCell, requestFails,
       enqueueExtraction, handOver, removeQueuedExtractionJobs, clearCells, releaseLease
  <2>7. CASE \E g \in Gen : \/ BeginGenerate(g) \/ BeginRegenerate(g) \/ BeginClear(g)
                            \/ abortGeneration(g) \/ renewGeneration(g)
    BY <2>1, <2>7 DEF BeginGenerate, BeginRegenerate, BeginClear, begin_tabular_review_generation,
       abortGeneration, renewGeneration
  <2>8. CASE (\E q \in runs : runDies(q)) \/ (\E key \in Key : startJob(key) \/ loseJob(key)) \/ leaseLapses
    BY <2>1, <2>8 DEF runDies, startJob, loseJob, leaseLapses, GenerationInv, ModeInv
  <2>9. CASE sweepStep \/ UNCHANGED vars
    BY <2>1, <2>9 DEF sweepStep, sweepReadsCells, sweepReadsLease, sweepReadsJobs, sweepFlips, sweepChecksIdle,
       sweepReleases, vars
  <2>. QED BY <2>3, <2>4, <2>5, <2>6, <2>7, <2>8, <2>9 DEF Next
<1>. QED BY <1>1, InitGeneration, NextGeneration, PTL DEF Spec, RowsEndTheirSpinners
=============================================================================
