---------------------- MODULE MemoryConsolidationProofs ----------------------
(***************************************************************************)
(* What the learning after a chat never forgets to forget, never mixes up  *)
(* and leaves out only where its limits say so, for every instance of      *)
(* MemoryConsolidation.                                                    *)
(*                                                                         *)
(* Forgetting and privacy. A draft is of the file as it is or of an        *)
(* earlier revision, and a revision names one content (RevisionInv), so a  *)
(* write guarded by the revision replaces only what its writer has read. A *)
(* queued job is about turns that ended well, and about its participant's  *)
(* file and the project's in the epochs they had then (WorkInv). What an   *)
(* execution has seen for a file is what its job shows for it, and nothing *)
(* that was cut off while the file has the job's epoch (SeenInv); a write  *)
(* asks for that epoch.                                                    *)
(*                                                                         *)
(* Commits. Until its conversation moves on, a job's windows are where its *)
(* participant and the conversation have got to (WindowInv); so what an    *)
(* execution has seen is, then, all they show but what the limits drop     *)
(* (HasSeen), and no step drops more of it (ShowsThen, MayDropThen).       *)
(*                                                                         *)
(* Considered. While the sharing stays as it is, so does who may read and  *)
(* edit (PeopleInv). A queued job is for a generation that its participant *)
(* has reached, and while that one is current it shows what there is to    *)
(* learn up to it (GenInv). A file that is past the job's epoch, has a     *)
(* result, or was passed over needs nothing more of the job (SettledInv),  *)
(* and an execution that is through has no file left (ThroughInv). So a    *)
(* generation that counts as processed was considered (ConsideredInv).     *)
(***************************************************************************)
EXTENDS MemoryConsolidation, TLAPS, FiniteSetTheorems

ActivityRow == [generation : Nat, window : SUBSET Turn, curator : Actor \cup {Null},
                noisy : BOOLEAN, deleted : BOOLEAN]
StateRow == [generation : Nat, window : SUBSET Turn, processed : Nat, project : BOOLEAN]
FileRow == [enabled : BOOLEAN, epoch : Nat, revision : Nat, content : SUBSET Turn,
            lastJob : Job \cup {Null}, status : {"idle", "scheduled", "processing", "failed"}]
JobRow == [status : {"absent", "pending", "running", "done", "failed"},
           generation : Nat, convGeneration : Nat, epochs : [File -> Nat \cup {NoEpoch}],
           window : [File -> SUBSET Turn], attempts : 0..MaxAttempts, holder : Runner \cup {Null}]
Draft == [revision : Nat, content : SUBSET Turn]
Run == [pc : RunPc, job : Job \cup {Null}, attempt : 0..MaxAttempts,
        ask : {"none", "idle", "scheduled", "processing", "failed"},
        result : {"none", "done", "deferred", "thrown", "hooked"},
        todo : SUBSET File, seen : [File -> SUBSET Turn], base : Draft, failed : BOOLEAN]

\* TypeOK, that an execution has a job and, before it sets the files' status,
\* has said which, and that a claimed job has an attempt to give back.
TypeInv ==
  /\ turns \in [Turn -> {"new", "open", "lapsed", "lost", "over", "done"}]
  /\ upTo \in [Turn -> SUBSET Turn]
  /\ curates \subseteq Turn /\ private \subseteq Turn /\ shared \in BOOLEAN
  /\ activity \in [Conv -> ActivityRow]
  /\ states \in [Conv -> [Actor -> StateRow]]
  /\ files \in [File -> FileRow]
  /\ cut \in [File -> SUBSET Turn] /\ considered \in [File -> SUBSET Turn]
  /\ jobs \in [Job -> JobRow]
  /\ results \subseteq Job \X File
  /\ runs \in [Runner -> Run]
  /\ drafts \in [File -> Draft \cup {Null}]
  /\ spent \in 0..MaxEvents /\ reshared \in BOOLEAN
  /\ \A r \in Runner : /\ runs[r].pc # "idle" => runs[r].job \in Job
                       /\ runs[r].pc = "refresh" => runs[r].ask # "none"
  /\ \A j \in Job : jobs[j].status = "running" => jobs[j].attempts >= 1

-----------------------------------------------------------------------------
(* Type correctness *)

LEMMA TypeInvTypes == TypeInv => TypeOK
  BY DEF TypeInv, TypeOK, ActivityRow, StateRow, FileRow, JobRow, Draft, Run

LEMMA Sources ==
  /\ \A j \in Job : j[1] \in Turn /\ j[2] \in Actor /\ j[2] \in File /\ Source(j) \in Conv
  /\ Project \in File /\ \A a \in Actor : a \in File
  /\ \A t \in Turn : ConvOf[t] \in Conv /\ ActorOf[t] \in Actor /\ TurnsOf(ConvOf[t]) \subseteq Turn
  BY MemoryAssumption DEF MemoryAssumption, Job, File, Source, TurnsOf

LEMMA IdleTypes == Empty \in Draft /\ IdleRun \in Run /\ IdleRun.pc = "idle"
  BY MemoryAssumption DEF MemoryAssumption, Empty, Draft, IdleRun, Run, RunPc

LEMMA InitTypes == Init => TypeInv
<1>. SUFFICES ASSUME Init PROVE TypeInv
  OBVIOUS
<1>1. runs \in [Runner -> Run] /\ \A r \in Runner : runs[r].pc = "idle"
  BY IdleTypes DEF Init
<1>2. activity \in [Conv -> ActivityRow] /\ states \in [Conv -> [Actor -> StateRow]]
  BY DEF Init, ActivityRow, StateRow, NoState
<1>3. files \in [File -> FileRow]
  BY DEF Init, FileRow
<1>4. jobs \in [Job -> JobRow] /\ \A j \in Job : jobs[j].status = "absent"
  BY MemoryAssumption DEF MemoryAssumption, Init, JobRow
<1>5. spent \in 0..MaxEvents
  BY MemoryAssumption DEF MemoryAssumption, Init
<1>. QED
  BY <1>1, <1>2, <1>3, <1>4, <1>5 DEF Init, TypeInv

LEMMA DisturbsTypes ==
  ASSUME TypeInv, Disturbs \/ UNCHANGED spent
  PROVE  spent' \in 0..MaxEvents
  BY MemoryAssumption DEF MemoryAssumption, TypeInv, Disturbs

\* Resetting files leaves files.
LEMMA FreshTypes ==
  ASSUME TypeInv, NEW f \in File, NEW on \in BOOLEAN
  PROVE  /\ Fresh(f, on) \in FileRow
         /\ Fresh(f, on).revision = files[f].revision + 1 /\ Fresh(f, on).epoch = files[f].epoch + 1
         /\ Fresh(f, on).content = {} /\ Fresh(f, on).enabled = on /\ Fresh(f, on).lastJob = Null
<1>1. files[f] \in FileRow
  BY DEF TypeInv
<1>2. /\ files[f].epoch + 1 \in Nat /\ files[f].revision + 1 \in Nat
  BY <1>1 DEF FileRow
<1>3. \A n, m \in Nat : [files[f] EXCEPT !.enabled = on, !.epoch = n, !.revision = m, !.content = {},
                                       !.lastJob = Null, !.status = "idle"] \in FileRow
  BY <1>1 DEF FileRow
<1>4. Fresh(f, on) \in FileRow
  BY <1>2, <1>3 DEF Fresh
<1>5. /\ Fresh(f, on).revision = files[f].revision + 1 /\ Fresh(f, on).epoch = files[f].epoch + 1
      /\ Fresh(f, on).content = {} /\ Fresh(f, on).enabled = on /\ Fresh(f, on).lastJob = Null
  BY <1>1 DEF Fresh, FileRow
<1>. QED BY <1>4, <1>5

LEMMA ResetTypes ==
  ASSUME TypeInv, NEW fs, NEW on, Reset(fs, on)
  PROVE  files' \in [File -> FileRow] /\ cut' \in [File -> SUBSET Turn]
<1>1. ASSUME NEW f \in File
      PROVE  Fresh(f, f \in on) \in FileRow
  <2>1. (f \in on) \in BOOLEAN
    OBVIOUS
  <2>. QED BY <2>1, FreshTypes
<1>2. files' = [f \in File |-> IF f \in fs THEN Fresh(f, f \in on) ELSE files[f]]
      /\ cut' = [f \in File |-> IF f \in fs THEN {t \in Turn : turns[t] # "new"} ELSE cut[f]]
  BY DEF Reset
<1>. QED
  BY <1>1, <1>2 DEF TypeInv

\* The participants' records after a turn, and the files of their jobs.
LEMMA AdvancedTypes ==
  ASSUME TypeInv, NEW t \in Turn
  PROVE  /\ Curator(t) \in Actor \cup {Null}
         /\ \A b \in Actor : Advanced(t)[b] \in StateRow
         /\ \A b \in Actor : Targets(t, b) \subseteq {b, Project}
<1>1. ConvOf[t] \in Conv /\ ActorOf[t] \in Actor
  BY Sources
<1>2. Curator(t) \in Actor \cup {Null}
  BY <1>1 DEF Curator, TypeInv, ActivityRow
<1>3. ASSUME NEW b \in Actor
      PROVE  Advanced(t)[b] \in StateRow
  <2>. DEFINE s == states[ConvOf[t]][b]
  <2>1. s \in StateRow /\ s.generation + 1 \in Nat
    BY <1>1 DEF TypeInv, StateRow
  <2>2. \A n \in Nat, w \in SUBSET Turn, x \in BOOLEAN :
          [s EXCEPT !.generation = n, !.window = w, !.project = x] \in StateRow
    BY <2>1 DEF StateRow
  <2>3. (s.project \/ (b = ActorOf[t] /\ Curator(t) = b)) \in BOOLEAN
    OBVIOUS
  <2>. DEFINE w == IF b = ActorOf[t] THEN upTo[t] ELSE s.window
  <2>5. w \in SUBSET Turn
    BY <2>1 DEF TypeInv, StateRow
  <2>4. \/ Advanced(t)[b] = s
        \/ Advanced(t)[b] = [s EXCEPT !.generation = s.generation + 1, !.window = w,
                                      !.project = s.project \/ (b = ActorOf[t] /\ Curator(t) = b)]
    BY DEF Advanced
  <2>. HIDE DEF s, w
  <2>. QED BY <2>1, <2>2, <2>3, <2>4, <2>5
<1>4. \A b \in Actor : Targets(t, b) \subseteq {b, Project}
  BY DEF Targets
<1>. QED BY <1>2, <1>3, <1>4

\* What a turn that ends well writes for each participant, job and file.
ProcessedAt(t, b) == [Advanced(t)[b] EXCEPT !.processed = Advanced(t)[b].generation]
QueuedFor(t) == {b \in Actor : /\ Advanced(t)[b].processed < Advanced(t)[b].generation
                               /\ Targets(t, b) # {}}
DoneWith(t) == Done(ConvOf[t]) \cup {t}
QueuedJob(t, b) ==
  [status |-> "pending", generation |-> Advanced(t)[b].generation,
   convGeneration |-> activity[ConvOf[t]].generation + 1,
   epochs |-> [f \in File |-> IF f \in Targets(t, b) THEN files[f].epoch ELSE NoEpoch],
   window |-> [f \in File |-> IF f = Project THEN upTo[t] ELSE Advanced(t)[b].window],
   attempts |-> 0, holder |-> Null]

\* CompleteTurn, pointwise.
LEMMA CompleteSteps ==
  ASSUME TypeInv, NEW t \in Turn, CompleteTurn(t)
  PROVE  LET c == ConvOf[t] IN
         /\ turns[t] \in {"open", "lapsed"} /\ ~activity[c].deleted /\ c \in Conv
         /\ turns' = [u \in Turn |-> IF u = t THEN "done"
                                     ELSE IF u \in TurnsOf(c) /\ turns[u] = "lapsed" THEN "lost"
                                     ELSE turns[u]]
         /\ private' = IF AppAllowed(c) THEN private \cup {t} ELSE private
         /\ activity' = [activity EXCEPT ![c].generation = @ + 1, ![c].window = upTo[t],
                                         ![c].curator = Curator(t), ![c].noisy = TRUE]
         /\ \A d \in Conv, b \in Actor :
              states'[d][b] = IF d # c THEN states[d][b]
                              ELSE IF /\ Advanced(t)[b].processed < Advanced(t)[b].generation
                                      /\ b \notin QueuedFor(t)
                              THEN ProcessedAt(t, b) ELSE Advanced(t)[b]
         /\ \E x : states' = [states EXCEPT ![c] = [b \in Actor |-> x[b]]]
         /\ jobs' = [j \in Job |-> IF j[1] = t /\ j[2] \in QueuedFor(t) THEN QueuedJob(t, j[2])
                                   ELSE jobs[j]]
         /\ \A f \in File : files'[f] = files[f] \/ files'[f] = [files[f] EXCEPT !.status = "scheduled"]
         /\ UNCHANGED <<upTo, curates, cut, results, runs, people, spent, considered>>
<1>. DEFINE c == ConvOf[t]
            pending == {b \in Actor : Advanced(t)[b].processed < Advanced(t)[b].generation}
            queued == {b \in pending : Targets(t, b) # {}}
            x == [b \in Actor |-> IF b \in pending \ queued THEN ProcessedAt(t, b) ELSE Advanced(t)[b]]
<1>1. c \in Conv
  BY Sources
<1>2. QueuedFor(t) = queued
  BY DEF QueuedFor
<1>3. states' = [states EXCEPT ![c] = x]
  BY DEF CompleteTurn, ProcessedAt
<1>4. \A d \in Conv, b \in Actor :
        states'[d][b] = IF d # c THEN states[d][b]
                        ELSE IF /\ Advanced(t)[b].processed < Advanced(t)[b].generation
                                /\ b \notin QueuedFor(t)
                        THEN ProcessedAt(t, b) ELSE Advanced(t)[b]
  BY <1>1, <1>2, <1>3 DEF TypeInv
<1>5. \E y : states' = [states EXCEPT ![c] = [b \in Actor |-> y[b]]]
  <2>1. x = [b \in Actor |-> x[b]]
    OBVIOUS
  <2>. QED BY <1>3, <2>1
<1>6. jobs' = [j \in Job |-> IF j[1] = t /\ j[2] \in QueuedFor(t) THEN QueuedJob(t, j[2])
                              ELSE jobs[j]]
  BY <1>2 DEF CompleteTurn, QueuedJob
<1>7. \A f \in File : files'[f] = files[f] \/ files'[f] = [files[f] EXCEPT !.status = "scheduled"]
  BY DEF CompleteTurn
<1>. QED
  BY <1>1, <1>4, <1>5, <1>6, <1>7 DEF CompleteTurn

LEMMA CompleteTypes ==
  ASSUME TypeInv, NEW t \in Turn, CompleteTurn(t)
  PROVE  TypeInv'
<1>. DEFINE c == ConvOf[t]
<1>0. c \in Conv /\ t \in Turn
  BY Sources
<1>1. turns' \in [Turn -> {"new", "open", "lapsed", "lost", "over", "done"}] /\ private' \subseteq Turn
  <2>1. /\ turns' = [u \in Turn |-> IF u = t THEN "done"
                                    ELSE IF u \in TurnsOf(c) /\ turns[u] = "lapsed" THEN "lost"
                                    ELSE turns[u]]
        /\ private' = IF AppAllowed(c) THEN private \cup {t} ELSE private
    BY CompleteSteps
  <2>. QED BY <2>1 DEF TypeInv
<1>2. activity' \in [Conv -> ActivityRow]
  <2>1. Curator(t) \in Actor \cup {Null}
    BY AdvancedTypes
  <2>2. activity' = [activity EXCEPT ![c].generation = @ + 1, ![c].window = upTo[t],
                                         ![c].curator = Curator(t), ![c].noisy = TRUE]
    BY CompleteSteps
  <2>3. activity[c] \in ActivityRow /\ activity[c].generation + 1 \in Nat
    BY <1>0 DEF TypeInv, ActivityRow
  <2>4. \A n \in Nat, w \in SUBSET Turn, z \in Actor \cup {Null} :
          [activity[c] EXCEPT !.generation = n, !.window = w, !.curator = z, !.noisy = TRUE]
            \in ActivityRow
    BY <2>3 DEF ActivityRow
  <2>5. activity' = [activity EXCEPT ![c] =
          [activity[c] EXCEPT !.generation = activity[c].generation + 1, !.window = upTo[t],
                              !.curator = Curator(t), !.noisy = TRUE]]
    BY <1>0, <2>2 DEF TypeInv
  <2>6. upTo[t] \in SUBSET Turn
    BY DEF TypeInv
  <2>. HIDE DEF c
  <2>. QED BY <1>0, <2>1, <2>3, <2>4, <2>5, <2>6 DEF TypeInv
<1>3. ASSUME NEW b \in Actor
      PROVE  Advanced(t)[b] \in StateRow /\ ProcessedAt(t, b) \in StateRow
  <2>. DEFINE s == Advanced(t)[b]
  <2>1. s \in StateRow
    BY AdvancedTypes
  <2>2. s.generation \in Nat /\ [s EXCEPT !.processed = s.generation] \in StateRow
    <3>. HIDE DEF s
    <3>. QED BY <2>1 DEF StateRow
  <2>. QED BY <2>1, <2>2 DEF ProcessedAt
<1>4. states' \in [Conv -> [Actor -> StateRow]]
  <2>0. \A b \in Actor :
          states'[c][b] = IF /\ Advanced(t)[b].processed < Advanced(t)[b].generation
                             /\ b \notin QueuedFor(t)
                          THEN ProcessedAt(t, b) ELSE Advanced(t)[b]
    <3>1. \A d \in Conv, b \in Actor :
            states'[d][b] = IF d # c THEN states[d][b]
                            ELSE IF /\ Advanced(t)[b].processed < Advanced(t)[b].generation
                                    /\ b \notin QueuedFor(t)
                            THEN ProcessedAt(t, b) ELSE Advanced(t)[b]
      BY CompleteSteps
    <3>. QED BY <1>0, <3>1
  <2>1. \A b \in Actor : states'[c][b] \in StateRow
    BY <1>3, <2>0
  <2>2. PICK y : states' = [states EXCEPT ![c] = [b \in Actor |-> y[b]]]
    BY CompleteSteps
  <2>3. \A b \in Actor : y[b] \in StateRow
    BY <1>0, <2>1, <2>2 DEF TypeInv
  <2>. QED BY <1>0, <2>2, <2>3 DEF TypeInv
<1>5. jobs' \in [Job -> JobRow] /\ \A j \in Job : jobs'[j].status = "running" => jobs'[j].attempts >= 1
  <2>1. ASSUME NEW b \in Actor
        PROVE  QueuedJob(t, b) \in JobRow /\ QueuedJob(t, b).status = "pending"
    <3>1. Advanced(t)[b].generation \in Nat /\ Advanced(t)[b].window \in SUBSET Turn
      BY AdvancedTypes DEF StateRow
    <3>2. activity[c].generation + 1 \in Nat /\ \A f \in File : files[f].epoch \in Nat
      BY <1>0 DEF TypeInv, ActivityRow, FileRow
    <3>3. upTo[t] \in SUBSET Turn
      BY DEF TypeInv
    <3>4. 0 \in 0..MaxAttempts
      BY MemoryAssumption DEF MemoryAssumption
    <3>. QED BY <3>1, <3>2, <3>3, <3>4 DEF QueuedJob, JobRow
  <2>2. jobs' = [j \in Job |-> IF j[1] = t /\ j[2] \in QueuedFor(t) THEN QueuedJob(t, j[2])
                              ELSE jobs[j]]
    BY CompleteSteps
  <2>3. \A j \in Job : j[2] \in Actor
    BY Sources
  <2>. QED BY <2>1, <2>2, <2>3 DEF TypeInv
<1>6. files' \in [File -> FileRow]
  <2>1. \A f \in File : files[f] \in FileRow /\ [files[f] EXCEPT !.status = "scheduled"] \in FileRow
    BY DEF TypeInv, FileRow
  <2>2. \A f \in File : files'[f] \in FileRow
    BY <2>1, CompleteSteps
  <2>3. files' = [f \in File |-> files'[f]]
    BY DEF CompleteTurn
  <2>. QED BY <2>2, <2>3
<1>7. TypeInv'
  <2>1. UNCHANGED <<upTo, curates, cut, results, runs, people, spent, considered>>
    BY DEF CompleteTurn
  <2>. QED BY <1>1, <1>2, <1>4, <1>5, <1>6, <2>1 DEF TypeInv, people
<1>. QED BY <1>7

LEMMA TalkTypes ==
  ASSUME TypeInv, NEW t \in Turn, BeginTurn(t) \/ BeginSchedule(t) \/ ReleaseTurn(t) \/ LeaseExpires(t)
  PROVE  TypeInv'
<1>. USE DEF TypeInv, memory, people
<1>1. ConvOf[t] \in Conv /\ ActorOf[t] \in Actor
  BY Sources
<1>2. CASE BeginTurn(t)
  BY <1>1, <1>2 DEF BeginTurn, BeginSchedule, ActivityRow
<1>3. CASE ReleaseTurn(t)
  BY <1>1, <1>3 DEF ReleaseTurn, ActivityRow
<1>4. CASE LeaseExpires(t)
  BY <1>4 DEF LeaseExpires
<1>5. CASE BeginSchedule(t)
  BY <1>5 DEF BeginSchedule, TurnsOf
<1>. QED BY <1>2, <1>3, <1>4, <1>5

LEMMA ConversationTypes ==
  ASSUME TypeInv, NEW c \in Conv, QuietComes(c) \/ DeleteConversation(c)
  PROVE  TypeInv'
<1>. USE DEF TypeInv, memory, people
<1>1. CASE QuietComes(c)
  BY <1>1 DEF QuietComes, ActivityRow
<1>2. CASE DeleteConversation(c)
  <2>1. spent' \in 0..MaxEvents
    BY <1>2, DisturbsTypes DEF DeleteConversation
  <2>. QED
    BY <1>2, <2>1 DEF DeleteConversation, ActivityRow, StateRow, NoState
<1>. QED BY <1>1, <1>2

LEMMA PeopleTypes ==
  ASSUME TypeInv,
         \/ ShareOrUnshare \/ \E a \in Actor : WipePrivate(a)
         \/ \E f \in File : Wipe(f) \/ Disable(f) \/ Enable(f) \/ OpenDraft(f) \/ SaveDraft(f)
  PROVE  TypeInv'
<1>. USE DEF TypeInv, memory, people, talk
<1>1. CASE ShareOrUnshare
  BY <1>1, DisturbsTypes DEF ShareOrUnshare
<1>2. ASSUME NEW fs, NEW on, Reset(fs, on), Disturbs \/ UNCHANGED spent
      PROVE  TypeInv'
  <2>1. files' \in [File -> FileRow] /\ cut' \in [File -> SUBSET Turn]
    BY <1>2, ResetTypes
  <2>2. spent' \in 0..MaxEvents
    BY <1>2, DisturbsTypes
  <2>. QED BY <1>2, <2>1, <2>2 DEF Reset
<1>3. ASSUME NEW f \in File, OpenDraft(f)
      PROVE  TypeInv'
  <2>1. [revision |-> files[f].revision, content |-> files[f].content] \in Draft
    BY DEF FileRow, Draft
  <2>2. spent' \in 0..MaxEvents
    BY <1>3, DisturbsTypes DEF OpenDraft
  <2>. QED BY <1>3, <2>1, <2>2 DEF OpenDraft
<1>4. ASSUME NEW f \in File, SaveDraft(f)
      PROVE  TypeInv'
  <2>1. files' \in [File -> FileRow]
    <3>1. PICK content \in SUBSET drafts[f].content :
            files' = IF files[f].enabled /\ files[f].revision = drafts[f].revision
                        /\ content # files[f].content
                     THEN [files EXCEPT ![f].content = content, ![f].revision = @ + 1,
                                        ![f].lastJob = Null,
                                        ![f].status = IF @ = "failed" THEN "idle" ELSE @]
                     ELSE files
      BY <1>4 DEF SaveDraft
    <3>2. content \in SUBSET Turn
      BY <1>4, <3>1 DEF SaveDraft, Draft
    <3>3. files[f] \in FileRow /\ files[f].revision + 1 \in Nat
      BY DEF FileRow
    <3>4. [files[f] EXCEPT !.content = content, !.revision = files[f].revision + 1, !.lastJob = Null,
                           !.status = IF files[f].status = "failed" THEN "idle" ELSE files[f].status]
            \in FileRow
      BY <3>2, <3>3 DEF FileRow
    <3>5. CASE files' = files
      BY <3>5
    <3>6. CASE files' = [files EXCEPT ![f].content = content, ![f].revision = @ + 1,
                                      ![f].lastJob = Null,
                                      ![f].status = IF @ = "failed" THEN "idle" ELSE @]
      <4>1. files' = [files EXCEPT ![f] =
              [files[f] EXCEPT !.content = content, !.revision = files[f].revision + 1, !.lastJob = Null,
                           !.status = IF files[f].status = "failed" THEN "idle" ELSE files[f].status]]
        BY <3>6
      <4>. QED BY <3>4, <4>1
    <3>. QED BY <3>1, <3>5, <3>6
  <2>. QED BY <1>4, <2>1 DEF SaveDraft
<1>. QED
  BY <1>1, <1>2, <1>3, <1>4 DEF WipePrivate, Wipe, Disable, Enable

\* The runs after one of them has moved to record x.
Moved(r, x) == runs' = [runs EXCEPT ![r] = x]

LEMMA MovedRuns ==
  ASSUME TypeInv, NEW r \in Runner, NEW x, Moved(r, x)
  PROVE  /\ runs'[r] = x
         /\ \A q \in Runner : q # r => runs'[q] = runs[q]
         /\ \A q \in Runner : runs'[q] = x \/ runs'[q] = runs[q]
         /\ x \in Run => runs' \in [Runner -> Run]
  BY DEF TypeInv, Moved

LEMMA GoesMoves ==
  ASSUME TypeInv, NEW r \in Runner, NEW pc \in RunPc, Goes(r, pc)
  PROVE  \E x \in Run :
           /\ Moved(r, x) /\ x.pc = pc
           /\ x.job = runs[r].job /\ x.todo = runs[r].todo /\ x.seen = runs[r].seen
           /\ x.base = runs[r].base /\ x.failed = runs[r].failed
<1>1. runs[r] \in Run
  BY DEF TypeInv
<1>2. Moved(r, [runs[r] EXCEPT !.pc = pc])
  BY DEF Goes, Moved, TypeInv
<1>3. LET x == [runs[r] EXCEPT !.pc = pc] IN
      /\ x \in Run /\ x.pc = pc
      /\ x.job = runs[r].job /\ x.todo = runs[r].todo /\ x.seen = runs[r].seen
      /\ x.base = runs[r].base /\ x.failed = runs[r].failed
  BY <1>1 DEF Run
<1>. QED BY <1>2, <1>3

LEMMA EndsMoves ==
  ASSUME TypeInv, NEW r \in Runner, NEW ask \in {"idle", "scheduled", "processing", "failed"},
         NEW result \in {"none", "done", "deferred", "thrown", "hooked"}, Ends(r, ask, result)
  PROVE  \E x \in Run : Moved(r, x) /\ x.pc = "refresh" /\ x.ask = ask /\ x.job = runs[r].job
<1>1. runs[r] \in Run
  BY DEF TypeInv
<1>2. Moved(r, [runs[r] EXCEPT !.pc = "refresh", !.ask = ask, !.result = result])
  BY DEF Ends, Moved, TypeInv
<1>3. LET x == [runs[r] EXCEPT !.pc = "refresh", !.ask = ask, !.result = result] IN
      x \in Run /\ x.pc = "refresh" /\ x.ask = ask /\ x.job = runs[r].job
  BY <1>1 DEF Run, RunPc
<1>. QED BY <1>2, <1>3

\* A run reports to the queue.
LEMMA ReportsMoves ==
  ASSUME TypeInv, NEW r \in Runner, NEW result \in {"done", "thrown"},
         runs' = [runs EXCEPT ![r].pc = "report", ![r].result = result]
  PROVE  \E x \in Run : Moved(r, x) /\ x.pc = "report" /\ x.job = runs[r].job
<1>1. runs[r] \in Run
  BY DEF TypeInv
<1>2. Moved(r, [runs[r] EXCEPT !.pc = "report", !.result = result])
  BY DEF Moved, TypeInv
<1>3. LET x == [runs[r] EXCEPT !.pc = "report", !.result = result] IN
      x \in Run /\ x.pc = "report" /\ x.job = runs[r].job
  BY <1>1 DEF Run, RunPc
<1>. QED BY <1>2, <1>3

LEMMA ThroughMoves ==
  ASSUME TypeInv, NEW r \in Runner, NEW failed \in BOOLEAN, Through(r, failed)
  PROVE  \E x \in Run :
           /\ Moved(r, x) /\ x.pc = (IF runs[r].todo \ {At(r)} = {} THEN "finalize" ELSE "check")
           /\ x.job = runs[r].job /\ x.todo = runs[r].todo \ {At(r)} /\ x.seen = runs[r].seen
           /\ x.failed = (runs[r].failed \/ failed)
<1>. DEFINE left == runs[r].todo \ {At(r)}
            pc == IF left = {} THEN "finalize" ELSE "check"
            lost == runs[r].failed \/ failed
            x == [runs[r] EXCEPT !.todo = left, !.pc = pc, !.failed = lost, !.base = Empty]
<1>1. runs[r] \in Run
  BY DEF TypeInv
<1>2. Moved(r, x)
  BY DEF Through, Moved, TypeInv
<1>3. left \in SUBSET File /\ pc \in RunPc /\ Empty \in Draft /\ lost \in BOOLEAN
  BY <1>1, IdleTypes DEF Run, RunPc
<1>4. \A l \in SUBSET File, z \in RunPc, d \in Draft, y \in BOOLEAN :
        [runs[r] EXCEPT !.todo = l, !.pc = z, !.failed = y, !.base = d] \in Run
  BY <1>1 DEF Run
<1>5. x \in Run
  BY <1>3, <1>4
<1>6. /\ x.pc = pc /\ x.job = runs[r].job /\ x.todo = left /\ x.seen = runs[r].seen /\ x.failed = lost
  BY <1>1 DEF Run
<1>. HIDE DEF x
<1>. QED BY <1>2, <1>5, <1>6

-----------------------------------------------------------------------------
(* What a step of the handler does                                         *)

Reading == {"check", "current", "curate", "write"}

Asked(j) == {f \in File : /\ ~activity[Source(j)].deleted /\ CanRead(j[2], Source(j))
                          /\ jobs[j].epochs[f] # NoEpoch /\ (f = Project => CanEdit(j[2]))}
Past(j) == {f \in Asked(j) : \/ jobs[j].epochs[f] # files[f].epoch
                             \/ f # Project /\ ~AppAllowed(Source(j))}
Open(j) == {f \in Asked(j) \ Past(j) : files[f].enabled}

\* What it may be shown of the open files.
Shown(j, seen) ==
  \A f \in File : IF f \in Open(j) THEN /\ seen[f] \subseteq Transcript(j, f)
                                       /\ MayDrop(Source(j), Transcript(j, f) \ seen[f])
                  ELSE seen[f] = {}

\* It leaves the files, or chooses them, goes on with the file it is at, or is
\* through with it.
RunEffect(r, x) ==
  LET j == runs[r].job IN
  \/ x.pc \notin Reading \cup {"nothing", "finalize"}
  \/ /\ runs[r].pc = "transcript" /\ Shown(j, x.seen) /\ x.todo = {f \in File : x.seen[f] # {}}
     /\ x.pc = IF x.todo = {} THEN "nothing" ELSE "check"
     /\ results' = results \cup ({j} \X Past(j))
  \/ /\ runs[r].pc \in Reading /\ x.pc \in Reading
     /\ x.todo = runs[r].todo /\ x.seen = runs[r].seen /\ x.failed = runs[r].failed
     /\ x.pc = "curate" => x.base = [revision |-> files[At(r)].revision, content |-> files[At(r)].content]
     /\ x.pc = "write" => runs[r].pc = "curate" /\ x.base = runs[r].base
  \/ /\ runs[r].pc \in Reading
     /\ x.todo = runs[r].todo \ {At(r)} /\ x.seen = runs[r].seen
     /\ x.pc = IF x.todo = {} THEN "finalize" ELSE "check"
     /\ ~x.failed => ~runs[r].failed /\ <<j, At(r)>> \in results'

LEMMA AtFile ==
  ASSUME TypeInv, NEW r \in Runner, runs[r].pc # "idle"
  PROVE  At(r) \in File /\ runs[r].job \in Job /\ runs[r] \in Run
<1>1. runs[r].job \in Job /\ runs[r] \in Run
  BY DEF TypeInv
<1>. QED BY <1>1, Sources DEF At

LEMMA HandlerRuns ==
  ASSUME TypeInv, NEW r \in Runner, Consolidate(r)
  PROVE  \E x \in Run : /\ Moved(r, x) /\ (x.pc # "idle" => x.job = runs[r].job)
                        /\ (x.pc = "refresh" => x.ask # "none") /\ RunEffect(r, x)
<1>. DEFINE j == runs[r].job
            Goal == \E x \in Run : /\ Moved(r, x) /\ (x.pc # "idle" => x.job = j)
                                   /\ (x.pc = "refresh" => x.ask # "none") /\ RunEffect(r, x)
<1>0. runs[r].pc # "idle" /\ j \in Job /\ runs[r] \in Run /\ At(r) \in File
  BY AtFile DEF Consolidate
<1>1. ASSUME NEW x \in Run, Moved(r, x), x.pc = "idle" \/ x.job = j,
             x.pc \notin Reading \cup {"nothing", "finalize"}, x.pc = "refresh" => x.ask # "none"
      PROVE  Goal
  BY <1>1 DEF RunEffect
<1>2. ASSUME NEW ask \in {"idle", "scheduled", "processing", "failed"},
             NEW result \in {"none", "done", "deferred", "thrown", "hooked"}, Ends(r, ask, result)
      PROVE  Goal
  <2>1. PICK x \in Run : Moved(r, x) /\ x.pc = "refresh" /\ x.job = j /\ x.ask # "none"
    BY <1>2, EndsMoves
  <2>2. x.pc \notin Reading \cup {"nothing", "finalize"}
    BY <2>1 DEF Reading
  <2>. QED BY <1>1, <2>1, <2>2
<1>3. ASSUME NEW result \in {"done", "thrown"},
             runs' = [runs EXCEPT ![r].pc = "report", ![r].result = result]
      PROVE  Goal
  <2>1. PICK x \in Run : Moved(r, x) /\ x.pc = "report" /\ x.job = j
    BY <1>3, ReportsMoves
  <2>2. x.pc \notin Reading \cup {"nothing", "finalize"}
    BY <2>1 DEF Reading
  <2>. QED BY <1>1, <2>1, <2>2
<1>4. ASSUME runs' = [runs EXCEPT ![r] = IdleRun]
      PROVE  Goal
  <2>. HIDE DEF Goal
  <2>. QED BY <1>1, <1>4, IdleTypes DEF Reading, Moved
<1>5. ASSUME NEW pc \in RunPc \ (Reading \cup {"nothing", "finalize", "refresh"}), Goes(r, pc)
      PROVE  Goal
  <2>1. PICK x \in Run : Moved(r, x) /\ x.pc = pc /\ x.job = j
    BY <1>5, GoesMoves
  <2>. QED BY <1>1, <1>5, <2>1
<1>6. ASSUME NEW failed \in BOOLEAN, Through(r, failed), runs[r].pc \in Reading,
             ~failed => <<j, At(r)>> \in results'
      PROVE  Goal
  <2>1. PICK x \in Run :
          /\ Moved(r, x) /\ x.pc = (IF runs[r].todo \ {At(r)} = {} THEN "finalize" ELSE "check")
          /\ x.job = j /\ x.todo = runs[r].todo \ {At(r)} /\ x.seen = runs[r].seen
          /\ x.failed = (runs[r].failed \/ failed)
    BY <1>6, ThroughMoves
  <2>2. RunEffect(r, x) /\ x.pc # "refresh"
    BY <1>6, <2>1 DEF RunEffect
  <2>. QED BY <2>1, <2>2
<1>7. ASSUME NEW pc \in {"current", "write"}, Goes(r, pc), runs[r].pc \in Reading,
             pc = "write" => runs[r].pc = "curate"
      PROVE  Goal
  <2>1. PICK x \in Run :
          /\ Moved(r, x) /\ x.pc = pc
          /\ x.job = runs[r].job /\ x.todo = runs[r].todo /\ x.seen = runs[r].seen
          /\ x.base = runs[r].base /\ x.failed = runs[r].failed
    BY <1>7, GoesMoves DEF RunPc
  <2>2. RunEffect(r, x)
    BY <1>7, <2>1 DEF RunEffect, Reading
  <2>. QED BY <2>1, <2>2
<1>a. CASE Throws(r)
  BY <1>a, <1>3 DEF Throws
<1>b. CASE Finalize(r, j)
  BY <1>b, <1>2, <1>3 DEF Finalize
<1>c. CASE Load(r, j)
  BY <1>c, <1>2 DEF Load
<1>d. CASE Refresh(r, j)
  <2>1. {"gate", "report"} \subseteq RunPc \ (Reading \cup {"nothing", "finalize", "refresh"})
    BY DEF RunPc, Reading
  <2>2. Goes(r, "gate") \/ Goes(r, "report") \/ runs' = [runs EXCEPT ![r] = IdleRun]
    BY <1>d DEF Refresh
  <2>. QED BY <1>4, <1>5, <2>1, <2>2
<1>e. CASE Gate(r, j) \/ GateLeases(r, j)
  <2>1. {"leases", "transcript"} \subseteq RunPc \ (Reading \cup {"nothing", "finalize", "refresh"})
    BY DEF RunPc, Reading
  <2>2. \/ Ends(r, "idle", "done") \/ Ends(r, "scheduled", "deferred")
        \/ Goes(r, "leases") \/ Goes(r, "transcript")
    BY <1>e DEF Gate, GateLeases
  <2>. QED BY <1>2, <1>5, <2>1, <2>2
<1>f. CASE Read(r, j)
  <2>1. PICK seen \in [File -> SUBSET Done(Source(j))] :
          LET todo == {f \in File : seen[f] # {}} IN
          /\ Shown(j, seen)
          /\ runs' = [runs EXCEPT ![r].pc = IF todo = {} THEN "nothing" ELSE "check", ![r].todo = todo,
                                  ![r].seen = seen]
          /\ results' = results \cup ({j} \X Past(j))
    BY <1>f DEF Read, Open, Past, Asked, Shown
  <2>. DEFINE todo == {f \in File : seen[f] # {}}
              pc == IF todo = {} THEN "nothing" ELSE "check"
              x == [runs[r] EXCEPT !.pc = pc, !.todo = todo, !.seen = seen]
  <2>2. runs[r].pc = "transcript"
    BY <1>f DEF Read
  <2>3. pc \in RunPc /\ todo \in SUBSET File /\ seen \in [File -> SUBSET Turn]
    BY DEF RunPc, Done, TurnsOf
  <2>4. \A z \in RunPc, l \in SUBSET File, y \in [File -> SUBSET Turn] :
          [runs[r] EXCEPT !.pc = z, !.todo = l, !.seen = y] \in Run
    BY <1>0 DEF Run
  <2>5. x \in Run
    BY <2>3, <2>4
  <2>6. x.pc = pc /\ x.todo = todo /\ x.seen = seen /\ x.job = j
    BY <1>0 DEF Run
  <2>7. Moved(r, x)
    BY <2>1 DEF Moved, TypeInv
  <2>. HIDE DEF x
  <2>9. RunEffect(r, x)
    BY <2>1, <2>2, <2>6 DEF RunEffect
  <2>. QED BY <2>5, <2>6, <2>7, <2>9
<1>g. CASE CheckResult(r, j)
  BY <1>g, <1>6, <1>7 DEF CheckResult, Reading
<1>h. CASE ReadCurrent(r, j)
  <2>1. CASE Through(r, FALSE) /\ results' = results \cup {<<j, At(r)>>}
    BY <1>h, <1>6, <2>1 DEF ReadCurrent, Reading
  <2>2. CASE runs' = [runs EXCEPT ![r].pc = "curate",
                 ![r].base = [revision |-> files[At(r)].revision, content |-> files[At(r)].content]]
    <3>. DEFINE base == [revision |-> files[At(r)].revision, content |-> files[At(r)].content]
                x == [runs[r] EXCEPT !.pc = "curate", !.base = base]
    <3>1. base \in Draft
      BY <1>0 DEF TypeInv, FileRow, Draft
    <3>2. Moved(r, x)
      BY <2>2 DEF Moved, TypeInv
    <3>. HIDE DEF base
    <3>3. x \in Run /\ x.pc = "curate" /\ x.base = base /\ x.job = j /\ x.todo = runs[r].todo
          /\ x.seen = runs[r].seen /\ x.failed = runs[r].failed
      BY <1>0, <3>1 DEF Run, RunPc
    <3>. HIDE DEF x
    <3>4. RunEffect(r, x)
      BY <1>h, <3>3 DEF RunEffect, Reading, ReadCurrent, base
    <3>. QED BY <3>2, <3>3, <3>4
  <2>. QED BY <1>h, <2>1, <2>2 DEF ReadCurrent
<1>i. CASE KeepsFile(r, j)
  BY <1>i, <1>6 DEF KeepsFile, Reading
<1>k. CASE CuratorFails(r, j)
  BY <1>k, <1>6 DEF CuratorFails, Reading
<1>l. CASE CallsWrite(r, j)
  <2>1. \/ Goes(r, "write")
        \/ Through(r, FALSE) /\ results' = results \cup {<<j, At(r)>>}
    BY <1>l DEF CallsWrite
  <2>2. runs[r].pc = "curate" /\ "curate" \in Reading
    BY <1>l DEF CallsWrite, Reading
  <2>. QED BY <1>6, <1>7, <2>1, <2>2
<1>m. CASE WriteFile(r, j)
  <2>. DEFINE verdict == Verdict(r, j, At(r))
  <2>1. /\ runs[r].pc = "write" /\ "write" \in Reading
        /\ results' = IF verdict \in {"noisy", "conflict"} THEN results ELSE results \cup {<<j, At(r)>>}
    BY <1>m DEF WriteFile, Reading
  <2>2. \/ Ends(r, "scheduled", "deferred") \/ Ends(r, "idle", "done")
        \/ verdict \notin {"noisy", "superseded"} /\ Through(r, verdict = "conflict")
    BY <1>m DEF WriteFile
  <2>3. CASE Ends(r, "scheduled", "deferred") \/ Ends(r, "idle", "done")
    BY <1>2, <2>3
  <2>4. CASE verdict \notin {"noisy", "superseded"} /\ Through(r, verdict = "conflict")
    <3>. HIDE DEF verdict
    <3>1. CASE verdict = "conflict"
      <4>1. Through(r, TRUE)
        BY <2>4, <3>1 DEF Through
      <4>. QED BY <1>6, <2>1, <4>1
    <3>2. CASE verdict # "conflict"
      <4>1. Through(r, FALSE)
        BY <2>4, <3>2 DEF Through
      <4>2. <<j, At(r)>> \in results'
        BY <2>1, <2>4, <3>2
      <4>. QED BY <1>6, <2>1, <4>1, <4>2
    <3>. QED BY <3>1, <3>2
  <2>. QED BY <2>2, <2>3, <2>4
<1>n. CASE Report(r, j)
  <2>. DEFINE x == [runs[r] EXCEPT !.pc = "hook"]
  <2>1. \/ runs' = [runs EXCEPT ![r] = IdleRun]
        \/ runs' = [runs EXCEPT ![r] = x]
    BY <1>n DEF Report, TypeInv
  <2>2. x \in Run /\ x.pc = "hook" /\ x.job = j
    BY <1>0 DEF Run, RunPc
  <2>3. x.pc \notin Reading \cup {"nothing", "finalize"}
    BY <2>2 DEF Reading
  <2>4. ASSUME runs' = [runs EXCEPT ![r] = x]
        PROVE  Moved(r, x)
    BY <2>4 DEF Moved
  <2>5. ASSUME runs' = [runs EXCEPT ![r] = x]
        PROVE  Goal
    <3>1. Moved(r, x)
      BY <2>4, <2>5
    <3>. HIDE DEF x, Goal
    <3>. QED BY <1>1, <2>2, <2>3, <3>1
  <2>. QED BY <1>4, <2>1, <2>5
<1>o. CASE Hook(r, j)
  BY <1>o, <1>2, <1>4 DEF Hook
<1>. HIDE DEF Goal
<1>. QED
  BY <1>a, <1>b, <1>c, <1>d, <1>e, <1>f, <1>g, <1>h, <1>i, <1>k, <1>l, <1>m, <1>n, <1>o DEF Consolidate

\* What stays of a file whatever its status, and of a job whoever works on it.
SameFile(f) ==
  /\ files'[f].enabled = files[f].enabled /\ files'[f].epoch = files[f].epoch
  /\ files'[f].revision = files[f].revision /\ files'[f].content = files[f].content
  /\ files'[f].lastJob = files[f].lastJob
SameJob(k) ==
  /\ jobs'[k].generation = jobs[k].generation /\ jobs'[k].convGeneration = jobs[k].convGeneration
  /\ jobs'[k].epochs = jobs[k].epochs /\ jobs'[k].window = jobs[k].window
  /\ (jobs'[k].status = "absent") = (jobs[k].status = "absent")

\* The handler's write gets through.
Written(r) ==
  LET f == At(r) IN
  /\ runs[r].pc = "write" /\ Verdict(r, runs[r].job, f) = "apply"
  /\ \A g \in File : g # f => files'[g] = files[g]
  /\ files'[f].content = runs[r].base.content \cup runs[r].seen[f]
  /\ files'[f].revision = files[f].revision + 1 /\ files'[f].lastJob = runs[r].job
  /\ files'[f].enabled = files[f].enabled /\ files'[f].epoch = files[f].epoch

LEMMA HandlerFiles ==
  ASSUME TypeInv, NEW r \in Runner, Consolidate(r)
  PROVE  /\ files' \in [File -> FileRow] /\ cut' = cut
         /\ (\A f \in File : SameFile(f)) \/ Written(r)
<1>. DEFINE j == runs[r].job
<1>0. j \in Job /\ runs[r] \in Run /\ At(r) \in File
  BY AtFile DEF Consolidate
<1>1. CASE UNCHANGED files
  BY <1>1 DEF Consolidate, Throws, Finalize, Load, Refresh, Gate, GateLeases, Read, CheckResult,
              ReadCurrent, KeepsFile, CuratorFails, CallsWrite, WriteFile, Report, Hook, memory,
              SameFile, TypeInv
<1>2. CASE Refresh(r, j)
  <2>1. ASSUME NEW f \in File
        PROVE  StatusFor(j, f, runs[r].ask) \in {"idle", "scheduled", "processing", "failed"}
    <3>1. runs[r].ask \in {"idle", "scheduled", "processing", "failed"}
      BY <1>0, <1>2 DEF Run, Refresh, TypeInv
    <3>. QED BY <3>1 DEF StatusFor
  <2>2. files' = [f \in File |->
           IF files[f].enabled /\ jobs[j].epochs[f] = files[f].epoch
           THEN [files[f] EXCEPT !.status = StatusFor(j, f, runs[r].ask)] ELSE files[f]]
        /\ cut' = cut
    BY <1>2 DEF Refresh
  <2>3. \A f \in File, z \in {"idle", "scheduled", "processing", "failed"} :
          LET y == [files[f] EXCEPT !.status = z] IN
          /\ y \in FileRow /\ files[f] \in FileRow
          /\ y.enabled = files[f].enabled /\ y.epoch = files[f].epoch
          /\ y.revision = files[f].revision /\ y.content = files[f].content
          /\ y.lastJob = files[f].lastJob
    BY DEF TypeInv, FileRow
  <2>4. ASSUME NEW f \in File
        PROVE  files'[f] \in FileRow /\ SameFile(f)
    <3>. DEFINE y == [files[f] EXCEPT !.status = StatusFor(j, f, runs[r].ask)]
    <3>1. /\ y \in FileRow /\ files[f] \in FileRow
          /\ y.enabled = files[f].enabled /\ y.epoch = files[f].epoch
          /\ y.revision = files[f].revision /\ y.content = files[f].content
          /\ y.lastJob = files[f].lastJob
      BY <2>1, <2>3
    <3>2. files'[f] = y \/ files'[f] = files[f]
      BY <2>2
    <3>. HIDE DEF y
    <3>. QED BY <3>1, <3>2 DEF SameFile
  <2>5. files' \in [File -> FileRow]
    BY <2>2, <2>4
  <2>. QED BY <2>2, <2>4, <2>5
<1>3. CASE WriteFile(r, j)
  <2>. DEFINE f == At(r)
  <2>1. CASE Verdict(r, j, f) = "apply"
    <3>1. files' = [files EXCEPT ![f].content = runs[r].base.content \cup runs[r].seen[f],
                                 ![f].revision = @ + 1, ![f].lastJob = j]
      BY <1>3, <2>1 DEF WriteFile
    <3>2. files[f] \in FileRow /\ files[f].revision + 1 \in Nat
      BY <1>0 DEF TypeInv, FileRow
    <3>3. runs[r].base.content \cup runs[r].seen[f] \in SUBSET Turn
      BY <1>0 DEF Run, Draft
    <3>4. \A n \in Nat, x \in SUBSET Turn :
            LET z == [files[f] EXCEPT !.content = x, !.revision = n, !.lastJob = j] IN
            /\ z \in FileRow /\ z.content = x /\ z.revision = n /\ z.lastJob = j
            /\ z.enabled = files[f].enabled /\ z.epoch = files[f].epoch
      BY <1>0, <3>2 DEF FileRow
    <3>. DEFINE z == [files[f] EXCEPT !.content = runs[r].base.content \cup runs[r].seen[f],
                                      !.revision = files[f].revision + 1, !.lastJob = j]
    <3>5. files' = [files EXCEPT ![f] = z]
      BY <1>0, <3>1 DEF TypeInv
    <3>6. /\ z \in FileRow /\ z.content = runs[r].base.content \cup runs[r].seen[f]
          /\ z.revision = files[f].revision + 1 /\ z.lastJob = j
          /\ z.enabled = files[f].enabled /\ z.epoch = files[f].epoch
      BY <3>2, <3>3, <3>4
    <3>. HIDE DEF z
    <3>7. files'[f] = z /\ files' \in [File -> FileRow] /\ \A g \in File : g # f => files'[g] = files[g]
      BY <1>0, <3>5, <3>6 DEF TypeInv
    <3>8. cut' = cut /\ runs[r].pc = "write"
      BY <1>3 DEF WriteFile
    <3>. QED BY <2>1, <3>6, <3>7, <3>8 DEF Written
  <2>2. CASE Verdict(r, j, f) # "apply"
    BY <1>1, <1>3, <2>2 DEF WriteFile
  <2>. QED BY <2>1, <2>2
<1>. QED
  BY <1>1, <1>2, <1>3 DEF Consolidate, Throws, Finalize, Load, Gate, GateLeases, Read, CheckResult,
              ReadCurrent, KeepsFile, CuratorFails, CallsWrite, Report, Hook, memory

LEMMA HandlerConsidered ==
  ASSUME TypeInv, NEW r \in Runner, Consolidate(r)
  PROVE  considered' \in [File -> SUBSET Turn] /\ \A f \in File : considered[f] \subseteq considered'[f]
<1>1. At(r) \in File /\ runs[r] \in Run
  BY AtFile DEF Consolidate
<1>2. runs[r].seen[At(r)] \subseteq Turn
  BY <1>1 DEF Run
<1>3. \/ UNCHANGED considered
      \/ considered' = [considered EXCEPT ![At(r)] = @ \cup runs[r].seen[At(r)]]
  BY DEF Consolidate, Throws, Finalize, Load, Refresh, Gate, GateLeases, Read, CheckResult,
         ReadCurrent, KeepsFile, CuratorFails, CallsWrite, WriteFile, Report, Hook
<1>. QED BY <1>1, <1>2, <1>3 DEF TypeInv

LEMMA HandlerJobs ==
  ASSUME TypeInv, NEW r \in Runner, Consolidate(r)
  PROVE  /\ jobs' \in [Job -> JobRow]
         /\ \A k \in Job : SameJob(k) /\ (jobs'[k].status = "running" => jobs'[k].attempts >= 1)
<1>. DEFINE j == runs[r].job
<1>0. j \in Job /\ runs[r] \in Run
  BY AtFile DEF Consolidate
<1>1. CASE UNCHANGED jobs
  BY <1>1 DEF SameJob, TypeInv
<1>2. CASE Report(r, j) /\ jobs' # jobs
  <2>1. jobs[j].status = "running"
    BY <1>2 DEF Report
  <2>2. jobs[j] \in JobRow /\ jobs[j].attempts >= 1
    BY <1>0, <2>1 DEF TypeInv
  <2>3. PICK st \in {"done", "failed", "pending"}, n \in {jobs[j].attempts, jobs[j].attempts - 1} :
          jobs' = [jobs EXCEPT ![j].holder = Null, ![j].status = st, ![j].attempts = n]
    BY <1>2 DEF Report
  <2>4. n \in 0..MaxAttempts
    BY <2>2, <2>3, MemoryAssumption DEF JobRow, MemoryAssumption
  <2>. DEFINE z == [jobs[j] EXCEPT !.holder = Null, !.status = st, !.attempts = n]
  <2>5. jobs' = [jobs EXCEPT ![j] = z]
    BY <1>0, <2>3 DEF TypeInv
  <2>6. /\ z \in JobRow /\ z.status = st /\ z.generation = jobs[j].generation
        /\ z.convGeneration = jobs[j].convGeneration /\ z.epochs = jobs[j].epochs
        /\ z.window = jobs[j].window
    BY <2>2, <2>3, <2>4 DEF JobRow
  <2>. HIDE DEF z
  <2>7. jobs'[j] = z /\ jobs' \in [Job -> JobRow] /\ \A k \in Job : k # j => jobs'[k] = jobs[k]
    BY <1>0, <2>5, <2>6 DEF TypeInv
  <2>. QED BY <1>0, <2>1, <2>3, <2>6, <2>7 DEF SameJob, TypeInv
<1>. QED
  BY <1>1, <1>2 DEF Consolidate, Throws, Finalize, Load, Refresh, Gate, GateLeases, Read, CheckResult,
         ReadCurrent, KeepsFile, CuratorFails, CallsWrite, WriteFile, Hook

LEMMA HandlerStates ==
  ASSUME TypeInv, NEW r \in Runner, Consolidate(r)
  PROVE  LET j == runs[r].job IN
         \/ UNCHANGED states
         \/ /\ runs[r].pc \in {"nothing", "finalize"} /\ ~runs[r].failed /\ ~Superseded(j)
            /\ states' = [states EXCEPT ![Source(j)][j[2]].processed = jobs[j].generation]
  BY DEF Consolidate, Finalize

\* Why a job is through with the file its execution is at, or with one that it
\* does not even want.
Reason(r, f) ==
  LET j == runs[r].job IN
  \/ ~files[f].enabled \/ files[f].epoch # jobs[j].epochs[f]
  \/ f = Project /\ ~CanEdit(j[2])
  \/ f # Project /\ ~AppAllowed(Source(j))
  \/ runs[r].seen[f] \subseteq considered'[f]
  \/ Superseded(j)
  \/ activity[Source(j)].generation # jobs[j].convGeneration

LEMMA HandlerResults ==
  ASSUME TypeInv, NEW r \in Runner, Consolidate(r)
  PROVE  /\ results' \subseteq Job \X File /\ results \subseteq results'
         /\ \A k \in Job, f \in File : <<k, f>> \in results' \ results =>
              /\ k = runs[r].job
              /\ \/ runs[r].pc = "transcript" /\ f \in Past(k)
                 \/ runs[r].pc \in {"current", "curate", "write"} /\ f = At(r) /\ Reason(r, f)
<1>. DEFINE j == runs[r].job
            Goal == /\ results' \subseteq Job \X File /\ results \subseteq results'
                    /\ \A k \in Job, f \in File : <<k, f>> \in results' \ results =>
                         /\ k = j
                         /\ \/ runs[r].pc = "transcript" /\ f \in Past(k)
                            \/ runs[r].pc \in {"current", "curate", "write"} /\ f = At(r) /\ Reason(r, f)
<1>0. j \in Job /\ runs[r] \in Run /\ At(r) \in File /\ results \subseteq Job \X File
  BY AtFile DEF Consolidate, TypeInv
<1>1. CASE UNCHANGED results
  BY <1>0, <1>1
<1>2. CASE Read(r, j)
  <2>1. runs[r].pc = "transcript" /\ results' = results \cup ({j} \X Past(j))
    BY <1>2 DEF Read, Past, Asked
  <2>2. Past(j) \subseteq File
    BY DEF Past, Asked
  <2>. QED BY <1>0, <2>1, <2>2
<1>3. ASSUME results' = results \cup {<<j, At(r)>>}, runs[r].pc \in {"current", "curate", "write"},
             Reason(r, At(r))
      PROVE  Goal
  BY <1>0, <1>3
<1>4. CASE ReadCurrent(r, j)
  BY <1>1, <1>3, <1>4 DEF ReadCurrent, Reason
<1>5. CASE KeepsFile(r, j)
  <2>1. runs[r].seen[At(r)] \subseteq considered'[At(r)]
    BY <1>0, <1>5 DEF KeepsFile, TypeInv
  <2>. QED BY <1>3, <1>5, <2>1 DEF KeepsFile, Reason
<1>6. CASE CallsWrite(r, j)
  BY <1>1, <1>3, <1>6 DEF CallsWrite, Reason
<1>7. CASE WriteFile(r, j)
  <2>. DEFINE f == At(r)
  <2>1. CASE Verdict(r, j, f) \in {"noisy", "conflict"}
    BY <1>1, <1>7, <2>1 DEF WriteFile
  <2>2. CASE Verdict(r, j, f) \notin {"noisy", "conflict"}
    <3>1. results' = results \cup {<<j, f>>} /\ runs[r].pc = "write"
      BY <1>7, <2>2 DEF WriteFile
    <3>2. CASE Verdict(r, j, f) \in {"again", "apply"}
      <4>1. runs[r].seen[f] \subseteq considered'[f]
        BY <1>0, <1>7, <3>2 DEF WriteFile, TypeInv
      <4>. QED BY <1>3, <3>1, <4>1 DEF Reason
    <3>3. CASE Verdict(r, j, f) \notin {"again", "apply"}
      <4>1. \/ ~files[f].enabled \/ files[f].epoch # jobs[j].epochs[f]
            \/ f # Project /\ ~AppAllowed(Source(j))
            \/ Superseded(j) \/ activity[Source(j)].generation # jobs[j].convGeneration
        BY <2>2, <3>3 DEF Verdict
      <4>. QED BY <1>3, <3>1, <4>1 DEF Reason
    <3>. QED BY <3>2, <3>3
  <2>. QED BY <2>1, <2>2
<1>8. \/ UNCHANGED results \/ Read(r, j) \/ ReadCurrent(r, j) \/ KeepsFile(r, j) \/ CallsWrite(r, j)
      \/ WriteFile(r, j)
  BY DEF Consolidate, Throws, Finalize, Load, Refresh, Gate, GateLeases, CheckResult, CuratorFails,
         Report, Hook
<1>. QED BY <1>1, <1>2, <1>4, <1>5, <1>6, <1>7, <1>8

-----------------------------------------------------------------------------
(* Type correctness, concluded                                             *)

\* A claim changes who works on a job and how often it was tried, and starts an
\* execution at the beginning.
LEMMA ClaimSteps ==
  ASSUME TypeInv, NEW r \in Runner, NEW j \in Job, Claim(r, j)
  PROVE  /\ jobs' \in [Job -> JobRow]
         /\ \A k \in Job : jobs'[k].status = "running" => jobs'[k].attempts >= 1
         /\ (jobs[j].status # "absent" /\ \A k \in Job : SameJob(k))
         /\ runs[r].pc = "idle"
         /\ \E x \in Run : Moved(r, x) /\ x.pc = "load" /\ x.job = j
         /\ UNCHANGED <<talk, memory, results, people, considered>>
<1>. DEFINE n == jobs[j].attempts + 1
            z == [jobs[j] EXCEPT !.status = "running", !.attempts = n, !.holder = r]
            x == [IdleRun EXCEPT !.pc = "load", !.job = j, !.attempt = n]
<1>1. jobs[j] \in JobRow /\ n \in 0..MaxAttempts /\ n >= 1
  BY MemoryAssumption DEF MemoryAssumption, Claim, TypeInv, JobRow
<1>2. jobs' = [jobs EXCEPT ![j] = z] /\ runs' = [runs EXCEPT ![r] = x] /\ runs[r].pc = "idle"
  BY DEF Claim, TypeInv
<1>3. jobs[j].status # "absent"
  BY DEF Claim, Orphaned
<1>. HIDE DEF n
<1>4. /\ z \in JobRow /\ z.attempts = n /\ z.generation = jobs[j].generation /\ z.status = "running"
      /\ z.convGeneration = jobs[j].convGeneration /\ z.epochs = jobs[j].epochs
      /\ z.window = jobs[j].window
  BY <1>1 DEF JobRow
<1>5. x \in Run /\ x.pc = "load" /\ x.job = j
  BY <1>1, IdleTypes DEF Run, RunPc
<1>. HIDE DEF z, x
<1>6. jobs' \in [Job -> JobRow] /\ jobs'[j] = z /\ \A k \in Job : k # j => jobs'[k] = jobs[k]
  BY <1>2, <1>4 DEF TypeInv
<1>7. \A k \in Job : SameJob(k) /\ (jobs'[k].status = "running" => jobs'[k].attempts >= 1)
  <2>. SUFFICES ASSUME NEW k \in Job
                PROVE  SameJob(k) /\ (jobs'[k].status = "running" => jobs'[k].attempts >= 1)
    OBVIOUS
  <2>1. CASE k = j
    BY <1>1, <1>3, <1>4, <1>6, <2>1 DEF SameJob
  <2>2. CASE k # j
    BY <1>6, <2>2 DEF SameJob, TypeInv
  <2>. QED BY <2>1, <2>2
<1>8. UNCHANGED <<talk, memory, results, people, considered>>
  BY DEF Claim
<1>9. \E y \in Run : Moved(r, y) /\ y.pc = "load" /\ y.job = j
  BY <1>2, <1>5 DEF Moved
<1>. QED BY <1>2, <1>3, <1>6, <1>7, <1>8, <1>9

LEMMA AbandonSteps ==
  ASSUME TypeInv, NEW j \in Job, Abandon(j)
  PROVE  /\ jobs' \in [Job -> JobRow]
         /\ \A k \in Job : SameJob(k) /\ (jobs'[k].status = "running" => jobs'[k].attempts >= 1)
         /\ UNCHANGED <<talk, memory, results, runs, people, spent, considered>>
<1>. DEFINE z == [jobs[j] EXCEPT !.status = "failed", !.holder = Null]
<1>1. jobs[j] \in JobRow /\ jobs[j].status = "running" /\ jobs' = [jobs EXCEPT ![j] = z]
  BY DEF Abandon, Orphaned, TypeInv
<1>2. /\ z \in JobRow /\ z.generation = jobs[j].generation /\ z.status = "failed"
      /\ z.convGeneration = jobs[j].convGeneration /\ z.epochs = jobs[j].epochs
      /\ z.window = jobs[j].window
  BY <1>1 DEF JobRow
<1>. HIDE DEF z
<1>3. jobs' \in [Job -> JobRow] /\ jobs'[j] = z /\ \A k \in Job : k # j => jobs'[k] = jobs[k]
  BY <1>1, <1>2 DEF TypeInv
<1>4. ASSUME NEW k \in Job
      PROVE  SameJob(k) /\ (jobs'[k].status = "running" => jobs'[k].attempts >= 1)
  <2>1. CASE k = j
    BY <1>1, <1>2, <1>3, <2>1 DEF SameJob
  <2>2. CASE k # j
    BY <1>3, <2>2 DEF SameJob, TypeInv
  <2>. QED BY <2>1, <2>2
<1>. QED BY <1>3, <1>4 DEF Abandon

LEMMA DiesSteps ==
  ASSUME TypeInv, NEW r \in Runner, RunDies(r)
  PROVE  /\ Moved(r, IdleRun)
         /\ UNCHANGED <<talk, memory, jobs, results, people, considered>>
  BY DEF RunDies, Moved

LEMMA QueueTypes ==
  ASSUME TypeInv, \/ \E r \in Runner, j \in Job : Claim(r, j)
                  \/ \E j \in Job : Abandon(j)
                  \/ \E r \in Runner : RunDies(r)
  PROVE  TypeInv'
<1>. USE DEF talk, memory, people
<1>1. ASSUME NEW r \in Runner, NEW j \in Job, Claim(r, j)
      PROVE  TypeInv'
  <2>1. spent' \in 0..MaxEvents
    BY <1>1, DisturbsTypes DEF Claim
  <2>2. PICK x \in Run : Moved(r, x) /\ x.pc = "load" /\ x.job = j
    BY <1>1, ClaimSteps
  <2>3. runs' \in [Runner -> Run]
        /\ \A q \in Runner : /\ runs'[q].pc # "idle" => runs'[q].job \in Job
                             /\ runs'[q].pc = "refresh" => runs'[q].ask # "none"
    BY <2>2, MovedRuns DEF TypeInv
  <2>. QED BY <1>1, <2>1, <2>3, ClaimSteps DEF TypeInv
<1>2. ASSUME NEW j \in Job, Abandon(j)
      PROVE  TypeInv'
  BY <1>2, AbandonSteps DEF TypeInv
<1>3. ASSUME NEW r \in Runner, RunDies(r)
      PROVE  TypeInv'
  <2>1. spent' \in 0..MaxEvents
    BY <1>3, DisturbsTypes DEF RunDies
  <2>2. runs' \in [Runner -> Run]
        /\ \A q \in Runner : /\ runs'[q].pc # "idle" => runs'[q].job \in Job
                             /\ runs'[q].pc = "refresh" => runs'[q].ask # "none"
    BY <1>3, DiesSteps, MovedRuns, IdleTypes DEF TypeInv
  <2>. QED BY <1>3, <2>1, <2>2, DiesSteps DEF TypeInv
<1>. QED BY <1>1, <1>2, <1>3

LEMMA HandlerTypes ==
  ASSUME TypeInv, NEW r \in Runner, Consolidate(r)
  PROVE  TypeInv'
<1>1. PICK x \in Run : /\ Moved(r, x) /\ (x.pc # "idle" => x.job = runs[r].job)
                       /\ (x.pc = "refresh" => x.ask # "none")
  BY HandlerRuns
<1>2. runs[r].job \in Job
  BY AtFile DEF Consolidate
<1>3. runs' \in [Runner -> Run]
      /\ \A q \in Runner : /\ runs'[q].pc # "idle" => runs'[q].job \in Job
                           /\ runs'[q].pc = "refresh" => runs'[q].ask # "none"
  BY <1>1, <1>2, MovedRuns DEF TypeInv
<1>4. spent' \in 0..MaxEvents
  BY DisturbsTypes DEF Consolidate, Throws
<1>5. states' \in [Conv -> [Actor -> StateRow]]
  <2>. DEFINE j == runs[r].job
              c == Source(j)
              a == j[2]
  <2>1. c \in Conv /\ a \in Actor /\ jobs[j].generation \in Nat
    BY <1>2, Sources DEF TypeInv, JobRow
  <2>2. UNCHANGED states \/ states' = [states EXCEPT ![c][a].processed = jobs[j].generation]
    BY HandlerStates
  <2>3. \A n \in Nat : [states[c][a] EXCEPT !.processed = n] \in StateRow
    <3>1. states[c][a] \in StateRow
      <4>. HIDE DEF c, a
      <4>. QED BY <2>1 DEF TypeInv
    <3>. HIDE DEF c, a
    <3>. QED BY <3>1 DEF StateRow
  <2>4. UNCHANGED states \/ states' = [states EXCEPT ![c] =
                               [states[c] EXCEPT ![a] = [states[c][a] EXCEPT !.processed = jobs[j].generation]]]
    BY <2>1, <2>2 DEF TypeInv
  <2>5. [states[c][a] EXCEPT !.processed = jobs[j].generation] \in StateRow
    BY <2>1, <2>3
  <2>. DEFINE z == [states[c][a] EXCEPT !.processed = jobs[j].generation]
  <2>6. z \in StateRow /\ (UNCHANGED states \/ states' = [states EXCEPT ![c] = [states[c] EXCEPT ![a] = z]])
    BY <2>4, <2>5
  <2>. HIDE DEF j, c, a, z
  <2>7. states \in [Conv -> [Actor -> StateRow]] /\ states[c] \in [Actor -> StateRow]
    BY <2>1 DEF TypeInv
  <2>8. [states[c] EXCEPT ![a] = z] \in [Actor -> StateRow]
    BY <2>6, <2>7
  <2>. QED BY <2>6, <2>7, <2>8
<1>6. UNCHANGED <<turns, upTo, curates, private, activity, shared, drafts, reshared>>
  BY DEF Consolidate, people
<1>. QED
  BY <1>3, <1>4, <1>5, <1>6, HandlerFiles, HandlerConsidered, HandlerJobs, HandlerResults DEF TypeInv

LEMMA NextTypes ==
  ASSUME TypeInv, [Next]_vars
  PROVE  TypeInv'
<1>1. CASE UNCHANGED vars
  BY <1>1 DEF vars, talk, memory, people, TypeInv
<1>2. CASE Next
  BY <1>2, TalkTypes, CompleteTypes, ConversationTypes, PeopleTypes, QueueTypes, HandlerTypes DEF Next
<1>. QED BY <1>1, <1>2

\* The tables and the executions keep their types, and a job's attempts stay
\* within its budget although every deferral gives one back.
THEOREM TypeCorrect == Spec => []TypeOK
<1>1. Spec => []TypeInv
  BY InitTypes, NextTypes, PTL DEF Spec
<1>. QED BY <1>1, TypeInvTypes, PTL

-----------------------------------------------------------------------------
(* What any step does to one file, one draft, one execution, one job and   *)
(* the turns                                                               *)

\* A file keeps all but its status, is reset with a new cutoff, is replaced by
\* its editor over the revision that was loaded, or by a curator.
Kept(f) == SameFile(f) /\ cut'[f] = cut[f]
WasReset(f) ==
  /\ files'[f].epoch = files[f].epoch + 1 /\ files'[f].revision = files[f].revision + 1
  /\ files'[f].content = {} /\ cut'[f] = {t \in Turn : turns[t] # "new"}
  /\ files'[f].lastJob = Null
WasSaved(f) ==
  /\ drafts[f] # Null /\ drafts[f].revision = files[f].revision /\ cut'[f] = cut[f]
  /\ files'[f].enabled = files[f].enabled /\ files'[f].epoch = files[f].epoch
  /\ files'[f].revision = files[f].revision + 1 /\ files'[f].content \subseteq drafts[f].content
  /\ files'[f].lastJob = Null
WasLearned(f) ==
  /\ cut'[f] = cut[f]
  /\ \E r \in Runner : Consolidate(r) /\ Written(r) /\ f = At(r)
FileStep(f) == Kept(f) \/ WasReset(f) \/ WasSaved(f) \/ WasLearned(f)

LEMMA ResetSteps ==
  ASSUME TypeInv, NEW fs, NEW on, Reset(fs, on), NEW f \in File
  PROVE  FileStep(f)
<1>1. CASE f \in fs
  <2>1. (f \in on) \in BOOLEAN
    OBVIOUS
  <2>2. /\ Fresh(f, f \in on).revision = files[f].revision + 1
        /\ Fresh(f, f \in on).epoch = files[f].epoch + 1 /\ Fresh(f, f \in on).content = {}
        /\ Fresh(f, f \in on).lastJob = Null
    BY <2>1, FreshTypes
  <2>3. files'[f] = Fresh(f, f \in on) /\ cut'[f] = {t \in Turn : turns[t] # "new"}
    BY <1>1 DEF Reset
  <2>. QED BY <2>2, <2>3 DEF FileStep, WasReset
<1>2. CASE f \notin fs
  BY <1>2 DEF Reset, FileStep, Kept, SameFile
<1>. QED BY <1>1, <1>2

LEMMA SaveSteps ==
  ASSUME TypeInv, NEW g \in File, SaveDraft(g), NEW f \in File
  PROVE  FileStep(f)
<1>1. cut' = cut
  BY DEF SaveDraft
<1>2. PICK content \in SUBSET drafts[g].content :
        files' = IF files[g].enabled /\ files[g].revision = drafts[g].revision
                    /\ content # files[g].content
                 THEN [files EXCEPT ![g].content = content, ![g].revision = @ + 1,
                                    ![g].lastJob = Null,
                                    ![g].status = IF @ = "failed" THEN "idle" ELSE @]
                 ELSE files
  BY DEF SaveDraft
<1>3. CASE files'[f] = files[f]
  BY <1>1, <1>3 DEF FileStep, Kept, SameFile
<1>4. CASE files'[f] # files[f]
  <2>1. f = g /\ files[g].revision = drafts[g].revision
        /\ files' = [files EXCEPT ![g].content = content, ![g].revision = @ + 1,
                                    ![g].lastJob = Null,
                                    ![g].status = IF @ = "failed" THEN "idle" ELSE @]
    BY <1>2, <1>4 DEF TypeInv
  <2>2. files[g] \in FileRow
    BY DEF TypeInv
  <2>3. /\ files'[g].enabled = files[g].enabled /\ files'[g].epoch = files[g].epoch
        /\ files'[g].revision = files[g].revision + 1 /\ files'[g].content = content
        /\ files'[g].lastJob = Null
    BY <2>1, <2>2 DEF TypeInv, FileRow
  <2>. QED BY <1>1, <2>1, <2>3 DEF FileStep, WasSaved, SaveDraft
<1>. QED BY <1>3, <1>4

LEMMA FileSteps ==
  ASSUME TypeInv, [Next]_vars, NEW f \in File
  PROVE  FileStep(f)
<1>1. ASSUME files' = files, cut' = cut
      PROVE  FileStep(f)
  BY <1>1 DEF FileStep, Kept, SameFile
<1>2. CASE UNCHANGED vars
  BY <1>1, <1>2 DEF vars, memory
<1>3. ASSUME NEW t \in Turn, BeginTurn(t) \/ BeginSchedule(t) \/ ReleaseTurn(t) \/ LeaseExpires(t)
      PROVE  FileStep(f)
  BY <1>1, <1>3 DEF BeginTurn, BeginSchedule, ReleaseTurn, LeaseExpires, memory
<1>4. ASSUME NEW t \in Turn, CompleteTurn(t)
      PROVE  FileStep(f)
  <2>1. files'[f] = files[f] \/ files'[f] = [files[f] EXCEPT !.status = "scheduled"]
    BY <1>4 DEF CompleteTurn
  <2>2. files[f] \in FileRow /\ cut' = cut
    BY <1>4 DEF TypeInv, CompleteTurn
  <2>. QED BY <2>1, <2>2 DEF FileStep, Kept, SameFile, FileRow
<1>5. ASSUME NEW c \in Conv, QuietComes(c) \/ DeleteConversation(c)
      PROVE  FileStep(f)
  BY <1>1, <1>5 DEF QuietComes, DeleteConversation, memory
<1>6. CASE ShareOrUnshare \/ \E g \in File : OpenDraft(g)
  BY <1>1, <1>6 DEF ShareOrUnshare, OpenDraft, memory
<1>7. CASE \/ \E a \in Actor : WipePrivate(a)
           \/ \E g \in File : Wipe(g) \/ Disable(g) \/ Enable(g)
  BY <1>7, ResetSteps DEF WipePrivate, Wipe, Disable, Enable
<1>8. CASE \E g \in File : SaveDraft(g)
  BY <1>8, SaveSteps
<1>9. CASE \/ \E r \in Runner, j \in Job : Claim(r, j)
           \/ \E j \in Job : Abandon(j)
           \/ \E r \in Runner : RunDies(r)
  BY <1>1, <1>9 DEF Claim, Abandon, RunDies, memory
<1>10. ASSUME NEW r \in Runner, Consolidate(r)
       PROVE  FileStep(f)
  <2>1. cut' = cut /\ ((\A g \in File : SameFile(g)) \/ Written(r))
    BY <1>10, HandlerFiles
  <2>2. CASE Written(r) /\ f # At(r)
    BY <2>1, <2>2 DEF Written, FileStep, Kept, SameFile
  <2>. QED BY <1>10, <2>1, <2>2 DEF FileStep, Kept, WasLearned
<1>. QED
  BY <1>2, <1>3, <1>4, <1>5, <1>6, <1>7, <1>8, <1>9, <1>10 DEF Next

\* An execution stays as it is, is put aside or started anew, or takes a step
\* of the handler.
RunStep(r) ==
  \/ runs'[r] = runs[r]
  \/ runs'[r].pc = "idle"
  \/ runs'[r].pc = "load" /\ runs'[r].job \in Job /\ jobs[runs'[r].job].status # "absent"
  \/ /\ Consolidate(r) /\ RunEffect(r, runs'[r])
     /\ runs'[r].pc # "idle" => runs'[r].job = runs[r].job

LEMMA RunSteps ==
  ASSUME TypeInv, [Next]_vars, NEW r \in Runner
  PROVE  RunStep(r)
<1>1. ASSUME runs' = runs
      PROVE  RunStep(r)
  BY <1>1 DEF RunStep
<1>2. ASSUME NEW q \in Runner, NEW j \in Job, Claim(q, j)
      PROVE  RunStep(r)
  <2>1. PICK x \in Run : Moved(q, x) /\ x.pc = "load" /\ x.job = j
    BY <1>2, ClaimSteps
  <2>2. jobs[j].status # "absent"
    BY <1>2, ClaimSteps
  <2>3. runs'[r] = x \/ runs'[r] = runs[r]
    BY <2>1, MovedRuns
  <2>. QED BY <2>1, <2>2, <2>3 DEF RunStep
<1>3. ASSUME NEW q \in Runner, RunDies(q)
      PROVE  RunStep(r)
  BY <1>3, DiesSteps, MovedRuns, IdleTypes DEF RunStep
<1>4. ASSUME NEW q \in Runner, Consolidate(q)
      PROVE  RunStep(r)
  <2>1. PICK x \in Run : Moved(q, x) /\ (x.pc # "idle" => x.job = runs[q].job) /\ RunEffect(q, x)
    BY <1>4, HandlerRuns
  <2>2. CASE q = r
    BY <1>4, <2>1, <2>2, MovedRuns DEF RunStep
  <2>3. CASE q # r
    BY <2>1, <2>3, MovedRuns DEF RunStep
  <2>. QED BY <2>2, <2>3
<1>5. CASE UNCHANGED vars
  BY <1>1, <1>5 DEF vars
<1>6. ASSUME NEW t \in Turn, BeginTurn(t) \/ BeginSchedule(t) \/ ReleaseTurn(t) \/ LeaseExpires(t) \/ CompleteTurn(t)
      PROVE  RunStep(r)
  BY <1>1, <1>6 DEF BeginTurn, BeginSchedule, ReleaseTurn, LeaseExpires, CompleteTurn
<1>7. CASE \/ \E c \in Conv : QuietComes(c) \/ DeleteConversation(c)
           \/ ShareOrUnshare \/ \E a \in Actor : WipePrivate(a)
           \/ \E f \in File : Wipe(f) \/ Disable(f) \/ Enable(f) \/ OpenDraft(f) \/ SaveDraft(f)
           \/ \E j \in Job : Abandon(j)
  BY <1>1, <1>7 DEF QuietComes, DeleteConversation, ShareOrUnshare, WipePrivate, Wipe, Disable, Enable,
                    Reset, OpenDraft, SaveDraft, Abandon
<1>. QED
  BY <1>2, <1>3, <1>4, <1>5, <1>6, <1>7 DEF Next

\* A job keeps what it was queued with, or is queued by the end of its turn.
WasQueued(k) ==
  /\ CompleteTurn(k[1]) /\ k[2] \in QueuedFor(k[1])
  /\ jobs'[k] = QueuedJob(k[1], k[2])

LEMMA JobSteps ==
  ASSUME TypeInv, [Next]_vars, NEW k \in Job
  PROVE  SameJob(k) \/ WasQueued(k)
<1>0. k[1] \in Turn /\ jobs[k] \in JobRow
  BY Sources DEF TypeInv
<1>1. ASSUME jobs'[k] = jobs[k]
      PROVE  SameJob(k)
  BY <1>1 DEF SameJob
<1>2. CASE UNCHANGED vars
  BY <1>1, <1>2 DEF vars
<1>3. ASSUME NEW t \in Turn, BeginTurn(t) \/ BeginSchedule(t) \/ ReleaseTurn(t) \/ LeaseExpires(t)
      PROVE  SameJob(k)
  BY <1>1, <1>3 DEF BeginTurn, BeginSchedule, ReleaseTurn, LeaseExpires
<1>4. ASSUME NEW t \in Turn, CompleteTurn(t)
      PROVE  SameJob(k) \/ WasQueued(k)
  <2>1. jobs' = [j \in Job |-> IF j[1] = t /\ j[2] \in QueuedFor(t) THEN QueuedJob(t, j[2])
                                ELSE jobs[j]]
    BY <1>4, CompleteSteps
  <2>. QED BY <1>1, <1>4, <2>1 DEF WasQueued
<1>5. CASE \/ \E c \in Conv : QuietComes(c) \/ DeleteConversation(c)
           \/ ShareOrUnshare \/ \E a \in Actor : WipePrivate(a)
           \/ \E f \in File : Wipe(f) \/ Disable(f) \/ Enable(f) \/ OpenDraft(f) \/ SaveDraft(f)
           \/ \E r \in Runner : RunDies(r)
  BY <1>1, <1>5 DEF QuietComes, DeleteConversation, ShareOrUnshare, WipePrivate, Wipe, Disable, Enable,
                    Reset, OpenDraft, SaveDraft, RunDies
<1>6. ASSUME NEW r \in Runner, NEW j \in Job, Claim(r, j)
      PROVE  SameJob(k)
  BY <1>6, ClaimSteps
<1>7. ASSUME NEW j \in Job, Abandon(j)
      PROVE  SameJob(k)
  BY <1>7, AbandonSteps
<1>8. ASSUME NEW r \in Runner, Consolidate(r)
      PROVE  SameJob(k)
  BY <1>8, HandlerJobs
<1>. QED
  BY <1>2, <1>3, <1>4, <1>5, <1>6, <1>7, <1>8 DEF Next

\* A turn that began has begun, one that ended well stays so, and one that is
\* private stays so; only the end of a turn makes it either.
LEMMA TurnSteps ==
  ASSUME TypeInv, [Next]_vars, NEW t \in Turn
  PROVE  /\ turns[t] = "done" => turns'[t] = "done"
         /\ turns[t] # "new" => turns'[t] # "new"
         /\ turns'[t] = "done" => turns[t] = "done" \/ CompleteTurn(t)
         /\ t \in private => t \in private'
         /\ t \in private' => t \in private \/ (CompleteTurn(t) /\ AppAllowed(ConvOf[t]))
<1>1. ASSUME turns' = turns, private' = private
      PROVE  /\ turns[t] = "done" => turns'[t] = "done"
             /\ turns[t] # "new" => turns'[t] # "new"
             /\ turns'[t] = "done" => turns[t] = "done" \/ CompleteTurn(t)
             /\ t \in private => t \in private'
             /\ t \in private' => t \in private \/ (CompleteTurn(t) /\ AppAllowed(ConvOf[t]))
  BY <1>1
<1>2. CASE UNCHANGED vars
  BY <1>1, <1>2 DEF vars, talk
<1>3. ASSUME NEW u \in Turn, BeginTurn(u) \/ BeginSchedule(u) \/ ReleaseTurn(u) \/ LeaseExpires(u)
      PROVE  /\ turns[t] = "done" => turns'[t] = "done"
             /\ turns[t] # "new" => turns'[t] # "new"
             /\ turns'[t] = "done" => turns[t] = "done"
             /\ private' = private
  BY <1>3 DEF BeginTurn, BeginSchedule, ReleaseTurn, LeaseExpires, TypeInv
<1>4. ASSUME NEW u \in Turn, CompleteTurn(u)
      PROVE  /\ turns[t] = "done" => turns'[t] = "done"
             /\ turns[t] # "new" => turns'[t] # "new"
             /\ turns'[t] = "done" => turns[t] = "done" \/ t = u
             /\ t \in private => t \in private'
             /\ t \in private' => t \in private \/ (t = u /\ AppAllowed(ConvOf[u]))
  <2>1. /\ turns' = [x \in Turn |-> IF x = u THEN "done"
                                    ELSE IF x \in TurnsOf(ConvOf[u]) /\ turns[x] = "lapsed" THEN "lost"
                                    ELSE turns[x]]
        /\ private' = IF AppAllowed(ConvOf[u]) THEN private \cup {u} ELSE private
    BY <1>4 DEF CompleteTurn
  <2>. QED BY <2>1
<1>5. ASSUME NEW c \in Conv, DeleteConversation(c)
      PROVE  /\ turns[t] = "done" => turns'[t] = "done"
             /\ turns[t] # "new" => turns'[t] # "new"
             /\ turns'[t] = "done" => turns[t] = "done"
             /\ private' = private
  BY <1>5 DEF DeleteConversation
<1>6. CASE \/ \E c \in Conv : QuietComes(c)
           \/ ShareOrUnshare \/ \E a \in Actor : WipePrivate(a)
           \/ \E f \in File : Wipe(f) \/ Disable(f) \/ Enable(f) \/ OpenDraft(f) \/ SaveDraft(f)
           \/ \E r \in Runner, j \in Job : Claim(r, j)
           \/ \E j \in Job : Abandon(j)
           \/ \E r \in Runner : Consolidate(r) \/ RunDies(r)
  <2>1. turns' = turns /\ private' = private
    BY <1>6 DEF QuietComes, ShareOrUnshare, WipePrivate, Wipe, Disable, Enable,
                Reset, OpenDraft, SaveDraft, Claim, Abandon, Consolidate, RunDies, talk
  <2>. QED BY <1>1, <2>1
<1>. QED
  BY <1>2, <1>3, <1>4, <1>5, <1>6 DEF Next

\* A draft stays, is loaded from its file, or is gone.
LEMMA DraftSteps ==
  ASSUME TypeInv, [Next]_vars, NEW f \in File
  PROVE  \/ drafts'[f] = drafts[f]
         \/ drafts'[f] = Null
         \/ drafts'[f] = [revision |-> files[f].revision, content |-> files[f].content]
<1>. DEFINE Goal == \/ drafts'[f] = drafts[f]
                    \/ drafts'[f] = Null
                    \/ drafts'[f] = [revision |-> files[f].revision, content |-> files[f].content]
<1>1. ASSUME drafts' = drafts
      PROVE  Goal
  BY <1>1
<1>2. ASSUME NEW g \in File, OpenDraft(g) \/ SaveDraft(g)
      PROVE  Goal
  BY <1>2 DEF OpenDraft, SaveDraft, TypeInv
<1>3. CASE \/ UNCHANGED vars
           \/ \E t \in Turn : BeginTurn(t) \/ BeginSchedule(t) \/ CompleteTurn(t) \/ ReleaseTurn(t) \/ LeaseExpires(t)
           \/ \E c \in Conv : QuietComes(c) \/ DeleteConversation(c)
  BY <1>1, <1>3 DEF vars, people, BeginTurn, BeginSchedule, CompleteTurn, ReleaseTurn, LeaseExpires, QuietComes,
                    DeleteConversation
<1>4. CASE \/ ShareOrUnshare \/ \E a \in Actor : WipePrivate(a)
           \/ \E g \in File : Wipe(g) \/ Disable(g) \/ Enable(g)
  BY <1>1, <1>4 DEF people, ShareOrUnshare, WipePrivate, Wipe, Disable, Enable, Reset
<1>5. CASE \/ \E r \in Runner, j \in Job : Claim(r, j)
           \/ \E j \in Job : Abandon(j)
           \/ \E r \in Runner : Consolidate(r) \/ RunDies(r)
  BY <1>1, <1>5 DEF people, Claim, Abandon, Consolidate, RunDies
<1>. QED BY <1>2, <1>3, <1>4, <1>5 DEF Next

-----------------------------------------------------------------------------
(* The current revision of a file names its content                        *)

\* A draft is of the file as it is, or of an earlier revision.
Names(draft, f) ==
  /\ draft.revision <= files[f].revision
  /\ draft.revision = files[f].revision => draft.content = files[f].content

RevisionInv ==
  /\ \A r \in Runner : runs[r].pc \in {"curate", "write"} => Names(runs[r].base, At(r))
  /\ \A f \in File : drafts[f] # Null => Names(drafts[f], f)

\* Every change of a file's content takes a new revision.
LEMMA NamesKept ==
  ASSUME TypeInv, NEW f \in File, FileStep(f), NEW d \in Draft, Names(d, f)
  PROVE  /\ d.revision <= files'[f].revision
         /\ d.revision = files'[f].revision => d.content = files'[f].content
<1>1. files[f].revision \in Nat /\ d.revision \in Nat /\ d.revision <= files[f].revision
  BY DEF TypeInv, FileRow, Draft, Names
<1>2. CASE Kept(f)
  BY <1>2 DEF Kept, SameFile, Names
<1>3. CASE files'[f].revision = files[f].revision + 1
  BY <1>1, <1>3
<1>. QED BY <1>2, <1>3 DEF FileStep, WasReset, WasSaved, WasLearned, Written

LEMMA RevisionStep ==
  ASSUME TypeInv, RevisionInv, [Next]_vars
  PROVE  RevisionInv'
<1>1. ASSUME NEW r \in Runner, runs'[r].pc \in {"curate", "write"}
      PROVE  Names(runs[r].base, At(r))'
  <2>. DEFINE d == runs'[r].base
              f == At(r)
  <2>1. /\ runs'[r].job = runs[r].job /\ runs'[r].todo = runs[r].todo /\ runs[r].pc # "idle"
        /\ d \in Draft /\ Names(d, f)
    <3>1. CASE runs'[r] = runs[r]
      BY <1>1, <3>1 DEF RevisionInv, TypeInv, Run
    <3>2. CASE runs'[r] # runs[r]
      <4>1. /\ RunEffect(r, runs'[r]) /\ runs'[r].job = runs[r].job /\ Consolidate(r)
        BY <1>1, <3>2, RunSteps DEF RunStep
      <4>2. /\ runs[r].pc \in Reading /\ runs'[r].todo = runs[r].todo
            /\ \/ d = [revision |-> files[f].revision, content |-> files[f].content]
               \/ runs[r].pc = "curate" /\ d = runs[r].base
        BY <1>1, <4>1 DEF RunEffect, Reading
      <4>3. f \in File /\ files[f] \in FileRow /\ runs[r] \in Run
        BY <4>1, AtFile DEF TypeInv, Consolidate
      <4>4. CASE d = [revision |-> files[f].revision, content |-> files[f].content]
        BY <4>1, <4>2, <4>3, <4>4 DEF Names, FileRow, Draft, Reading
      <4>5. CASE runs[r].pc = "curate" /\ d = runs[r].base
        BY <4>1, <4>2, <4>3, <4>5 DEF RevisionInv, Run
      <4>. QED BY <4>2, <4>4, <4>5
    <3>. QED BY <3>1, <3>2
  <2>2. At(r)' = f
    BY <2>1 DEF At
  <2>3. f \in File /\ FileStep(f)
    BY <2>1, AtFile, FileSteps
  <2>. HIDE DEF d, f
  <2>4. /\ d.revision <= files'[f].revision
        /\ d.revision = files'[f].revision => d.content = files'[f].content
    BY <2>1, <2>3, NamesKept
  <2>. QED BY <2>2, <2>4 DEF Names, d
<1>2. ASSUME NEW f \in File, drafts'[f] # Null
      PROVE  Names(drafts[f], f)'
  <2>. DEFINE d == drafts'[f]
  <2>1. d \in Draft /\ Names(d, f)
    <3>1. files[f] \in FileRow
      BY DEF TypeInv
    <3>2. CASE drafts'[f] = drafts[f]
      BY <1>2, <3>2 DEF RevisionInv, TypeInv
    <3>3. CASE drafts'[f] = [revision |-> files[f].revision, content |-> files[f].content]
      BY <3>1, <3>3 DEF Names, FileRow, Draft
    <3>. QED BY <1>2, <3>2, <3>3, DraftSteps
  <2>2. FileStep(f)
    BY FileSteps
  <2>. HIDE DEF d
  <2>4. /\ d.revision <= files'[f].revision
        /\ d.revision = files'[f].revision => d.content = files'[f].content
    BY <2>1, <2>2, NamesKept
  <2>. QED BY <2>4 DEF Names, d
<1>. QED BY <1>1, <1>2 DEF RevisionInv

\* Whoever holds the current revision of a file holds its current content.
THEOREM RevisionsCorrect == Spec => []RevisionNamesContent
<1>1. Init => TypeInv /\ RevisionInv
  BY InitTypes DEF Init, RevisionInv, IdleRun
<1>2. TypeInv /\ RevisionInv /\ [Next]_vars => TypeInv' /\ RevisionInv'
  BY NextTypes, RevisionStep
<1>3. RevisionInv => RevisionNamesContent
  BY DEF RevisionInv, RevisionNamesContent, Names
<1>. QED BY <1>1, <1>2, <1>3, PTL DEF Spec

-----------------------------------------------------------------------------
(* What any step does to a conversation and its participants               *)

\* A conversation stays, with its turns that ended well, or takes one more of
\* them, or is deleted; its participants' records stay but for a generation
\* that is processed.
ConvStays(c) ==
  /\ activity'[c].generation = activity[c].generation /\ activity'[c].deleted = activity[c].deleted
  /\ activity'[c].curator = activity[c].curator /\ activity'[c].window = activity[c].window
  /\ Done(c)' = Done(c)
StatesStay(c) == \A a \in Actor : states'[c][a] = states[c][a]
TurnEnded(c, t) ==
  /\ CompleteTurn(t) /\ ConvOf[t] = c
  /\ activity'[c].generation = activity[c].generation + 1 /\ activity'[c].window = upTo[t]
  /\ activity[c].deleted = FALSE /\ activity'[c].deleted = FALSE
  /\ activity'[c].curator = Curator(t) /\ Done(c)' = DoneWith(t)
WasProcessed(c, r) ==
  LET j == runs[r].job IN
  /\ Consolidate(r) /\ Source(j) = c
  /\ runs[r].pc \in {"nothing", "finalize"} /\ ~runs[r].failed /\ ~Superseded(j)
  /\ \A a \in Actor :
       states'[c][a] = IF a = j[2] THEN [states[c][a] EXCEPT !.processed = jobs[j].generation]
                       ELSE states[c][a]
WasDeleted(c) ==
  /\ activity'[c].deleted = TRUE /\ activity'[c].curator = Null /\ Done(c)' = Done(c)
  /\ \A a \in Actor : states'[c][a] = NoState

LEMMA ActivitySteps ==
  ASSUME TypeInv, [Next]_vars, NEW c \in Conv
  PROVE  \/ ConvStays(c)
         \/ \E t \in Turn : TurnEnded(c, t)
         \/ /\ DeleteConversation(c) /\ activity'[c].deleted = TRUE /\ activity'[c].curator = Null
            /\ Done(c)' = Done(c)
<1>. DEFINE Deleted == /\ DeleteConversation(c) /\ activity'[c].deleted = TRUE
                       /\ activity'[c].curator = Null /\ Done(c)' = Done(c)
<1>0. activity[c] \in ActivityRow
  BY DEF TypeInv
<1>1. ASSUME activity' = activity, turns' = turns
      PROVE  ConvStays(c)
  BY <1>1 DEF ConvStays, Done, TurnsOf
<1>2. ASSUME NEW t \in Turn, BeginTurn(t) \/ BeginSchedule(t) \/ ReleaseTurn(t) \/ LeaseExpires(t)
      PROVE  ConvStays(c)
  <2>1. \/ activity' = activity
        \/ activity' = [activity EXCEPT ![ConvOf[t]].noisy = TRUE]
    BY <1>2 DEF BeginTurn, BeginSchedule, ReleaseTurn, LeaseExpires
  <2>2. \A u \in Turn : turns'[u] = "done" <=> turns[u] = "done"
    BY <1>2 DEF BeginTurn, BeginSchedule, ReleaseTurn, LeaseExpires, TypeInv
  <2>3. Done(c)' = Done(c)
    BY <2>2 DEF Done, TurnsOf
  <2>4. ConvOf[t] \in Conv
    BY Sources
  <2>5. /\ activity'[c].generation = activity[c].generation
        /\ activity'[c].deleted = activity[c].deleted
        /\ activity'[c].curator = activity[c].curator /\ activity'[c].window = activity[c].window
    BY <1>0, <2>1, <2>4 DEF TypeInv, ActivityRow
  <2>. QED BY <2>3, <2>5 DEF ConvStays
<1>3. ASSUME NEW t \in Turn, CompleteTurn(t)
      PROVE  ConvStays(c) \/ TurnEnded(c, t)
  <2>. DEFINE d == ConvOf[t]
  <2>1. /\ d \in Conv /\ ~activity[d].deleted
        /\ activity' = [activity EXCEPT ![d].generation = @ + 1, ![d].window = upTo[t],
                                        ![d].curator = Curator(t), ![d].noisy = TRUE]
        /\ turns' = [u \in Turn |-> IF u = t THEN "done"
                                    ELSE IF u \in TurnsOf(d) /\ turns[u] = "lapsed" THEN "lost"
                                    ELSE turns[u]]
    BY <1>3, Sources DEF CompleteTurn
  <2>2. CASE d = c
    <3>1. Done(c)' = DoneWith(t)
      BY <2>1, <2>2 DEF Done, DoneWith, TurnsOf
    <3>2. /\ activity'[c].generation = activity[c].generation + 1
          /\ activity'[c].deleted = activity[c].deleted
          /\ activity'[c].curator = Curator(t) /\ activity'[c].window = upTo[t]
      BY <1>0, <2>1, <2>2 DEF TypeInv, ActivityRow
    <3>3. activity[c].deleted = FALSE
      BY <1>0, <2>1, <2>2 DEF ActivityRow
    <3>. QED BY <1>3, <2>2, <3>1, <3>2, <3>3 DEF TurnEnded
  <2>3. CASE d # c
    <3>1. Done(c)' = Done(c)
      BY <2>1, <2>3 DEF Done, TurnsOf
    <3>2. activity'[c] = activity[c]
      BY <2>1, <2>3 DEF TypeInv
    <3>. QED BY <3>1, <3>2 DEF ConvStays
  <2>. QED BY <2>2, <2>3
<1>4. ASSUME NEW d \in Conv, QuietComes(d)
      PROVE  ConvStays(c)
  <2>1. Done(c)' = Done(c)
    BY <1>4 DEF QuietComes, Done, TurnsOf
  <2>2. /\ activity'[c].generation = activity[c].generation
        /\ activity'[c].deleted = activity[c].deleted
        /\ activity'[c].curator = activity[c].curator /\ activity'[c].window = activity[c].window
    BY <1>0, <1>4 DEF QuietComes, TypeInv, ActivityRow
  <2>. QED BY <2>1, <2>2 DEF ConvStays
<1>5. ASSUME NEW d \in Conv, DeleteConversation(d)
      PROVE  ConvStays(c) \/ Deleted
  <2>1. Done(c)' = Done(c)
    BY <1>5 DEF DeleteConversation, Done, TurnsOf, TypeInv
  <2>2. activity' = [activity EXCEPT ![d] = [generation |-> 0, window |-> {}, curator |-> Null,
                                             noisy |-> FALSE, deleted |-> TRUE]]
    BY <1>5 DEF DeleteConversation
  <2>. QED BY <1>5, <2>1, <2>2 DEF TypeInv, ConvStays
<1>6. ConvStays(c) \/ Deleted \/ \E t \in Turn : TurnEnded(c, t)
  <2>. HIDE DEF Deleted
  <2>1. CASE \E t \in Turn : \/ BeginTurn(t) \/ BeginSchedule(t) \/ ReleaseTurn(t) \/ LeaseExpires(t)
                             \/ CompleteTurn(t)
    BY <1>2, <1>3, <2>1
  <2>2. CASE \E d \in Conv : QuietComes(d) \/ DeleteConversation(d)
    BY <1>4, <1>5, <2>2
  <2>3. CASE activity' = activity /\ turns' = turns
    BY <1>1, <2>3
  <2>4. \/ \E t \in Turn : \/ BeginTurn(t) \/ BeginSchedule(t) \/ ReleaseTurn(t) \/ LeaseExpires(t)
                           \/ CompleteTurn(t)
        \/ \E d \in Conv : QuietComes(d) \/ DeleteConversation(d)
        \/ activity' = activity /\ turns' = turns
    BY DEF Next, vars, talk, ShareOrUnshare, WipePrivate, Wipe, Disable, Enable, Reset, OpenDraft,
           SaveDraft, Claim, Abandon, Consolidate, RunDies
  <2>. QED BY <2>1, <2>2, <2>3, <2>4
<1>. QED BY <1>6

LEMMA ConvSteps ==
  ASSUME TypeInv, [Next]_vars, NEW c \in Conv
  PROVE  \/ ConvStays(c) /\ StatesStay(c)
         \/ ConvStays(c) /\ \E r \in Runner : WasProcessed(c, r)
         \/ \E t \in Turn : TurnEnded(c, t)
         \/ WasDeleted(c)
<1>1. CASE /\ DeleteConversation(c) /\ activity'[c].deleted = TRUE /\ activity'[c].curator = Null
           /\ Done(c)' = Done(c)
  BY <1>1 DEF DeleteConversation, TypeInv, WasDeleted
<1>2. CASE ConvStays(c)
  <2>1. ASSUME states' = states
        PROVE  StatesStay(c)
    BY <2>1 DEF StatesStay
  <2>2. ASSUME NEW t \in Turn, BeginTurn(t) \/ BeginSchedule(t) \/ ReleaseTurn(t) \/ LeaseExpires(t)
        PROVE  StatesStay(c)
    BY <2>1, <2>2 DEF BeginTurn, BeginSchedule, ReleaseTurn, LeaseExpires
  <2>3. ASSUME NEW t \in Turn, CompleteTurn(t)
        PROVE  StatesStay(c)
    <3>1. ConvOf[t] # c
      BY <1>2, <2>3 DEF CompleteTurn, ConvStays, TypeInv, ActivityRow
    <3>2. \A d \in Conv, b \in Actor :
            states'[d][b] = IF d # ConvOf[t] THEN states[d][b]
                            ELSE IF /\ Advanced(t)[b].processed < Advanced(t)[b].generation
                                    /\ b \notin QueuedFor(t)
                            THEN ProcessedAt(t, b) ELSE Advanced(t)[b]
      BY <2>3, CompleteSteps
    <3>. QED BY <3>1, <3>2 DEF StatesStay
  <2>4. ASSUME NEW d \in Conv, QuietComes(d) \/ DeleteConversation(d)
        PROVE  StatesStay(c)
    <3>1. CASE QuietComes(d)
      BY <2>1, <3>1 DEF QuietComes
    <3>2. CASE DeleteConversation(d)
      <4>1. d # c
        BY <1>2, <3>2 DEF DeleteConversation, ConvStays, TypeInv
      <4>. QED BY <3>2, <4>1 DEF DeleteConversation, StatesStay
    <3>. QED BY <2>4, <3>1, <3>2
  <2>5. CASE \/ UNCHANGED vars
             \/ ShareOrUnshare \/ \E a \in Actor : WipePrivate(a)
             \/ \E f \in File : Wipe(f) \/ Disable(f) \/ Enable(f) \/ OpenDraft(f) \/ SaveDraft(f)
             \/ \E r \in Runner, j \in Job : Claim(r, j)
             \/ \E j \in Job : Abandon(j)
             \/ \E r \in Runner : RunDies(r)
    <3>1. states' = states
      BY <2>5 DEF vars, talk, ShareOrUnshare, WipePrivate, Wipe, Disable, Enable, Reset, OpenDraft,
                  SaveDraft, Claim, Abandon, RunDies
    <3>. QED BY <1>2, <2>1, <3>1
  <2>6. ASSUME NEW r \in Runner, Consolidate(r)
        PROVE  StatesStay(c) \/ WasProcessed(c, r)
    <3>. DEFINE j == runs[r].job
    <3>1. Source(j) \in Conv /\ j[2] \in Actor
      BY <2>6, AtFile, Sources DEF Consolidate
    <3>2. CASE UNCHANGED states
      BY <2>1, <3>2
    <3>3. CASE /\ runs[r].pc \in {"nothing", "finalize"} /\ ~runs[r].failed /\ ~Superseded(j)
               /\ states' = [states EXCEPT ![Source(j)][j[2]].processed = jobs[j].generation]
      <4>1. CASE Source(j) = c
        <5>1. \A a \in Actor :
                states'[c][a] = IF a = j[2] THEN [states[c][a] EXCEPT !.processed = jobs[j].generation]
                                ELSE states[c][a]
          BY <3>1, <3>3, <4>1 DEF TypeInv
        <5>. QED BY <2>6, <3>3, <4>1, <5>1 DEF WasProcessed
      <4>2. CASE Source(j) # c
        BY <3>1, <3>3, <4>2 DEF TypeInv, StatesStay
      <4>. QED BY <4>1, <4>2
    <3>. QED BY <2>6, <3>2, <3>3, HandlerStates
  <2>. QED BY <1>2, <2>2, <2>3, <2>4, <2>5, <2>6 DEF Next
<1>. QED
  BY <1>1, <1>2, ActivitySteps

\* A turn that ends well moves its actor's window, and nobody else's.
LEMMA EndedWindows ==
  ASSUME TypeInv, NEW t \in Turn, CompleteTurn(t), NEW b \in Actor
  PROVE  /\ states'[ConvOf[t]][b].window = Advanced(t)[b].window
         /\ Advanced(t)[b].window = IF b = ActorOf[t] THEN upTo[t] ELSE states[ConvOf[t]][b].window
<1>. DEFINE c == ConvOf[t]
            s == states[c][b]
            z == Advanced(t)[b]
            w == IF b = ActorOf[t] THEN upTo[t] ELSE s.window
<1>1. c \in Conv /\ s \in StateRow /\ z \in StateRow
  BY Sources, AdvancedTypes DEF TypeInv
<1>2. \/ z = s /\ b # ActorOf[t]
      \/ z = [s EXCEPT !.generation = s.generation + 1, !.window = w,
                       !.project = s.project \/ (b = ActorOf[t] /\ Curator(t) = b)]
  BY DEF Advanced, Rearmed
<1>3. z.window = w
  <2>1. ASSUME NEW n, NEW y, z = [s EXCEPT !.generation = n, !.window = w, !.project = y]
        PROVE  z.window = w
    <3>. HIDE DEF s, z, w
    <3>. QED BY <1>1, <2>1 DEF StateRow
  <2>. QED BY <1>2, <2>1
<1>4. states'[c][b] = z \/ states'[c][b] = ProcessedAt(t, b)
  <2>1. \A d \in Conv, y \in Actor :
          states'[d][y] = IF d # c THEN states[d][y]
                          ELSE IF /\ Advanced(t)[y].processed < Advanced(t)[y].generation
                                  /\ y \notin QueuedFor(t)
                          THEN ProcessedAt(t, y) ELSE Advanced(t)[y]
    BY CompleteSteps
  <2>. QED BY <1>1, <2>1
<1>5. states'[c][b] = z \/ states'[c][b] = [z EXCEPT !.processed = z.generation]
  BY <1>4 DEF ProcessedAt
<1>6. states'[c][b].window = z.window
  <2>. DEFINE n == states'[c][b]
  <2>. HIDE DEF z, n
  <2>1. n = z \/ n = [z EXCEPT !.processed = z.generation]
    BY <1>5 DEF n
  <2>2. n.window = z.window
    BY <1>1, <2>1 DEF StateRow
  <2>. QED BY <2>2 DEF n
<1>. QED BY <1>3, <1>6

-----------------------------------------------------------------------------
(* What the limits of a transcript may drop, and what a window shows       *)

\* Fewer turns of a conversation with more of them may be dropped as well.
LEMMA FewerDropped ==
  ASSUME NEW D, NEW E \in SUBSET Turn, D \subseteq E, NEW S \in SUBSET Turn, NEW T \in SUBSET S,
         S = {} \/ Cardinality(S) + Room <= Cardinality(D)
  PROVE  T = {} \/ Cardinality(T) + Room <= Cardinality(E)
<1>1. IsFiniteSet(E) /\ IsFiniteSet(S) /\ Room \in Nat
  BY MemoryAssumption, FS_Subset DEF MemoryAssumption
<1>2. /\ IsFiniteSet(D) /\ Cardinality(D) <= Cardinality(E)
      /\ IsFiniteSet(T) /\ Cardinality(T) <= Cardinality(S)
  BY <1>1, FS_Subset
<1>3. /\ Cardinality(D) \in Nat /\ Cardinality(E) \in Nat
      /\ Cardinality(S) \in Nat /\ Cardinality(T) \in Nat
  BY <1>1, <1>2, FS_CardinalityType
<1>4. CASE S = {}
  BY <1>4
<1>5. CASE Cardinality(S) + Room <= Cardinality(D)
  BY <1>1, <1>2, <1>3, <1>5
<1>. QED BY <1>4, <1>5

\* What a window shows after a step, and what may be dropped of it then.
ShowsThen(c, a, f, window) ==
  {t \in (Done(c)' \cap window) \ cut'[f] : f = Project \/ (ActorOf[t] = a /\ t \in private')}
MayDropThen(c, dropped) == dropped = {} \/ Cardinality(dropped) + Room <= Cardinality(Done(c)')

LEMMA DoneGrows ==
  ASSUME TypeInv, [Next]_vars, NEW c \in Conv
  PROVE  /\ Done(c) \subseteq Done(c)' /\ Done(c) \subseteq Turn /\ Done(c)' \subseteq Turn
         /\ \A t \in Done(c)' : turns[t] # "new"
<1>1. ASSUME NEW t \in Turn
      PROVE  /\ turns[t] = "done" => turns'[t] = "done"
             /\ turns'[t] = "done" => turns[t] # "new"
  BY TurnSteps DEF CompleteTurn
<1>. QED BY <1>1 DEF Done, TurnsOf

LEMMA DropStays ==
  ASSUME TypeInv, [Next]_vars, NEW c \in Conv, NEW S \in SUBSET Turn, NEW T \in SUBSET S, MayDrop(c, S)
  PROVE  MayDropThen(c, T)
<1>. DEFINE D == Done(c)
            E == Done(c)'
<1>1. D \subseteq E /\ E \in SUBSET Turn /\ (S = {} \/ Cardinality(S) + Room <= Cardinality(D))
  BY DoneGrows DEF MayDrop
<1>. HIDE DEF D, E
<1>2. T = {} \/ Cardinality(T) + Room <= Cardinality(E)
  BY <1>1, FewerDropped
<1>. QED BY <1>2 DEF MayDropThen, E

LEMMA DropLess ==
  ASSUME NEW c \in Conv, NEW S \in SUBSET Turn, NEW T \in SUBSET S, MayDrop(c, S)
  PROVE  MayDrop(c, T)
<1>. DEFINE D == Done(c)
<1>1. D \in SUBSET Turn /\ (S = {} \/ Cardinality(S) + Room <= Cardinality(D))
  BY DEF MayDrop, Done, TurnsOf
<1>. HIDE DEF D
<1>2. T = {} \/ Cardinality(T) + Room <= Cardinality(D)
  BY <1>1, FewerDropped
<1>. QED BY <1>2 DEF MayDrop, D

LEMMA DropLessThen ==
  ASSUME TypeInv, [Next]_vars, NEW c \in Conv, NEW S \in SUBSET Turn, NEW T \in SUBSET S,
         MayDropThen(c, S)
  PROVE  MayDropThen(c, T)
<1>. DEFINE D == Done(c)'
<1>1. D \in SUBSET Turn /\ (S = {} \/ Cardinality(S) + Room <= Cardinality(D))
  BY DoneGrows DEF MayDropThen
<1>. HIDE DEF D
<1>2. T = {} \/ Cardinality(T) + Room <= Cardinality(D)
  BY <1>1, FewerDropped
<1>. QED BY <1>2 DEF MayDropThen, D

-----------------------------------------------------------------------------
(* What jobs and executions are about                                      *)

FilesOf(j) == {j[2], Project}
Queued(j) == jobs[j].status # "absent"

\* A queued job is about a turn that ended well and about its participant's file
\* and the project's as they were then or earlier; an execution has a queued
\* job; cutoffs are about turns that began, private turns have ended well.
WorkInv ==
  /\ \A j \in Job : Queued(j) => turns[j[1]] = "done"
  /\ \A j \in Job, f \in File : Queued(j) /\ jobs[j].epochs[f] # NoEpoch =>
       f \in FilesOf(j) /\ jobs[j].epochs[f] <= files[f].epoch
  /\ \A r \in Runner : runs[r].pc # "idle" => Queued(runs[r].job)
  /\ \A f \in File : cut[f] \subseteq {t \in Turn : turns[t] # "new"}
  /\ private \subseteq {t \in Turn : turns[t] = "done"}

LEMMA EpochsGrow ==
  ASSUME TypeInv, [Next]_vars, NEW f \in File
  PROVE  /\ files[f].epoch \in Nat /\ files[f].epoch <= files'[f].epoch
         /\ files'[f].epoch = files[f].epoch => cut'[f] = cut[f]
         /\ cut'[f] = cut[f] \/ cut'[f] = {t \in Turn : turns[t] # "new"}
<1>1. files[f].epoch \in Nat
  BY DEF TypeInv, FileRow
<1>2. FileStep(f)
  BY FileSteps
<1>. QED BY <1>1, <1>2 DEF FileStep, Kept, SameFile, WasReset, WasSaved, WasLearned, Written

LEMMA WorkInit == Init => WorkInv
<1>. SUFFICES ASSUME Init PROVE WorkInv
  OBVIOUS
<1>1. \A j \in Job : ~Queued(j)
  BY DEF Init, Queued
<1>2. \A r \in Runner : runs[r].pc = "idle"
  BY DEF Init, IdleRun
<1>. QED BY <1>1, <1>2 DEF Init, WorkInv

LEMMA WorkStep ==
  ASSUME TypeInv, WorkInv, [Next]_vars
  PROVE  WorkInv'
<1>1. ASSUME NEW j \in Job, Queued(j)'
      PROVE  /\ turns'[j[1]] = "done"
             /\ \A f \in File : jobs'[j].epochs[f] # NoEpoch =>
                  f \in FilesOf(j) /\ jobs'[j].epochs[f] <= files'[f].epoch
  <2>0. j[1] \in Turn /\ j[2] \in Actor /\ Source(j) \in Conv /\ Source(j) = ConvOf[j[1]]
    BY Sources DEF Source
  <2>1. CASE SameJob(j)
    <3>1. Queued(j) /\ jobs'[j].epochs = jobs[j].epochs
      BY <1>1, <2>1 DEF SameJob, Queued
    <3>2. turns[j[1]] = "done"
      BY <3>1 DEF WorkInv
    <3>3. turns'[j[1]] = "done"
      BY <2>0, <3>2, TurnSteps
    <3>4. ASSUME NEW f \in File, jobs'[j].epochs[f] # NoEpoch
          PROVE  f \in FilesOf(j) /\ jobs'[j].epochs[f] <= files'[f].epoch
      <4>1. f \in FilesOf(j) /\ jobs[j].epochs[f] <= files[f].epoch
        BY <3>1, <3>4 DEF WorkInv
      <4>2. jobs[j].epochs[f] \in Nat
        BY <3>1, <3>4 DEF TypeInv, JobRow
      <4>3. files[f].epoch \in Nat /\ files'[f].epoch \in Nat /\ files[f].epoch <= files'[f].epoch
        BY EpochsGrow, NextTypes DEF TypeInv, FileRow
      <4>. QED BY <3>1, <4>1, <4>2, <4>3
    <3>. QED BY <3>3, <3>4
  <2>2. CASE WasQueued(j)
    <3>. DEFINE t == j[1]
    <3>1. CompleteTurn(t) /\ jobs'[j] = QueuedJob(t, j[2])
      BY <2>2 DEF WasQueued
    <3>2. turns' = [u \in Turn |-> IF u = t THEN "done"
                                   ELSE IF u \in TurnsOf(ConvOf[t]) /\ turns[u] = "lapsed" THEN "lost"
                                   ELSE turns[u]]
      BY <3>1 DEF CompleteTurn
    <3>3. jobs'[j].epochs = [f \in File |-> IF f \in Targets(t, j[2]) THEN files[f].epoch ELSE NoEpoch]
      BY <3>1 DEF QueuedJob
    <3>4. turns'[t] = "done"
      BY <2>0, <3>2
    <3>5. ASSUME NEW f \in File, jobs'[j].epochs[f] # NoEpoch
          PROVE  f \in FilesOf(j) /\ jobs'[j].epochs[f] <= files'[f].epoch
      <4>1. f \in Targets(t, j[2]) /\ jobs'[j].epochs[f] = files[f].epoch
        BY <3>3, <3>5
      <4>2. f \in FilesOf(j)
        BY <2>0, <4>1, AdvancedTypes DEF FilesOf
      <4>. QED BY <4>1, <4>2, EpochsGrow
    <3>. QED BY <3>4, <3>5
  <2>. QED BY <2>1, <2>2, JobSteps
<1>2. ASSUME NEW r \in Runner, runs'[r].pc # "idle"
      PROVE  Queued(runs[r].job)'
  <2>1. runs'[r].job \in Job /\ Queued(runs'[r].job)
    <3>1. CASE runs'[r] = runs[r]
      BY <1>2, <3>1 DEF WorkInv, TypeInv
    <3>2. CASE Consolidate(r) /\ runs'[r].job = runs[r].job
      BY <3>2, AtFile DEF WorkInv, Consolidate
    <3>. QED BY <1>2, <3>1, <3>2, RunSteps DEF RunStep, Queued
  <2>. DEFINE k == runs'[r].job
  <2>2. SameJob(k) \/ WasQueued(k)
    BY <2>1, JobSteps
  <2>3. jobs'[k].status # "absent"
    BY <2>1, <2>2 DEF SameJob, WasQueued, QueuedJob, Queued
  <2>. QED BY <2>3 DEF Queued
<1>3. ASSUME NEW f \in File
      PROVE  cut'[f] \subseteq {t \in Turn : turns'[t] # "new"}
  BY TurnSteps, EpochsGrow DEF WorkInv
<1>4. private' \subseteq {t \in Turn : turns'[t] = "done"}
  <2>1. ASSUME NEW t \in private'
        PROVE  t \in Turn /\ turns'[t] = "done"
    <3>1. t \in Turn
      BY NextTypes DEF TypeInv
    <3>2. CASE t \in private
      BY <3>1, <3>2, TurnSteps DEF WorkInv
    <3>3. CASE CompleteTurn(t)
      BY <3>1, <3>3 DEF CompleteTurn
    <3>. QED BY <2>1, <3>1, <3>2, <3>3, TurnSteps
  <2>. QED BY <2>1
<1>. QED
  BY <1>1, <1>2, <1>3, <1>4 DEF WorkInv, FilesOf

\* What a job was queued with stays.
LEMMA QueuedStays ==
  ASSUME TypeInv, WorkInv, [Next]_vars, NEW j \in Job, Queued(j)
  PROVE  SameJob(j) /\ Queued(j)'
<1>0. j[1] \in Turn /\ turns[j[1]] = "done"
  BY Sources DEF WorkInv
<1>1. SameJob(j)
  BY <1>0, JobSteps DEF WasQueued, CompleteTurn
<1>. QED BY <1>1 DEF SameJob, Queued

\* Only a turn that ends well shows more, unless a cutoff shows less.
LEMMA ShowsStep ==
  ASSUME TypeInv, WorkInv, [Next]_vars, NEW c \in Conv, NEW a \in Actor, NEW f \in File,
         NEW window \in SUBSET Turn
  PROVE  /\ ShowsThen(c, a, f, window) \subseteq Shows(c, a, f, window) \cup (Done(c)' \ Done(c))
         /\ WasReset(f) => ShowsThen(c, a, f, window) = {}
<1>1. cut[f] \subseteq cut'[f]
  BY EpochsGrow DEF WorkInv, TypeInv
<1>2. ASSUME NEW t \in Done(c), t \in private'
      PROVE  t \in private
  <2>1. t \in Turn /\ turns[t] = "done"
    BY DEF Done, TurnsOf
  <2>. QED BY <1>2, <2>1, TurnSteps DEF CompleteTurn
<1>3. ShowsThen(c, a, f, window) \subseteq Shows(c, a, f, window) \cup (Done(c)' \ Done(c))
  BY <1>1, <1>2 DEF ShowsThen, Shows
<1>4. ASSUME WasReset(f)
      PROVE  ShowsThen(c, a, f, window) = {}
  <2>1. Done(c)' \subseteq cut'[f]
    BY <1>4, DoneGrows DEF WasReset
  <2>. QED BY <2>1 DEF ShowsThen
<1>. QED BY <1>3, <1>4

\* What a window shows has ended well.
LEMMA ShowsTurns ==
  ASSUME NEW c \in Conv, NEW a, NEW f \in File, NEW window
  PROVE  Shows(c, a, f, window) \in SUBSET Turn
  BY DEF Shows, Done, TurnsOf

\* The windows of a job whose conversation has not moved on are where the
\* conversation and its participant have got to.
WindowInv ==
  \A j \in Job : Queued(j) /\ ~activity[Source(j)].deleted =>
    /\ jobs[j].convGeneration <= activity[Source(j)].generation
    /\ jobs[j].convGeneration = activity[Source(j)].generation =>
         /\ jobs[j].window[Project] = activity[Source(j)].window
         /\ jobs[j].window[j[2]] = states[Source(j)][j[2]].window

\* The windows that a turn's end queues a job with.
LEMMA QueuedWindows ==
  ASSUME TypeInv, NEW t \in Turn, CompleteTurn(t), NEW a \in Actor
  PROVE  /\ QueuedJob(t, a).convGeneration = activity'[ConvOf[t]].generation
         /\ QueuedJob(t, a).window[Project] = activity'[ConvOf[t]].window
         /\ QueuedJob(t, a).window[a] = states'[ConvOf[t]][a].window
<1>. DEFINE c == ConvOf[t]
<1>0. c \in Conv /\ a \in File /\ a # Project /\ Project \in File
  BY Sources, MemoryAssumption DEF MemoryAssumption
<1>1. activity[c] \in ActivityRow
  BY <1>0 DEF TypeInv
<1>2. activity'[c].generation = activity[c].generation + 1 /\ activity'[c].window = upTo[t]
  <2>1. activity' = [activity EXCEPT ![c].generation = @ + 1, ![c].window = upTo[t],
                                     ![c].curator = Curator(t), ![c].noisy = TRUE]
    BY DEF CompleteTurn
  <2>. HIDE DEF c
  <2>. QED BY <1>0, <1>1, <2>1 DEF TypeInv, ActivityRow
<1>3. /\ QueuedJob(t, a).convGeneration = activity[c].generation + 1
      /\ QueuedJob(t, a).window[Project] = upTo[t]
      /\ QueuedJob(t, a).window[a] = Advanced(t)[a].window
  BY <1>0 DEF QueuedJob
<1>. QED BY <1>2, <1>3, EndedWindows

LEMMA WindowStep ==
  ASSUME TypeInv, WorkInv, WindowInv, [Next]_vars
  PROVE  WindowInv'
<1>. SUFFICES ASSUME NEW j \in Job, Queued(j)', ~activity'[Source(j)].deleted
              PROVE  /\ jobs'[j].convGeneration <= activity'[Source(j)].generation
                     /\ jobs'[j].convGeneration = activity'[Source(j)].generation =>
                          /\ jobs'[j].window[Project] = activity'[Source(j)].window
                          /\ jobs'[j].window[j[2]] = states'[Source(j)][j[2]].window
  BY DEF WindowInv, Source
<1>. DEFINE c == Source(j)
            a == j[2]
<1>0. /\ c \in Conv /\ a \in Actor /\ c = ConvOf[j[1]] /\ j[1] \in Turn
      /\ jobs[j].convGeneration \in Nat /\ activity[c].generation \in Nat
      /\ states[c][a] \in StateRow
  BY Sources DEF TypeInv, JobRow, ActivityRow, Source
<1>1. CASE SameJob(j)
  <2>1. /\ Queued(j) /\ jobs'[j].convGeneration = jobs[j].convGeneration
        /\ jobs'[j].window = jobs[j].window
    BY <1>1 DEF SameJob, Queued
  <2>2. CASE ConvStays(c) /\ states'[c][a].window = states[c][a].window
    BY <2>1, <2>2 DEF WindowInv, ConvStays
  <2>3. ASSUME NEW t \in Turn, TurnEnded(c, t)
        PROVE  /\ jobs'[j].convGeneration <= activity'[c].generation
               /\ jobs'[j].convGeneration # activity'[c].generation
    <3>1. activity[c].deleted = FALSE /\ activity'[c].generation = activity[c].generation + 1
      BY <2>3 DEF TurnEnded
    <3>2. jobs[j].convGeneration <= activity[c].generation
      BY <2>1, <3>1 DEF WindowInv
    <3>. QED BY <1>0, <2>1, <3>1, <3>2
  <2>4. ASSUME NEW r \in Runner, WasProcessed(c, r)
        PROVE  states'[c][a].window = states[c][a].window
    <3>1. \/ states'[c][a] = states[c][a]
          \/ states'[c][a] = [states[c][a] EXCEPT !.processed = jobs[runs[r].job].generation]
      BY <1>0, <2>4 DEF WasProcessed
    <3>. QED BY <1>0, <3>1 DEF StateRow
  <2>5. ~WasDeleted(c)
    BY DEF WasDeleted
  <2>6. StatesStay(c) => states'[c][a].window = states[c][a].window
    BY <1>0 DEF StatesStay
  <2>. HIDE DEF c, a
  <2>7. \/ ConvStays(c) /\ states'[c][a].window = states[c][a].window
        \/ \E t \in Turn : TurnEnded(c, t)
    BY <1>0, <2>4, <2>5, <2>6, ConvSteps
  <2>. QED BY <2>2, <2>3, <2>7 DEF c, a
<1>2. CASE WasQueued(j)
  <2>. DEFINE t == j[1]
  <2>1. CompleteTurn(t) /\ jobs'[j] = QueuedJob(t, a)
    BY <1>2 DEF WasQueued
  <2>2. activity'[c].generation \in Nat
    BY <1>0, NextTypes DEF TypeInv, ActivityRow
  <2>. QED BY <1>0, <2>1, <2>2, QueuedWindows
<1>. QED BY <1>1, <1>2, JobSteps

-----------------------------------------------------------------------------
(* What an execution has seen                                              *)

\* The conversation is no longer where the job was queued.
MovedOn(j) ==
  activity[Source(j)].deleted \/ activity[Source(j)].generation # jobs[j].convGeneration

\* For each file that an execution x still has to write: its participant's own
\* private turns alone for their file; unless the conversation has moved on, all
\* that its job shows but for what the limits drop; and while the file has the
\* epoch of the job, nothing that was cut off.
HasSeen(x, f) ==
  /\ f \in FilesOf(x.job) /\ jobs[x.job].epochs[f] # NoEpoch
  /\ f # Project => x.seen[f] \subseteq private
  /\ MovedOn(x.job) \/ MayDrop(Source(x.job), Transcript(x.job, f) \ x.seen[f])
  /\ jobs[x.job].epochs[f] = files[f].epoch => x.seen[f] \cap cut[f] = {}

SeenInv ==
  \A r \in Runner : runs[r].pc \in Reading =>
    /\ runs[r].todo # {}
    /\ \A f \in runs[r].todo : HasSeen(runs[r], f)

LEMMA MovedStays ==
  ASSUME TypeInv, WorkInv, WindowInv, [Next]_vars, NEW j \in Job, Queued(j)
  PROVE  /\ MovedOn(j) => MovedOn(j)'
         /\ MovedOn(j)' \/ Done(Source(j))' = Done(Source(j))
<1>. DEFINE c == Source(j)
<1>0. /\ c \in Conv /\ jobs[j].convGeneration \in Nat /\ activity[c].generation \in Nat
      /\ activity[c].deleted \in BOOLEAN
  BY Sources DEF TypeInv, JobRow, ActivityRow
<1>1. jobs'[j].convGeneration = jobs[j].convGeneration
  BY QueuedStays DEF SameJob
<1>2. MovedOn(j)' <=> activity'[c].deleted \/ activity'[c].generation # jobs[j].convGeneration
  BY <1>1 DEF MovedOn, Source
<1>3. CASE ConvStays(c)
  BY <1>2, <1>3 DEF ConvStays, MovedOn
<1>4. ASSUME NEW t \in Turn, TurnEnded(c, t)
      PROVE  MovedOn(j)'
  <2>1. activity[c].deleted = FALSE /\ activity'[c].generation = activity[c].generation + 1
    BY <1>4 DEF TurnEnded
  <2>2. jobs[j].convGeneration <= activity[c].generation
    BY <2>1 DEF WindowInv
  <2>. QED BY <1>0, <1>2, <2>1, <2>2
<1>5. CASE activity'[c].deleted = TRUE
  BY <1>2, <1>5
<1>. HIDE DEF c
<1>6. (MovedOn(j) => MovedOn(j)') /\ (MovedOn(j)' \/ Done(c)' = Done(c))
  BY <1>0, <1>3, <1>4, <1>5, ActivitySteps DEF ConvStays
<1>. QED BY <1>6 DEF c

\* What a job shows after a step.
LEMMA TranscriptThen ==
  ASSUME TypeInv, WorkInv, [Next]_vars, NEW j \in Job, Queued(j), NEW f \in File
  PROVE  /\ Transcript(j, f) = Shows(Source(j), j[2], f, jobs[j].window[f])
         /\ Transcript(j, f)' = ShowsThen(Source(j), j[2], f, jobs[j].window[f])
         /\ jobs[j].window[f] \in SUBSET Turn /\ Source(j) \in Conv /\ j[2] \in Actor
         /\ Transcript(j, f) \in SUBSET Turn
<1>1. jobs'[j].window = jobs[j].window
  BY QueuedStays DEF SameJob
<1>2. jobs[j].window[f] \in SUBSET Turn
  BY DEF TypeInv, JobRow
<1>3. Source(j) \in Conv /\ j[2] \in Actor
  BY Sources
<1>4. Transcript(j, f) \in SUBSET Turn
  BY DEF Transcript, Shows, Done, TurnsOf
<1>. QED BY <1>1, <1>2, <1>3, <1>4 DEF Transcript, Shows, ShowsThen, Source

\* While no turn of the conversation ends, the limits drop no more of it.
LEMMA DroppedStays ==
  ASSUME TypeInv, WorkInv, [Next]_vars, NEW j \in Job, Queued(j), NEW f \in File,
         Done(Source(j))' = Done(Source(j)), NEW S \in SUBSET Turn,
         MayDrop(Source(j), Transcript(j, f) \ S)
  PROVE  MayDropThen(Source(j), ShowsThen(Source(j), j[2], f, jobs[j].window[f]) \ S)
<1>. DEFINE c == Source(j)
            T == Transcript(j, f)
            w == jobs[j].window[f]
            U == ShowsThen(c, j[2], f, w)
<1>1. /\ T = Shows(c, j[2], f, w) /\ U = ShowsThen(c, j[2], f, w) /\ w \in SUBSET Turn
      /\ c \in Conv /\ j[2] \in Actor /\ T \in SUBSET Turn
  BY TranscriptThen
<1>. HIDE DEF T, U, w, c
<1>2. U \subseteq T \cup (Done(c)' \ Done(c))
  BY <1>1, ShowsStep
<1>3. U \ S \in SUBSET (T \ S) /\ T \ S \in SUBSET Turn
  BY <1>1, <1>2 DEF c
<1>. DEFINE V == T \ S
            W == U \ S
<1>4. MayDrop(c, V) /\ V \in SUBSET Turn /\ W \in SUBSET V
  BY <1>3 DEF c, T
<1>. HIDE DEF V, W
<1>5. MayDropThen(c, W)
  BY <1>1, <1>4, DropStays
<1>. QED BY <1>5 DEF c, W, U, w

\* Only a new cutoff cuts off what an execution has seen, and that one makes
\* the file's epoch a later one than the job's; only the end of a turn adds to
\* what a job shows, and that moves its conversation on.
LEMMA SeenKept ==
  ASSUME TypeInv, WorkInv, WindowInv, [Next]_vars, NEW x \in Run, x.job \in Job, Queued(x.job),
         NEW f \in File, HasSeen(x, f)
  PROVE  /\ f \in FilesOf(x.job) /\ jobs'[x.job].epochs[f] # NoEpoch
         /\ f # Project => x.seen[f] \subseteq private'
         /\ \/ activity'[Source(x.job)].deleted
            \/ activity'[Source(x.job)].generation # jobs'[x.job].convGeneration
            \/ MayDropThen(Source(x.job),
                           ShowsThen(Source(x.job), x.job[2], f, jobs'[x.job].window[f]) \ x.seen[f])
         /\ jobs'[x.job].epochs[f] = files'[f].epoch => x.seen[f] \cap cut'[f] = {}
<1>. DEFINE j == x.job
<1>1. /\ jobs'[j].epochs = jobs[j].epochs /\ jobs'[j].window = jobs[j].window
      /\ jobs'[j].convGeneration = jobs[j].convGeneration
  BY QueuedStays DEF SameJob
<1>2. /\ f \in FilesOf(j) /\ jobs[j].epochs[f] # NoEpoch
      /\ f # Project => x.seen[f] \subseteq private
      /\ MovedOn(j) \/ MayDrop(Source(j), Transcript(j, f) \ x.seen[f])
      /\ jobs[j].epochs[f] = files[f].epoch => x.seen[f] \cap cut[f] = {}
  BY DEF HasSeen
<1>3. private \subseteq private'
  BY TurnSteps DEF TypeInv
<1>4. jobs[j].epochs[f] = files'[f].epoch => jobs[j].epochs[f] = files[f].epoch /\ cut'[f] = cut[f]
  <2>1. jobs[j].epochs[f] \in Nat /\ jobs[j].epochs[f] <= files[f].epoch
    BY <1>2 DEF TypeInv, JobRow, WorkInv
  <2>2. files[f].epoch \in Nat /\ files'[f].epoch \in Nat
    BY NextTypes DEF TypeInv, FileRow
  <2>. QED BY <2>1, <2>2, EpochsGrow
<1>5. ASSUME ~activity'[Source(j)].deleted, activity'[Source(j)].generation = jobs[j].convGeneration
      PROVE  MayDropThen(Source(j), ShowsThen(Source(j), j[2], f, jobs[j].window[f]) \ x.seen[f])
  <2>1. ~MovedOn(j)'
    BY <1>1, <1>5 DEF MovedOn, Source
  <2>2. ~MovedOn(j) /\ Done(Source(j))' = Done(Source(j))
    BY <2>1, MovedStays
  <2>3. x.seen[f] \in SUBSET Turn
    BY DEF Run
  <2>. DEFINE S == x.seen[f]
  <2>. HIDE DEF j, S
  <2>4. MayDropThen(Source(j), ShowsThen(Source(j), j[2], f, jobs[j].window[f]) \ S)
    BY <1>2, <2>2, <2>3, DroppedStays DEF j, S
  <2>. QED BY <2>4 DEF j, S
<1>. QED BY <1>1, <1>2, <1>3, <1>4, <1>5

LEMMA SeenStep ==
  ASSUME TypeInv, WorkInv, WindowInv, SeenInv, [Next]_vars
  PROVE  SeenInv'
<1>. SUFFICES ASSUME NEW r \in Runner, runs'[r].pc \in Reading
              PROVE  /\ runs'[r].todo # {}
                     /\ \A f \in runs'[r].todo : HasSeen(runs[r], f)'
  BY DEF SeenInv
<1>. DEFINE x == runs'[r]
<1>1. x \in Run /\ x.job \in Job /\ Queued(x.job) /\ x.todo # {} /\ \A f \in x.todo : HasSeen(x, f)
  <2>1. CASE x = runs[r]
    BY <2>1 DEF SeenInv, TypeInv, WorkInv, Reading
  <2>2. CASE x # runs[r]
    <3>1. Consolidate(r) /\ RunEffect(r, x) /\ x.job = runs[r].job
      BY <2>2, RunSteps DEF RunStep, Reading
    <3>2. x \in Run /\ x.job \in Job /\ Queued(x.job)
      BY <3>1, NextTypes, AtFile DEF TypeInv, WorkInv, Consolidate
    <3>. DEFINE j == x.job
    <3>3. CASE /\ runs[r].pc = "transcript" /\ Shown(j, x.seen)
               /\ x.todo = {f \in File : x.seen[f] # {}}
               /\ x.pc = IF x.todo = {} THEN "nothing" ELSE "check"
      <4>1. x.todo # {}
        BY <3>3 DEF Reading
      <4>2. ASSUME NEW f \in x.todo
            PROVE  HasSeen(x, f)
        <5>1. f \in Open(j) /\ x.seen[f] \subseteq Transcript(j, f)
              /\ MayDrop(Source(j), Transcript(j, f) \ x.seen[f])
          BY <3>3, <4>2 DEF Shown
        <5>2. f \in File /\ jobs[j].epochs[f] # NoEpoch
          BY <5>1 DEF Open, Asked
        <5>3. f \in FilesOf(j)
          BY <3>2, <5>2 DEF WorkInv
        <5>4. x.seen[f] \cap cut[f] = {} /\ (f # Project => x.seen[f] \subseteq private)
          BY <5>1 DEF Transcript, Shows
        <5>. QED BY <5>1, <5>2, <5>3, <5>4 DEF HasSeen
      <4>. QED BY <3>2, <4>1, <4>2
    <3>4. CASE /\ runs[r].pc \in Reading /\ x.todo \subseteq runs[r].todo /\ x.todo # {}
               /\ x.seen = runs[r].seen
      BY <3>1, <3>2, <3>4 DEF SeenInv, HasSeen
    <3>5. CASE runs[r].pc \in Reading /\ x.todo = runs[r].todo /\ x.seen = runs[r].seen
      BY <3>4, <3>5 DEF SeenInv
    <3>6. CASE /\ runs[r].pc \in Reading
               /\ x.todo = runs[r].todo \ {At(r)} /\ x.seen = runs[r].seen
               /\ x.pc = IF x.todo = {} THEN "finalize" ELSE "check"
      BY <3>4, <3>6 DEF Reading
    <3>. QED BY <3>1, <3>3, <3>5, <3>6 DEF RunEffect
  <2>. QED BY <2>1, <2>2
<1>2. x.todo \subseteq File
  BY <1>1 DEF Run
<1>3. PICK j \in Job : j = x.job
  BY <1>1
<1>4. ASSUME NEW f \in x.todo
      PROVE  /\ f \in FilesOf(j) /\ jobs'[j].epochs[f] # NoEpoch
             /\ f # Project => x.seen[f] \subseteq private'
             /\ \/ activity'[Source(j)].deleted
                \/ activity'[Source(j)].generation # jobs'[j].convGeneration
                \/ MayDropThen(Source(j), ShowsThen(Source(j), j[2], f, jobs'[j].window[f]) \ x.seen[f])
             /\ jobs'[j].epochs[f] = files'[f].epoch => x.seen[f] \cap cut'[f] = {}
  <2>1. f \in File /\ x \in Run /\ HasSeen(x, f) /\ Queued(x.job)
    BY <1>1, <1>2, <1>4
  <2>2. PICK y \in Run : y = x
    BY <2>1
  <2>3. y.job = j /\ Queued(y.job) /\ HasSeen(y, f)
    BY <1>3, <2>1, <2>2
  <2>. HIDE DEF x
  <2>. QED BY <1>3, <2>1, <2>2, <2>3, SeenKept
<1>5. ASSUME NEW f \in x.todo
      PROVE  HasSeen(runs[r], f)'
  <2>1. MovedOn(j)' \/ MayDrop(Source(j), Transcript(j, f) \ runs[r].seen[f])'
    BY <1>4, <1>5 DEF MovedOn, Source, Transcript, Shows, ShowsThen, MayDrop, MayDropThen, Done, TurnsOf
  <2>. QED BY <1>3, <1>4, <1>5, <2>1 DEF HasSeen, FilesOf
<1>. QED BY <1>1, <1>5

LEMMA AtTodo ==
  ASSUME TypeInv, SeenInv, NEW r \in Runner, runs[r].pc \in Reading
  PROVE  At(r) \in runs[r].todo /\ HasSeen(runs[r], At(r))
<1>1. runs[r].todo # {} /\ \A f \in runs[r].todo : f \in FilesOf(runs[r].job)
  BY DEF SeenInv, HasSeen
<1>2. At(r) \in runs[r].todo
  BY <1>1 DEF FilesOf, At
<1>. QED BY <1>2 DEF SeenInv

-----------------------------------------------------------------------------
(* What was said before a cutoff or in a shared project                    *)

\* What a curator writes it has read in the current revision, or seen.
LEMMA WrittenContent ==
  ASSUME TypeInv, RevisionInv, SeenInv, NEW r \in Runner, Written(r)
  PROVE  LET f == At(r)  j == runs[r].job IN
         /\ files'[f].content = files[f].content \cup runs[r].seen[f]
         /\ HasSeen(runs[r], f) /\ jobs[j].epochs[f] = files[f].epoch
         /\ files[f].enabled /\ runs[r].base.revision = files[f].revision
         /\ ~Superseded(j) /\ activity[Source(j)].generation = jobs[j].convGeneration
         /\ Quiet(Source(j)) /\ (f = Project \/ AppAllowed(Source(j)))
<1>. DEFINE f == At(r)
            j == runs[r].job
<1>1. runs[r].pc = "write" /\ Verdict(r, j, f) = "apply"
  BY DEF Written
<1>2. /\ jobs[j].epochs[f] = files[f].epoch /\ files[f].enabled
      /\ runs[r].base.revision = files[f].revision
      /\ ~Superseded(j) /\ activity[Source(j)].generation = jobs[j].convGeneration
      /\ Quiet(Source(j)) /\ (f = Project \/ AppAllowed(Source(j)))
  BY <1>1 DEF Verdict
<1>3. runs[r].base.content = files[f].content
  BY <1>1, <1>2 DEF RevisionInv, Names
<1>4. HasSeen(runs[r], f)
  BY <1>1, AtTodo DEF Reading
<1>. QED BY <1>2, <1>3, <1>4 DEF Written

ContentInv == ForgottenStaysForgotten /\ AppMemoryIsPrivate

LEMMA ContentStep ==
  ASSUME TypeInv, WorkInv, RevisionInv, SeenInv, ContentInv, [Next]_vars
  PROVE  ContentInv'
<1>1. ASSUME NEW f \in File
      PROVE  /\ files'[f].content \cap cut'[f] = {}
             /\ f # Project => files'[f].content \subseteq private'
  <2>1. files[f].content \cap cut[f] = {} /\ (f # Project => files[f].content \subseteq private)
    BY DEF ContentInv, ForgottenStaysForgotten, AppMemoryIsPrivate, File
  <2>2. private \subseteq private'
    BY TurnSteps DEF TypeInv
  <2>3. CASE Kept(f)
    BY <2>1, <2>2, <2>3 DEF Kept, SameFile
  <2>4. CASE WasReset(f)
    BY <2>4 DEF WasReset
  <2>5. CASE WasSaved(f)
    <3>1. drafts[f].content = files[f].content
      BY <2>5 DEF WasSaved, RevisionInv, Names
    <3>. QED BY <2>1, <2>2, <2>5, <3>1 DEF WasSaved
  <2>6. CASE WasLearned(f)
    <3>1. PICK r \in Runner : Written(r) /\ f = At(r)
      BY <2>6 DEF WasLearned
    <3>2. /\ files'[f].content = files[f].content \cup runs[r].seen[f]
          /\ HasSeen(runs[r], f) /\ jobs[runs[r].job].epochs[f] = files[f].epoch
      BY <3>1, WrittenContent
    <3>3. /\ runs[r].seen[f] \cap cut[f] = {} /\ cut'[f] = cut[f]
          /\ f # Project => runs[r].seen[f] \subseteq private
      BY <2>6, <3>2 DEF HasSeen, WasLearned
    <3>. QED BY <2>1, <2>2, <3>2, <3>3
  <2>. QED BY <2>3, <2>4, <2>5, <2>6, FileSteps DEF FileStep
<1>2. \A a \in Actor : a \in File /\ a # Project
  BY MemoryAssumption DEF MemoryAssumption, File
<1>. QED BY <1>1, <1>2 DEF ContentInv, ForgottenStaysForgotten, AppMemoryIsPrivate

MemoryInv == TypeInv /\ WorkInv /\ WindowInv /\ RevisionInv /\ SeenInv /\ ContentInv

LEMMA MemoryHolds == Spec => []MemoryInv
<1>1. Init => MemoryInv
  <2>. SUFFICES ASSUME Init PROVE MemoryInv
    OBVIOUS
  <2>1. RevisionInv /\ SeenInv
    BY DEF Init, RevisionInv, SeenInv, IdleRun, Reading
  <2>2. ContentInv
    BY Sources DEF Init, ContentInv, ForgottenStaysForgotten, AppMemoryIsPrivate
  <2>3. WindowInv
    BY DEF Init, WindowInv, Queued
  <2>. QED BY <2>1, <2>2, <2>3, InitTypes, WorkInit DEF MemoryInv
<1>2. MemoryInv /\ [Next]_vars => MemoryInv'
  BY NextTypes, WorkStep, WindowStep, RevisionStep, SeenStep, ContentStep DEF MemoryInv
<1>. QED BY <1>1, <1>2, PTL DEF Spec

\* What was said before a wipe, a disabling or an enabling is never learned
\* again, whatever jobs and executions were on their way at the time.
THEOREM ForgettingCorrect == Spec => []ForgottenStaysForgotten
  BY MemoryHolds, PTL DEF MemoryInv, ContentInv

\* What was said in a shared project never gets into anybody's own memory.
THEOREM PrivacyCorrect == Spec => []AppMemoryIsPrivate
  BY MemoryHolds, PTL DEF MemoryInv, ContentInv

-----------------------------------------------------------------------------
(* What a curator has in view when it commits                              *)

LEMMA CommitStep ==
  ASSUME MemoryInv, [Next]_vars, NEW r \in Runner, Applies(r)
  PROVE  LET c == Source(runs[r].job)  a == runs[r].job[2]  f == At(r) IN
         /\ ~Leased(c) /\ (f = Project \/ AppAllowed(c))
         /\ MayDrop(c, Learnable(c, a, f) \ runs[r].seen[f])
<1>. USE DEF MemoryInv
<1>. DEFINE j == runs[r].job
            f == At(r)
            c == Source(j)
            a == j[2]
<1>1. runs[r].pc = "write" /\ files'[f].lastJob = j /\ files'[f].revision # files[f].revision
  BY DEF Applies
<1>2. f \in File /\ j \in Job /\ Queued(j) /\ j # Null
  BY <1>1, AtFile, MemoryAssumption DEF WorkInv, MemoryAssumption
<1>3. WasLearned(f)
  BY <1>1, <1>2, FileSteps DEF FileStep, Kept, SameFile, WasReset, WasSaved
<1>4. PICK q \in Runner : Written(q) /\ f = At(q)
  BY <1>3 DEF WasLearned
<1>5. runs[q].job = j
  BY <1>1, <1>4 DEF Written
<1>6. /\ ~Superseded(j) /\ activity[c].generation = jobs[j].convGeneration
      /\ Quiet(c) /\ (f = Project \/ AppAllowed(c))
  BY <1>4, <1>5, WrittenContent
<1>7. HasSeen(runs[r], f)
  BY <1>1, AtTodo DEF Reading
<1>8. f \in FilesOf(j) /\ MayDrop(c, Transcript(j, f) \ runs[r].seen[f])
  BY <1>6, <1>7 DEF HasSeen, MovedOn, Superseded
<1>9. jobs[j].window[Project] = activity[c].window /\ jobs[j].window[a] = states[c][a].window
  BY <1>2, <1>6 DEF WindowInv, Superseded
<1>10. Transcript(j, f) = Learnable(c, a, f)
  BY <1>8, <1>9 DEF Transcript, Learnable, FilesOf
<1>. QED BY <1>6, <1>8, <1>10 DEF Quiet

\* A curator commits only while nobody is talking in its conversation, and
\* short of what the limits of a transcript drop it has seen all that the
\* file may learn from where the conversation or its participant has got to.
THEOREM CommitsCorrect == Spec => CommitsOnAllThatWasSaid
<1>1. MemoryInv /\ [Next]_vars =>
        [\A r \in Runner : Applies(r) =>
           LET c == Source(runs[r].job)  a == runs[r].job[2]  f == At(r) IN
           /\ ~Leased(c) /\ (f = Project \/ AppAllowed(c))
           /\ MayDrop(c, Learnable(c, a, f) \ runs[r].seen[f])]_vars
  BY CommitStep
<1>. QED BY <1>1, MemoryHolds, PTL DEF Spec, CommitsOnAllThatWasSaid

-----------------------------------------------------------------------------
(* What is processed was considered                                        *)

LEMMA Unshared ==
  ASSUME TypeInv, [Next]_vars, ~reshared'
  PROVE  ~reshared /\ shared' = shared
<1>1. CASE UNCHANGED <<shared, reshared>>
  <2>1. shared' = shared /\ reshared' = reshared
    BY <1>1
  <2>. QED BY <2>1
<1>2. CASE ShareOrUnshare
  <2>1. reshared' = TRUE
    BY <1>2 DEF ShareOrUnshare
  <2>. QED BY <2>1
<1>3. CASE UNCHANGED vars
  BY <1>1, <1>3 DEF vars, people
<1>4. CASE \/ \E t \in Turn : BeginTurn(t) \/ BeginSchedule(t) \/ CompleteTurn(t) \/ ReleaseTurn(t) \/ LeaseExpires(t)
           \/ \E c \in Conv : QuietComes(c) \/ DeleteConversation(c)
  <2>1. UNCHANGED <<shared, reshared>>
    BY <1>4 DEF BeginTurn, BeginSchedule, CompleteTurn, ReleaseTurn, LeaseExpires, QuietComes, DeleteConversation, people
  <2>. QED BY <1>1, <2>1
<1>5. CASE \/ \E a \in Actor : WipePrivate(a)
           \/ \E f \in File : Wipe(f) \/ Disable(f) \/ Enable(f) \/ OpenDraft(f) \/ SaveDraft(f)
  <2>1. UNCHANGED <<shared, reshared>>
    BY <1>5 DEF WipePrivate, Wipe, Disable, Enable, Reset, OpenDraft, SaveDraft, people
  <2>. QED BY <1>1, <2>1
<1>6. CASE \/ \E r \in Runner, j \in Job : Claim(r, j)
           \/ \E j \in Job : Abandon(j)
           \/ \E r \in Runner : Consolidate(r) \/ RunDies(r)
  <2>1. UNCHANGED <<shared, reshared>>
    BY <1>6 DEF Claim, Abandon, Consolidate, RunDies, people
  <2>. QED BY <1>1, <2>1
<1>. QED BY <1>2, <1>3, <1>4, <1>5, <1>6 DEF Next

\* The records after a turn ended well: of those who have nothing to learn from
\* it, and of those whose generation it moves on.
LEMMA EndedStates ==
  ASSUME TypeInv, NEW t \in Turn, CompleteTurn(t), NEW b \in Actor,
         states[ConvOf[t]][b].processed <= states[ConvOf[t]][b].generation
  PROVE  LET c == ConvOf[t] IN
         \/ /\ b # ActorOf[t] /\ states'[c][b] = states[c][b]
            /\ states[c][b].generation > 0 => b # Curator(t) /\ ~Behind(c, b)
            /\ b \notin QueuedFor(t) /\ b \notin Rearmed(t, Curator(t))
         \/ /\ b \in Rearmed(t, Curator(t))
            /\ Advanced(t)[b].generation = states[c][b].generation + 1
            /\ states'[c][b].generation = states[c][b].generation + 1
            /\ states'[c][b].project = Advanced(t)[b].project
            /\ Advanced(t)[b].project <=>
                 (states[c][b].project \/ (b = ActorOf[t] /\ Curator(t) = b))
            /\ \/ b \in QueuedFor(t) /\ states'[c][b].processed = states[c][b].processed
               \/ Targets(t, b) = {} /\ states'[c][b].processed = states'[c][b].generation
<1>. DEFINE c == ConvOf[t]
            s == states[c][b]
            z == Advanced(t)[b]
            n == states'[c][b]
<1>1. c \in Conv /\ s \in StateRow
  BY Sources DEF TypeInv
<1>2. n = IF z.processed < z.generation /\ b \notin QueuedFor(t) THEN ProcessedAt(t, b) ELSE z
  <2>1. \A d \in Conv, y \in Actor :
          states'[d][y] = IF d # c THEN states[d][y]
                          ELSE IF /\ Advanced(t)[y].processed < Advanced(t)[y].generation
                                  /\ y \notin QueuedFor(t)
                          THEN ProcessedAt(t, y) ELSE Advanced(t)[y]
    BY CompleteSteps
  <2>. QED BY <1>1, <2>1
<1>3. /\ s.processed \in Nat /\ s.generation \in Nat /\ s.processed <= s.generation
      /\ s.project \in BOOLEAN
  BY <1>1 DEF StateRow
<1>4. CASE b \notin Rearmed(t, Curator(t))
  <2>1. z = s
    BY <1>4 DEF Advanced
  <2>2. /\ b # ActorOf[t]
        /\ s.generation > 0 => b # Curator(t) /\ ~Behind(c, b)
    BY <1>4 DEF Rearmed
  <2>3. ~(z.processed < z.generation)
    BY <1>3, <2>1, <2>2 DEF Behind
  <2>4. n = s /\ b \notin QueuedFor(t)
    BY <1>2, <2>1, <2>3 DEF QueuedFor
  <2>. QED BY <1>4, <2>2, <2>4
<1>5. CASE b \in Rearmed(t, Curator(t))
  <2>1. z = [s EXCEPT !.generation = s.generation + 1,
                      !.window = IF b = ActorOf[t] THEN upTo[t] ELSE s.window,
                      !.project = s.project \/ (b = ActorOf[t] /\ Curator(t) = b)]
    BY <1>5 DEF Advanced
  <2>2. /\ z.generation = s.generation + 1 /\ z.processed = s.processed
        /\ z.project = (s.project \/ (b = ActorOf[t] /\ Curator(t) = b))
    <3>. HIDE DEF s, z
    <3>. QED BY <1>1, <2>1 DEF StateRow
  <2>3. z.processed < z.generation /\ z \in StateRow
    BY <1>3, <2>2, AdvancedTypes
  <2>4. CASE b \in QueuedFor(t)
    <3>1. n = z
      BY <1>2, <2>4
    <3>. QED BY <1>5, <2>2, <2>4, <3>1
  <2>5. CASE b \notin QueuedFor(t)
    <3>1. Targets(t, b) = {}
      BY <2>3, <2>5 DEF QueuedFor
    <3>2. n = [z EXCEPT !.processed = z.generation]
      BY <1>2, <2>3, <2>5 DEF ProcessedAt
    <3>3. n.generation = z.generation /\ n.project = z.project /\ n.processed = n.generation
      <4>. HIDE DEF n, z
      <4>. QED BY <2>3, <3>2 DEF StateRow
    <3>. QED BY <1>5, <2>2, <3>1, <3>3
  <2>. QED BY <2>4, <2>5
<1>. QED BY <1>4, <1>5

\* While nobody changes the sharing, whoever began a turn can read, whoever
\* curates can edit and takes part for the project, and what is private could
\* be; nobody has more processed than there is.
PeopleInv ==
  /\ \A t \in Turn : turns[t] # "new" => CanRead(ActorOf[t], ConvOf[t])
  /\ \A t \in curates : CanEdit(ActorOf[t])
  /\ \A t \in private : AppAllowed(ConvOf[t])
  /\ \A c \in Conv : activity[c].curator # Null =>
       /\ CanEdit(activity[c].curator) /\ states[c][activity[c].curator].project
       /\ states[c][activity[c].curator].generation > 0
  /\ \A c \in Conv, a \in Actor :
       /\ states[c][a].processed <= states[c][a].generation
       /\ states[c][a].generation > 0 => CanRead(a, c)
       /\ activity[c].deleted => states[c][a].generation = 0

LEMMA PermitSteps ==
  ASSUME TypeInv, [Next]_vars, NEW t \in Turn
  PROVE  /\ turns'[t] # "new" => turns[t] # "new" \/ CanRead(ActorOf[t], ConvOf[t])
         /\ t \in curates' => t \in curates \/ CanEdit(ActorOf[t])
<1>. DEFINE Goal == /\ turns'[t] # "new" => turns[t] # "new" \/ CanRead(ActorOf[t], ConvOf[t])
                    /\ t \in curates' => t \in curates \/ CanEdit(ActorOf[t])
<1>1. ASSUME turns' = turns, curates' = curates
      PROVE  Goal
  BY <1>1
<1>2. ASSUME NEW u \in Turn, BeginTurn(u)
      PROVE  Goal
  BY <1>2 DEF BeginTurn, TypeInv
<1>3. ASSUME NEW u \in Turn, ReleaseTurn(u) \/ LeaseExpires(u) \/ CompleteTurn(u) \/ BeginSchedule(u)
      PROVE  Goal
  <2>1. curates' = curates
    BY <1>3 DEF ReleaseTurn, LeaseExpires, CompleteTurn, BeginSchedule
  <2>2. turns[u] # "new" /\ \A x \in Turn : x # u => turns'[x] = turns[x] \/ turns[x] = "lapsed"
    BY <1>3 DEF ReleaseTurn, LeaseExpires, CompleteTurn, BeginSchedule, TypeInv
  <2>. QED BY <2>1, <2>2
<1>4. ASSUME NEW c \in Conv, DeleteConversation(c)
      PROVE  Goal
  BY <1>4 DEF DeleteConversation, TypeInv
<1>5. \/ turns' = turns /\ curates' = curates
      \/ \E u \in Turn : BeginTurn(u) \/ BeginSchedule(u) \/ ReleaseTurn(u) \/ LeaseExpires(u) \/ CompleteTurn(u)
      \/ \E c \in Conv : DeleteConversation(c)
  BY DEF Next, vars, talk, QuietComes, ShareOrUnshare, WipePrivate, Wipe, Disable, Enable, Reset,
         OpenDraft, SaveDraft, Claim, Abandon, Consolidate, RunDies
<1>. HIDE DEF Goal
<1>6. Goal
  BY <1>1, <1>2, <1>3, <1>4, <1>5
<1>. QED BY <1>6 DEF Goal

\* The curator of a turn that ends well takes part for the project, and its
\* generation moves on.
LEMMA CuratorActs ==
  ASSUME TypeInv, PeopleInv, NEW t \in Turn, CompleteTurn(t), NEW b \in Actor, Curator(t) = b
  PROVE  /\ CanEdit(b) /\ b \in Rearmed(t, Curator(t)) /\ Advanced(t)[b].project
<1>. DEFINE c == ConvOf[t]
<1>0. c \in Conv /\ b # Null
  BY Sources, MemoryAssumption DEF MemoryAssumption
<1>1. states[c][b].processed <= states[c][b].generation
  BY <1>0 DEF PeopleInv
<1>2. CASE t \in curates
  <2>1. b = ActorOf[t] /\ CanEdit(b)
    BY <1>2 DEF Curator, PeopleInv
  <2>2. b \in Rearmed(t, Curator(t))
    BY <2>1 DEF Rearmed
  <2>. QED BY <1>1, <2>1, <2>2, EndedStates
<1>3. CASE t \notin curates
  <2>1. b = activity[c].curator
    BY <1>3 DEF Curator
  <2>2. CanEdit(b) /\ states[c][b].project /\ states[c][b].generation > 0
    BY <1>0, <2>1 DEF PeopleInv
  <2>3. b \in Rearmed(t, Curator(t))
    BY <2>2 DEF Rearmed
  <2>. QED BY <1>1, <2>2, <2>3, EndedStates
<1>. QED BY <1>2, <1>3

LEMMA PeopleStep ==
  ASSUME TypeInv, PeopleInv, [Next]_vars, ~reshared'
  PROVE  PeopleInv'
<1>0. shared' = shared
  BY Unshared
<1>1. ASSUME NEW t \in Turn
      PROVE  /\ turns'[t] # "new" => CanRead(ActorOf[t], ConvOf[t])
             /\ t \in curates' => CanEdit(ActorOf[t])
             /\ t \in private' => AppAllowed(ConvOf[t])
  BY PermitSteps, TurnSteps DEF PeopleInv
<1>2. ASSUME NEW c \in Conv, NEW a \in Actor
      PROVE  /\ states'[c][a].processed <= states'[c][a].generation
             /\ states'[c][a].generation > 0 => CanRead(a, c)
             /\ activity'[c].deleted => states'[c][a].generation = 0
             /\ activity'[c].curator = a =>
                  /\ CanEdit(a) /\ states'[c][a].project /\ states'[c][a].generation > 0
  <2>. DEFINE s == states[c][a]
              n == states'[c][a]
  <2>0. /\ s \in StateRow /\ n \in StateRow /\ s.processed <= s.generation
        /\ s.generation > 0 => CanRead(a, c)
        /\ activity[c].deleted => s.generation = 0
        /\ activity[c].curator = a => CanEdit(a) /\ s.project /\ s.generation > 0
        /\ a # Null
    <3>1. s \in StateRow /\ a # Null
      BY MemoryAssumption DEF TypeInv, MemoryAssumption
    <3>2. n \in StateRow
      BY NextTypes DEF TypeInv
    <3>. QED BY <3>1, <3>2 DEF PeopleInv
  <2>1. CASE ConvStays(c) /\ StatesStay(c)
    <3>1. n = s
      BY <2>1 DEF StatesStay
    <3>. QED BY <2>0, <2>1, <3>1 DEF ConvStays
  <2>2. ASSUME ConvStays(c), NEW r \in Runner, WasProcessed(c, r)
        PROVE  /\ n.processed <= n.generation
               /\ n.generation = s.generation /\ n.project = s.project
    <3>1. n = s \/ (n = [s EXCEPT !.processed = s.generation])
      BY <2>2 DEF WasProcessed, Superseded
    <3>. HIDE DEF n, s
    <3>. QED BY <2>0, <3>1 DEF StateRow
  <2>3. ASSUME NEW t \in Turn, TurnEnded(c, t)
        PROVE  /\ n.processed <= n.generation
               /\ n.generation > 0 => CanRead(a, c)
               /\ activity'[c].deleted => n.generation = 0
               /\ activity'[c].curator = a => CanEdit(a) /\ n.project /\ n.generation > 0
    <3>1. CompleteTurn(t) /\ c = ConvOf[t] /\ activity'[c].curator = Curator(t)
          /\ activity'[c].deleted = FALSE
      BY <2>3 DEF TurnEnded
    <3>2. turns[t] # "new"
      BY <3>1 DEF CompleteTurn
    <3>3. CASE a # ActorOf[t] /\ n = s /\ a \notin Rearmed(t, Curator(t))
      BY <2>0, <3>1, <3>3, CuratorActs
    <3>4. CASE /\ a \in Rearmed(t, Curator(t)) /\ n.generation = s.generation + 1
               /\ n.project = Advanced(t)[a].project
               /\ n.processed = s.processed \/ n.processed = n.generation
      <4>1. n.processed <= n.generation /\ n.generation > 0
        <5>. HIDE DEF n, s
        <5>. QED BY <2>0, <3>4 DEF StateRow
      <4>2. CanRead(a, c)
        BY <2>0, <3>1, <3>2, <3>4 DEF Rearmed, PeopleInv
      <4>. QED BY <3>1, <3>4, <4>1, <4>2, CuratorActs
    <3>5. \/ a # ActorOf[t] /\ n = s /\ a \notin Rearmed(t, Curator(t))
          \/ /\ a \in Rearmed(t, Curator(t)) /\ n.generation = s.generation + 1
             /\ n.project = Advanced(t)[a].project
             /\ n.processed = s.processed \/ n.processed = n.generation
      BY <2>0, <3>1, EndedStates
    <3>. QED BY <3>3, <3>4, <3>5
  <2>4. CASE WasDeleted(c)
    BY <2>0, <2>4 DEF WasDeleted, NoState
  <2>. QED
    BY <2>0, <2>1, <2>2, <2>3, <2>4, ConvSteps DEF ConvStays
<1>3. ASSUME NEW c \in Conv, activity'[c].curator # Null
      PROVE  activity'[c].curator \in Actor
  BY <1>3, NextTypes DEF TypeInv, ActivityRow
<1>4. /\ \A t \in curates' : t \in Turn
      /\ \A t \in private' : t \in Turn
  BY NextTypes DEF TypeInv
<1>. QED
  BY <1>0, <1>1, <1>2, <1>3, <1>4 DEF PeopleInv, CanRead, CanEdit, AppAllowed

\* A queued job is for a generation that its participant has reached; while it
\* is the current one, its windows are where the participant, and for whoever
\* curates the conversation, have got to, and the conversation has not moved on
\* either, unless the participant has nothing left to learn.
GenInv ==
  \A j \in Job : Queued(j) =>
    LET c == Source(j)  a == j[2] IN
    /\ CanRead(a, c) /\ jobs[j].generation > 0
    /\ ~activity[c].deleted => jobs[j].generation <= states[c][a].generation
    /\ ~Superseded(j) =>
         /\ jobs[j].window[a] = states[c][a].window
         /\ activity[c].curator = a => jobs[j].window[Project] = activity[c].window
         /\ jobs[j].convGeneration = activity[c].generation \/ ~Behind(c, a)

LEMMA SupersededStays ==
  ASSUME TypeInv, WorkInv, PeopleInv, GenInv, [Next]_vars, NEW j \in Job, Queued(j), Superseded(j)
  PROVE  activity'[Source(j)].deleted \/ states'[Source(j)][j[2]].generation # jobs[j].generation
<1>. DEFINE c == Source(j)
            a == j[2]
<1>1. c \in Conv /\ a \in Actor
  BY Sources
<1>2. /\ states[c][a] \in StateRow /\ jobs[j].generation \in Nat /\ activity[c].deleted \in BOOLEAN
      /\ states[c][a].processed <= states[c][a].generation
  BY <1>1 DEF TypeInv, JobRow, PeopleInv, ActivityRow
<1>3. activity[c].deleted \/ (jobs[j].generation <= states[c][a].generation
                               /\ jobs[j].generation # states[c][a].generation)
  BY DEF Superseded, GenInv
<1>4. CASE ConvStays(c) /\ StatesStay(c)
  BY <1>1, <1>3, <1>4 DEF ConvStays, StatesStay
<1>5. ASSUME ConvStays(c), NEW r \in Runner, WasProcessed(c, r)
      PROVE  activity'[c].deleted \/ states'[c][a].generation # jobs[j].generation
  <2>1. states'[c][a].generation = states[c][a].generation
    BY <1>1, <1>2, <1>5 DEF WasProcessed, StateRow
  <2>. QED BY <1>3, <1>5, <2>1 DEF ConvStays
<1>6. ASSUME NEW t \in Turn, TurnEnded(c, t)
      PROVE  states'[c][a].generation # jobs[j].generation
  <2>1. CompleteTurn(t) /\ c = ConvOf[t] /\ activity[c].deleted = FALSE
    BY <1>6 DEF TurnEnded
  <2>2. \/ states'[c][a].generation = states[c][a].generation
        \/ states'[c][a].generation = states[c][a].generation + 1
    BY <1>1, <1>2, <2>1, EndedStates
  <2>3. states[c][a].generation \in Nat
    BY <1>2 DEF StateRow
  <2>. QED BY <1>2, <1>3, <2>1, <2>2, <2>3
<1>7. CASE WasDeleted(c)
  BY <1>7 DEF WasDeleted
<1>. QED BY <1>1, <1>4, <1>5, <1>6, <1>7, ConvSteps

LEMMA GenStep ==
  ASSUME TypeInv, WorkInv, PeopleInv, GenInv, [Next]_vars, ~reshared'
  PROVE  GenInv'
<1>. SUFFICES ASSUME NEW j \in Job, Queued(j)'
              PROVE  LET c == Source(j)  a == j[2] IN
                     /\ CanRead(a, c)' /\ jobs'[j].generation > 0
                     /\ ~activity'[c].deleted => jobs'[j].generation <= states'[c][a].generation
                     /\ ~Superseded(j)' =>
                          /\ jobs'[j].window[a] = states'[c][a].window
                          /\ activity'[c].curator = a => jobs'[j].window[Project] = activity'[c].window
                          /\ \/ jobs'[j].convGeneration = activity'[c].generation
                             \/ ~(states'[c][a].processed < states'[c][a].generation)
  BY DEF GenInv, Behind, Source
<1>. DEFINE c == Source(j)
            a == j[2]
<1>0. c \in Conv /\ a \in Actor /\ c = ConvOf[j[1]] /\ j[1] \in Turn
  BY Sources DEF Source
<1>1. /\ states[c][a] \in StateRow /\ states'[c][a] \in StateRow /\ activity[c] \in ActivityRow
      /\ states[c][a].processed <= states[c][a].generation
      /\ jobs[j].generation \in Nat
  <2>1. states'[c][a] \in StateRow
    BY <1>0, NextTypes DEF TypeInv
  <2>. QED BY <1>0, <2>1 DEF TypeInv, PeopleInv, JobRow
<1>2. shared' = shared
  BY Unshared
<1>3. CASE SameJob(j)
  <2>1. /\ Queued(j) /\ jobs'[j].generation = jobs[j].generation
        /\ jobs'[j].convGeneration = jobs[j].convGeneration /\ jobs'[j].window = jobs[j].window
    BY <1>3 DEF SameJob, Queued
  <2>2. /\ CanRead(a, c) /\ jobs[j].generation > 0
        /\ ~activity[c].deleted => jobs[j].generation <= states[c][a].generation
        /\ ~Superseded(j) =>
             /\ jobs[j].window[a] = states[c][a].window
             /\ activity[c].curator = a => jobs[j].window[Project] = activity[c].window
             /\ jobs[j].convGeneration = activity[c].generation \/ ~Behind(c, a)
    BY <2>1 DEF GenInv
  <2>3. CanRead(a, c)'
    BY <1>2, <2>2 DEF CanRead
  <2>4. Superseded(j)' <=>
          activity'[c].deleted \/ states'[c][a].generation # jobs[j].generation
    BY <2>1 DEF Superseded, Source
  <2>5. ~Superseded(j)' => ~Superseded(j)
    BY <2>1, <2>4, SupersededStays
  <2>6. CASE ConvStays(c) /\ StatesStay(c)
    <3>1. states'[c][a] = states[c][a]
      BY <1>0, <2>6 DEF StatesStay
    <3>. QED BY <2>1, <2>2, <2>3, <2>5, <2>6, <3>1 DEF ConvStays, Behind
  <2>7. ASSUME ConvStays(c), NEW r \in Runner, WasProcessed(c, r)
        PROVE  /\ states'[c][a].generation = states[c][a].generation
               /\ states'[c][a].window = states[c][a].window
               /\ ~Behind(c, a) => ~(states'[c][a].processed < states'[c][a].generation)
    <3>1. \/ states'[c][a] = states[c][a]
          \/ states'[c][a] = [states[c][a] EXCEPT !.processed = states[c][a].generation]
      BY <1>0, <2>7 DEF WasProcessed, Superseded
    <3>. QED BY <1>1, <3>1 DEF StateRow, Behind
  <2>8. ASSUME ConvStays(c), NEW r \in Runner, WasProcessed(c, r)
        PROVE  /\ ~activity'[c].deleted => jobs[j].generation <= states'[c][a].generation
               /\ ~Superseded(j)' =>
                    /\ jobs[j].window[a] = states'[c][a].window
                    /\ activity'[c].curator = a => jobs[j].window[Project] = activity'[c].window
                    /\ \/ jobs[j].convGeneration = activity'[c].generation
                       \/ ~(states'[c][a].processed < states'[c][a].generation)
    BY <2>2, <2>5, <2>7, <2>8 DEF ConvStays
  <2>9. ASSUME NEW t \in Turn, TurnEnded(c, t)
        PROVE  /\ ~activity'[c].deleted => jobs[j].generation <= states'[c][a].generation
               /\ ~Superseded(j)' =>
                    /\ jobs[j].window[a] = states'[c][a].window
                    /\ activity'[c].curator = a => jobs[j].window[Project] = activity'[c].window
                    /\ \/ jobs[j].convGeneration = activity'[c].generation
                       \/ ~(states'[c][a].processed < states'[c][a].generation)
    <3>1. /\ CompleteTurn(t) /\ c = ConvOf[t] /\ activity[c].deleted = FALSE
          /\ activity'[c].deleted = FALSE /\ activity'[c].curator = Curator(t)
      BY <2>9 DEF TurnEnded
    <3>2. /\ states[c][a].generation \in Nat /\ jobs[j].generation <= states[c][a].generation
      BY <1>1, <2>2, <3>1 DEF StateRow
    <3>3. CASE states'[c][a].generation = states[c][a].generation + 1
      BY <1>1, <2>4, <3>1, <3>2, <3>3
    <3>4. CASE /\ a # ActorOf[t] /\ states'[c][a] = states[c][a]
               /\ states[c][a].generation > 0 => a # Curator(t) /\ ~Behind(c, a)
      <4>1. ASSUME ~Superseded(j)'
            PROVE  /\ jobs[j].window[a] = states'[c][a].window
                   /\ activity'[c].curator # a
                   /\ ~(states'[c][a].processed < states'[c][a].generation)
        <5>1. states[c][a].generation > 0 /\ ~Superseded(j)
          BY <1>1, <2>2, <2>4, <2>5, <3>4, <4>1
        <5>2. jobs[j].window[a] = states[c][a].window
          BY <2>2, <5>1
        <5>. QED BY <3>1, <3>4, <5>1, <5>2 DEF Behind
      <4>. QED BY <3>2, <3>4, <4>1
    <3>. QED BY <1>0, <1>1, <3>1, <3>3, <3>4, EndedStates
  <2>10. CASE WasDeleted(c)
    BY <2>1, <2>2, <2>3, <2>4, <2>10 DEF WasDeleted
  <2>. QED
    BY <1>0, <2>1, <2>2, <2>3, <2>6, <2>8, <2>9, <2>10, ConvSteps
<1>4. CASE WasQueued(j)
  <2>. DEFINE t == j[1]
  <2>1. CompleteTurn(t) /\ jobs'[j] = QueuedJob(t, a) /\ a \in QueuedFor(t)
    BY <1>4 DEF WasQueued
  <2>2. jobs'[j].generation = Advanced(t)[a].generation
    BY <1>0, <2>1 DEF QueuedJob
  <2>3. /\ jobs'[j].convGeneration = activity'[c].generation
        /\ jobs'[j].window[Project] = activity'[c].window
        /\ jobs'[j].window[a] = states'[c][a].window
    BY <1>0, <2>1, QueuedWindows
  <2>5. /\ a \in Rearmed(t, Curator(t))
        /\ Advanced(t)[a].generation = states[c][a].generation + 1
        /\ states'[c][a].generation = states[c][a].generation + 1
    BY <1>0, <1>1, <2>1, EndedStates
  <2>6. turns[t] # "new"
    BY <2>1 DEF CompleteTurn
  <2>7. CanRead(a, c)
    BY <1>0, <2>5, <2>6 DEF Rearmed, PeopleInv
  <2>8. CanRead(a, c)'
    BY <1>2, <2>7 DEF CanRead
  <2>9. states[c][a].generation + 1 > 0 /\ states[c][a].generation + 1 \in Nat
    BY <1>1 DEF StateRow
  <2>. QED BY <2>2, <2>3, <2>5, <2>8, <2>9
<1>. QED BY <1>3, <1>4, JobSteps

\* A file needs nothing more of a job: it is off, or a curator was shown what
\* the job shows but for what the limits drop; or the job is superseded, or its
\* participant does not curate.
Learned(j, f) == files[f].enabled => MayDrop(Source(j), Transcript(j, f) \ considered[f])
Settled(j, f) ==
  \/ Learned(j, f) \/ Superseded(j)
  \/ f = Project /\ activity[Source(j)].curator # j[2]

\* What ProcessedMeansConsidered says of a participant.
Processed(c, a) ==
  \A f \in {a} \cup {g \in {Project} : activity[c].curator = a} :
    files[f].enabled => MayDrop(c, Learnable(c, a, f) \ considered[f])

\* An execution that is through has no file left.
ThroughInv == \A r \in Runner : runs[r].pc \in {"nothing", "finalize"} => runs[r].todo = {}

\* Files that are past a job's epoch, that it has a result for or that its
\* execution is through with need nothing more of it.
SettledInv ==
  /\ \A j \in Job, f \in File :
       Queued(j) /\ f \in FilesOf(j) /\ jobs[j].epochs[f] # files[f].epoch => Settled(j, f)
  /\ \A j \in Job, f \in File : f \in FilesOf(j) /\ <<j, f>> \in results => Queued(j) /\ Settled(j, f)
  /\ \A r \in Runner : runs[r].pc \in Reading \cup {"nothing", "finalize"} /\ ~runs[r].failed =>
       \A f \in FilesOf(runs[r].job) \ runs[r].todo : Settled(runs[r].job, f)
  /\ \A r \in Runner : runs[r].pc \in Reading /\ Project \in runs[r].todo => CanEdit(runs[r].job[2])
  /\ \A c \in Conv, a \in Actor : states[c][a].generation > 0 /\ ~Behind(c, a) => Processed(c, a)

LEMMA ConsideredGrows ==
  ASSUME TypeInv, [Next]_vars, NEW f \in File
  PROVE  considered[f] \subseteq considered'[f]
<1>1. ASSUME NEW r \in Runner, Consolidate(r)
      PROVE  considered[f] \subseteq considered'[f]
  BY <1>1, HandlerConsidered
<1>2. considered' = considered \/ \E r \in Runner : Consolidate(r)
  BY DEF Next, vars, BeginTurn, BeginSchedule, CompleteTurn, ReleaseTurn, LeaseExpires, QuietComes,
         DeleteConversation, ShareOrUnshare, WipePrivate, Wipe, Disable, Enable, Reset,
         OpenDraft, SaveDraft, Claim, Abandon, RunDies
<1>. QED BY <1>1, <1>2

\* What was shown of a window stays so, unless a turn ends that the window may
\* show for the file.
LEMMA LearnedKept ==
  ASSUME TypeInv, WorkInv, [Next]_vars, NEW c \in Conv, NEW a \in Actor, NEW f \in File,
         NEW w \in SUBSET Turn,
         files[f].enabled => MayDrop(c, Shows(c, a, f, w) \ considered[f]),
         \/ Done(c)' = Done(c)
         \/ \E t \in Turn : TurnEnded(c, t) /\ f # Project /\ ActorOf[t] # a
  PROVE  files'[f].enabled => MayDropThen(c, ShowsThen(c, a, f, w) \ considered'[f])
<1>1. considered[f] \subseteq considered'[f]
  BY ConsideredGrows
<1>2. CASE WasReset(f)
  <2>1. ShowsThen(c, a, f, w) = {}
    BY <1>2, ShowsStep
  <2>. QED BY <2>1 DEF MayDropThen
<1>3. CASE files'[f].enabled = files[f].enabled
  <2>1. ShowsThen(c, a, f, w) \subseteq Shows(c, a, f, w)
    <3>1. ShowsThen(c, a, f, w) \subseteq Shows(c, a, f, w) \cup (Done(c)' \ Done(c))
      BY ShowsStep
    <3>2. ASSUME NEW t \in Turn, TurnEnded(c, t), f # Project, ActorOf[t] # a
          PROVE  /\ Done(c)' \ Done(c) \subseteq {t}
                 /\ t \notin ShowsThen(c, a, f, w)
      BY <3>2 DEF TurnEnded, DoneWith, ShowsThen
    <3>. QED BY <3>1, <3>2
  <2>. DEFINE S == Shows(c, a, f, w) \ considered[f]
              T == ShowsThen(c, a, f, w) \ considered'[f]
  <2>2. T \in SUBSET S /\ S \in SUBSET Turn /\ (files[f].enabled => MayDrop(c, S))
    BY <1>1, <2>1, ShowsTurns
  <2>. HIDE DEF S, T
  <2>3. files[f].enabled => MayDropThen(c, T)
    BY <2>2, DropStays
  <2>. QED BY <1>3, <2>3 DEF T
<1>. QED
  BY <1>2, <1>3, FileSteps DEF FileStep, Kept, SameFile, WasSaved, WasLearned, Written

\* The same of what a job shows, and of what a participant may learn.
LEMMA LearnedThen ==
  ASSUME TypeInv, WorkInv, [Next]_vars, NEW j \in Job, Queued(j), NEW f \in File,
         files'[f].enabled =>
           MayDropThen(Source(j), ShowsThen(Source(j), j[2], f, jobs[j].window[f]) \ considered'[f])
  PROVE  Settled(j, f)'
<1>1. Transcript(j, f)' = ShowsThen(Source(j), j[2], f, jobs[j].window[f])
  BY TranscriptThen
<1>2. files'[f].enabled => MayDropThen(Source(j), Transcript(j, f)' \ considered'[f])
  BY <1>1
<1>3. Learned(j, f)'
  BY <1>2 DEF Learned, MayDrop, MayDropThen, Source
<1>. QED BY <1>3 DEF Settled

LEMMA ProcessedThen ==
  ASSUME NEW c \in Conv, NEW a \in Actor, a # Project,
         files'[a].enabled =>
           MayDropThen(c, ShowsThen(c, a, a, states'[c][a].window) \ considered'[a]),
         activity'[c].curator = a /\ files'[Project].enabled =>
           MayDropThen(c, ShowsThen(c, a, Project, activity'[c].window) \ considered'[Project])
  PROVE  Processed(c, a)'
<1>1. /\ Learnable(c, a, a)' = ShowsThen(c, a, a, states'[c][a].window)
      /\ Learnable(c, a, Project)' = ShowsThen(c, a, Project, activity'[c].window)
  BY DEF Learnable, Shows, ShowsThen
<1>2. \A S : MayDrop(c, S)' <=> MayDropThen(c, S)
  BY DEF MayDrop, MayDropThen
<1>. QED BY <1>1, <1>2 DEF Processed, MayDrop, MayDropThen

\* A job of the current generation shows what its participant may learn.
LEMMA ShowsLearnable ==
  ASSUME TypeInv, GenInv, NEW j \in Job, Queued(j), ~Superseded(j)
  PROVE  /\ Transcript(j, j[2]) = Learnable(Source(j), j[2], j[2])
         /\ activity[Source(j)].curator = j[2] =>
              Transcript(j, Project) = Learnable(Source(j), j[2], Project)
<1>1. j[2] # Project
  BY Sources, MemoryAssumption DEF MemoryAssumption
<1>. QED BY <1>1 DEF GenInv, Transcript, Learnable

LEMMA SettledKept ==
  ASSUME TypeInv, WorkInv, PeopleInv, GenInv, [Next]_vars, NEW j \in Job, Queued(j),
         NEW f \in FilesOf(j), Settled(j, f)
  PROVE  Settled(j, f)'
<1>. DEFINE c == Source(j)
            a == j[2]
            w == jobs[j].window[f]
<1>0. f \in File /\ c \in Conv /\ a \in Actor /\ f \in {a, Project} /\ a # Project
  BY Sources, MemoryAssumption DEF FilesOf, MemoryAssumption
<1>1. SameJob(j)
  BY QueuedStays
<1>2. CASE Superseded(j)
  BY <1>1, <1>2, SupersededStays DEF SameJob, Settled, Superseded, Source
<1>3. ASSUME NEW t \in Turn, TurnEnded(c, t), ~Superseded(j)
      PROVE  \/ Superseded(j)'
             \/ a # ActorOf[t] /\ activity'[c].curator # a
  <2>1. CompleteTurn(t) /\ c = ConvOf[t] /\ activity'[c].curator = Curator(t)
    BY <1>3 DEF TurnEnded
  <2>2. /\ states[c][a].generation = jobs[j].generation /\ states[c][a].generation \in Nat
        /\ jobs[j].generation > 0 /\ states[c][a].processed <= states[c][a].generation
    BY <1>0, <1>3 DEF Superseded, TypeInv, StateRow, GenInv, PeopleInv
  <2>3. CASE states'[c][a].generation = states[c][a].generation + 1
    BY <1>1, <2>2, <2>3 DEF SameJob, Superseded, Source
  <2>. QED BY <1>0, <2>1, <2>2, <2>3, EndedStates
<1>4. \/ Done(c)' = Done(c) /\ activity'[c].curator \in {activity[c].curator, Null}
      \/ \E t \in Turn : TurnEnded(c, t)
  BY <1>0, ActivitySteps DEF ConvStays
<1>5. CASE Learned(j, f) /\ ~Superseded(j)
  <2>1. CASE \/ Done(c)' = Done(c)
             \/ \E t \in Turn : TurnEnded(c, t) /\ f # Project /\ ActorOf[t] # a
    <3>1. /\ Transcript(j, f) = Shows(c, a, f, w) /\ w \in SUBSET Turn
      BY <1>0, TranscriptThen
    <3>2. files[f].enabled => MayDrop(c, Shows(c, a, f, w) \ considered[f])
      BY <1>5, <3>1 DEF Learned
    <3>. HIDE DEF c, a, w
    <3>3. files'[f].enabled => MayDropThen(c, ShowsThen(c, a, f, w) \ considered'[f])
      BY <1>0, <2>1, <3>1, <3>2, LearnedKept
    <3>. QED BY <1>0, <3>3, LearnedThen DEF c, a, w
  <2>2. CASE f = Project /\ activity'[c].curator # a
    BY <2>2 DEF Settled, Source
  <2>. QED BY <1>3, <1>4, <1>5, <2>1, <2>2 DEF Settled
<1>6. CASE f = Project /\ activity[c].curator # a /\ ~Superseded(j)
  <2>1. CASE activity'[c].curator # a
    BY <1>6, <2>1 DEF Settled, Source
  <2>2. a # Null
    BY <1>0, MemoryAssumption DEF MemoryAssumption
  <2>. QED BY <1>3, <1>4, <1>6, <2>1, <2>2 DEF Settled
<1>. QED BY <1>2, <1>5, <1>6 DEF Settled

\* A participant with nothing left to learn has had it all considered, and
\* goes on having so while nobody speaks.
LEMMA ProcessedKept ==
  ASSUME TypeInv, WorkInv, [Next]_vars, NEW c \in Conv, NEW a \in Actor, Processed(c, a),
         states'[c][a].window = states[c][a].window,
         ConvStays(c) \/ \E t \in Turn : /\ TurnEnded(c, t) /\ a # ActorOf[t]
                                         /\ activity'[c].curator # a
  PROVE  Processed(c, a)'
<1>. DEFINE w == states[c][a].window
            v == activity[c].window
<1>0. a \in File /\ Project \in File /\ a # Project /\ w \in SUBSET Turn /\ v \in SUBSET Turn
  BY Sources, MemoryAssumption DEF MemoryAssumption, TypeInv, StateRow, ActivityRow
<1>1. files'[a].enabled => MayDropThen(c, ShowsThen(c, a, a, w) \ considered'[a])
  <2>1. files[a].enabled => MayDrop(c, Shows(c, a, a, w) \ considered[a])
    BY <1>0 DEF Processed, Learnable
  <2>2. \/ Done(c)' = Done(c)
        \/ \E t \in Turn : TurnEnded(c, t) /\ a # Project /\ ActorOf[t] # a
    BY <1>0 DEF ConvStays
  <2>. HIDE DEF w
  <2>. QED BY <1>0, <2>1, <2>2, LearnedKept
<1>2. ASSUME activity'[c].curator = a
      PROVE  files'[Project].enabled =>
               MayDropThen(c, ShowsThen(c, a, Project, activity'[c].window) \ considered'[Project])
  <2>1. activity[c].curator = a /\ Done(c)' = Done(c) /\ activity'[c].window = v
    BY <1>2 DEF ConvStays
  <2>2. files[Project].enabled => MayDrop(c, Shows(c, a, Project, v) \ considered[Project])
    BY <2>1 DEF Processed, Learnable
  <2>. HIDE DEF v
  <2>3. files'[Project].enabled => MayDropThen(c, ShowsThen(c, a, Project, v) \ considered'[Project])
    BY <1>0, <2>1, <2>2, LearnedKept
  <2>. QED BY <2>1, <2>3
<1>. QED BY <1>0, <1>1, <1>2, ProcessedThen

\* The reasons for which a file needs nothing more of a job.
LEMMA ProcessedSettles ==
  ASSUME TypeInv, GenInv, NEW j \in Job, Queued(j), NEW f \in FilesOf(j),
         Processed(Source(j), j[2])
  PROVE  Settled(j, f)
<1>1. CASE Superseded(j)
  BY <1>1 DEF Settled
<1>2. CASE ~Superseded(j) /\ f = j[2]
  BY <1>2, ShowsLearnable DEF Processed, Settled, Learned
<1>3. CASE ~Superseded(j) /\ f = Project
  BY <1>3, ShowsLearnable DEF Processed, Settled, Learned
<1>. QED BY <1>1, <1>2, <1>3 DEF FilesOf

LEMMA SharedSettles ==
  ASSUME TypeInv, PeopleInv, NEW j \in Job, NEW f \in FilesOf(j), f # Project, ~AppAllowed(Source(j))
  PROVE  Settled(j, f)
<1>1. Transcript(j, f) = {}
  BY DEF Transcript, Shows, Done, TurnsOf, PeopleInv
<1>. QED BY <1>1 DEF Settled, Learned, MayDrop

LEMMA PastSettles ==
  ASSUME TypeInv, WorkInv, PeopleInv, SettledInv, NEW j \in Job, Queued(j), NEW f \in Past(j)
  PROVE  f \in FilesOf(j) /\ Settled(j, f)
<1>1. f \in File /\ jobs[j].epochs[f] # NoEpoch
  BY DEF Past, Asked
<1>2. f \in FilesOf(j)
  BY <1>1 DEF WorkInv
<1>3. jobs[j].epochs[f] # files[f].epoch \/ (f # Project /\ ~AppAllowed(Source(j)))
  BY DEF Past
<1>. QED BY <1>1, <1>2, <1>3, SharedSettles DEF SettledInv

LearnInv ==
  TypeInv /\ WorkInv /\ WindowInv /\ SeenInv /\ ThroughInv /\ PeopleInv /\ GenInv /\ SettledInv

\* A file that a turn's end does not queue a job for is off, or off limits.
LEMMA Untargeted ==
  ASSUME TypeInv, PeopleInv, NEW t \in Turn, CompleteTurn(t), NEW b \in Actor,
         NEW f \in {b, Project}, f \notin Targets(t, b)
  PROVE  \/ ~files'[f].enabled
         \/ f # Project /\ ~AppAllowed(ConvOf[t])
         \/ f = Project /\ b # Curator(t)
<1>1. f \in File
  BY Sources
<1>2. files[f] \in FileRow
        /\ (files'[f] = files[f] \/ files'[f] = [files[f] EXCEPT !.status = "scheduled"])
  BY <1>1, CompleteSteps DEF TypeInv
<1>3. files'[f].enabled = files[f].enabled
  BY <1>2 DEF FileRow
<1>4. b = Curator(t) => Advanced(t)[b].project
  BY CuratorActs
<1>. QED BY <1>3, <1>4 DEF Targets

LEMMA EpochStep ==
  ASSUME LearnInv, [Next]_vars, ~reshared',
         NEW j \in Job, Queued(j)', NEW f \in FilesOf(j), jobs'[j].epochs[f] # files'[f].epoch
  PROVE  Settled(j, f)'
<1>. USE DEF LearnInv
<1>. DEFINE c == Source(j)
            a == j[2]
            t == j[1]
<1>0. f \in File /\ c \in Conv /\ a \in Actor /\ t \in Turn /\ c = ConvOf[t]
  BY Sources DEF FilesOf, Source
<1>1. CASE SameJob(j)
  <2>1. Queued(j) /\ jobs'[j].epochs = jobs[j].epochs
    BY <1>1 DEF SameJob, Queued
  <2>2. CASE jobs[j].epochs[f] # files[f].epoch
    <3>1. Settled(j, f)
      BY <1>0, <2>1, <2>2 DEF SettledInv
    <3>. QED BY <2>1, <3>1, SettledKept
  <2>3. CASE jobs[j].epochs[f] = files[f].epoch
    <3>1. files'[f].epoch # files[f].epoch
      BY <2>1, <2>3
    <3>2. WasReset(f)
      BY <1>0, <3>1, FileSteps DEF FileStep, Kept, SameFile, WasSaved, WasLearned, Written
    <3>3. ShowsThen(c, a, f, jobs[j].window[f]) = {}
      <4>1. jobs[j].window[f] \in SUBSET Turn
        BY <1>0 DEF TypeInv, JobRow
      <4>. QED BY <1>0, <3>2, <4>1, ShowsStep
    <3>. QED BY <1>0, <2>1, <3>3, LearnedThen DEF MayDropThen
  <2>. QED BY <2>2, <2>3
<1>2. CASE WasQueued(j)
  <2>1. CompleteTurn(t) /\ jobs'[j] = QueuedJob(t, a)
    BY <1>2 DEF WasQueued
  <2>2. jobs'[j].epochs[f] = IF f \in Targets(t, a) THEN files[f].epoch ELSE NoEpoch
    BY <1>0, <2>1 DEF QueuedJob
  <2>3. files'[f].epoch = files[f].epoch
    <3>1. files[f] \in FileRow
            /\ (files'[f] = files[f] \/ files'[f] = [files[f] EXCEPT !.status = "scheduled"])
      BY <1>0, <2>1, CompleteSteps DEF TypeInv
    <3>. QED BY <3>1 DEF FileRow
  <2>4. f \notin Targets(t, a)
    BY <2>2, <2>3
  <2>5. \/ ~files'[f].enabled
        \/ f # Project /\ ~AppAllowed(c)
        \/ f = Project /\ a # Curator(t)
    BY <1>0, <2>1, <2>4, Untargeted DEF FilesOf
  <2>6. CASE ~files'[f].enabled
    BY <2>6 DEF Settled, Learned
  <2>7. CASE f # Project /\ ~AppAllowed(c)
    <3>1. \A u \in private' : AppAllowed(ConvOf[u])'
      BY PeopleStep DEF PeopleInv
    <3>2. \A u \in private' : AppAllowed(ConvOf[u])
      BY <3>1, Unshared DEF AppAllowed
    <3>3. \A u \in Done(c)' : ConvOf[u] = c
      BY DEF Done, TurnsOf
    <3>4. Transcript(j, f)' = {}
      BY <2>7, <3>2, <3>3 DEF Transcript, Shows, Source
    <3>. HIDE DEF c, a, t
    <3>5. PICK T : T = Transcript(j, f)'
      OBVIOUS
    <3>6. Learned(j, f)'
      <4>1. T \ considered'[f] = {}
        BY <3>4, <3>5
      <4>. QED BY <3>5, <4>1 DEF Learned, MayDrop
    <3>. QED BY <3>6 DEF Settled
  <2>8. CASE f = Project /\ a # Curator(t)
    <3>1. activity'[c].curator = Curator(t)
      <4>1. activity[c] \in ActivityRow
        BY <1>0 DEF TypeInv
      <4>. QED BY <1>0, <2>1, <4>1 DEF CompleteTurn, TypeInv, ActivityRow
    <3>. QED BY <2>8, <3>1 DEF Settled, Source
  <2>. QED BY <2>5, <2>6, <2>7, <2>8
<1>. QED BY <1>1, <1>2, JobSteps

LEMMA ResultStep ==
  ASSUME LearnInv, [Next]_vars, ~reshared',
         NEW j \in Job, NEW f \in FilesOf(j), <<j, f>> \in results'
  PROVE  Queued(j)' /\ Settled(j, f)'
<1>. USE DEF LearnInv
<1>0. f \in File
  BY Sources DEF FilesOf
<1>1. CASE Queued(j) /\ Settled(j, f)
  BY <1>1, SettledKept, QueuedStays
<1>2. CASE <<j, f>> \in results
  BY <1>0, <1>1, <1>2 DEF SettledInv
<1>3. ASSUME NEW r \in Runner, Consolidate(r), <<j, f>> \in results' \ results
      PROVE  Queued(j)' /\ Settled(j, f)'
  <2>1. /\ j = runs[r].job
        /\ \/ runs[r].pc = "transcript" /\ f \in Past(j)
           \/ runs[r].pc \in {"current", "curate", "write"} /\ f = At(r) /\ Reason(r, f)
    BY <1>0, <1>3, HandlerResults
  <2>2. Queued(j)
    BY <1>3, <2>1 DEF Consolidate, WorkInv
  <2>3. CASE f \in Past(j)
    BY <1>1, <2>2, <2>3, PastSettles
  <2>4. CASE runs[r].pc \in {"current", "curate", "write"} /\ f = At(r) /\ Reason(r, f)
    <3>1. f \in runs[r].todo /\ HasSeen(runs[r], f)
      BY <2>4, AtTodo DEF Reading
    <3>2. CASE ~files[f].enabled
      BY <1>1, <2>2, <3>2 DEF Settled, Learned
    <3>3. CASE files[f].epoch # jobs[j].epochs[f]
      BY <1>0, <1>1, <2>2, <3>3 DEF SettledInv
    <3>4. CASE f = Project /\ ~CanEdit(j[2])
      BY <2>1, <2>4, <3>1, <3>4 DEF SettledInv, Reading
    <3>5. CASE f # Project /\ ~AppAllowed(Source(j))
      BY <1>1, <2>2, <3>5, SharedSettles
    <3>6. CASE Superseded(j)
      BY <1>1, <2>2, <3>6 DEF Settled
    <3>7. CASE activity[Source(j)].generation # jobs[j].convGeneration /\ ~Superseded(j)
      <4>1. ~Behind(Source(j), j[2]) /\ jobs[j].generation > 0
        BY <2>2, <3>7 DEF GenInv
      <4>2. states[Source(j)][j[2]].generation > 0
        BY <3>7, <4>1 DEF Superseded
      <4>3. Processed(Source(j), j[2])
        BY <4>1, <4>2, Sources DEF SettledInv
      <4>. QED BY <1>1, <2>2, <4>3, ProcessedSettles
    <3>8. CASE runs[r].seen[f] \subseteq considered'[f] /\ ~MovedOn(j)
      <4>. DEFINE S == runs[r].seen[f]
                  U == ShowsThen(Source(j), j[2], f, jobs[j].window[f])
                  V == U \ S
                  W == U \ considered'[f]
      <4>1. MayDrop(Source(j), Transcript(j, f) \ S)
        BY <2>1, <3>1, <3>8 DEF HasSeen
      <4>2. Done(Source(j))' = Done(Source(j))
        BY <1>3 DEF Consolidate, Done, TurnsOf, Source
      <4>3. S \in SUBSET Turn
        BY <1>0, <1>3, AtFile DEF Run, Consolidate
      <4>4. MayDropThen(Source(j), V)
        <5>. HIDE DEF S
        <5>. QED BY <1>0, <2>2, <4>1, <4>2, <4>3, DroppedStays
      <4>5. Source(j) \in Conv
        BY Sources
      <4>6. V \in SUBSET Turn /\ W \in SUBSET V /\ MayDropThen(Source(j), V)
        <5>1. U \in SUBSET Turn
          BY <4>5, DoneGrows DEF ShowsThen
        <5>. HIDE DEF U, S
        <5>2. W \in SUBSET V
          BY <3>8 DEF S
        <5>. QED BY <4>4, <5>1, <5>2
      <4>7. MayDropThen(Source(j), W)
        <5>. HIDE DEF V, W
        <5>. QED BY <4>5, <4>6, DropLessThen
      <4>8. Settled(j, f)'
        BY <1>0, <2>2, <4>7, LearnedThen
      <4>. QED BY <2>2, <4>8, QueuedStays
    <3>9. MovedOn(j) => Superseded(j) \/ activity[Source(j)].generation # jobs[j].convGeneration
      BY DEF MovedOn, Superseded
    <3>. QED
      BY <2>1, <2>4, <3>2, <3>3, <3>4, <3>5, <3>6, <3>7, <3>8, <3>9 DEF Reason
  <2>. QED BY <2>1, <2>3, <2>4
<1>4. results' = results \/ \E r \in Runner : Consolidate(r)
  BY DEF Next, vars, BeginTurn, BeginSchedule, CompleteTurn, ReleaseTurn, LeaseExpires, QuietComes,
         DeleteConversation, ShareOrUnshare, WipePrivate, Wipe, Disable, Enable, Reset,
         OpenDraft, SaveDraft, Claim, Abandon, RunDies
<1>. QED BY <1>2, <1>3, <1>4

LEMMA ThroughStep ==
  ASSUME TypeInv, ThroughInv, [Next]_vars
  PROVE  ThroughInv'
<1>. SUFFICES ASSUME NEW r \in Runner, runs'[r].pc \in {"nothing", "finalize"}
              PROVE  runs'[r].todo = {}
  BY DEF ThroughInv
<1>1. CASE runs'[r] = runs[r]
  BY <1>1 DEF ThroughInv
<1>2. CASE RunEffect(r, runs'[r])
  BY <1>2 DEF RunEffect, Reading
<1>. QED BY <1>1, <1>2, RunSteps DEF RunStep

LEMMA RunsSettle ==
  ASSUME LearnInv, [Next]_vars, ~reshared', NEW r \in Runner,
         runs'[r].pc \in Reading \cup {"nothing", "finalize"},
         NEW j \in Job, j = runs'[r].job
  PROVE  /\ ~runs'[r].failed => \A f \in FilesOf(j) \ runs'[r].todo : Settled(j, f)'
         /\ runs'[r].pc \in Reading /\ Project \in runs'[r].todo => CanEdit(j[2])
<1>. USE DEF LearnInv
<1>. DEFINE x == runs'[r]
            c == Source(j)
            a == j[2]
<1>1. /\ Queued(j) /\ runs[r].job = j
      /\ x = runs[r] \/ (Consolidate(r) /\ RunEffect(r, x))
  <2>1. runs[r].job = j /\ (x = runs[r] \/ (Consolidate(r) /\ RunEffect(r, x)))
    BY RunSteps DEF RunStep, Reading
  <2>2. runs[r].pc # "idle"
    BY <2>1 DEF Reading, Consolidate
  <2>. QED BY <2>1, <2>2 DEF WorkInv
<1>2. /\ c \in Conv /\ a \in Actor /\ \A f \in FilesOf(j) : f \in File
  BY Sources DEF FilesOf
<1>3. ASSUME NEW f \in FilesOf(j), Settled(j, f)
      PROVE  Settled(j, f)'
  BY <1>1, <1>3, SettledKept
<1>4. ASSUME runs[r].pc \in Reading \cup {"nothing", "finalize"}, x.todo = runs[r].todo,
             x.failed = runs[r].failed, x.pc \in Reading => runs[r].pc \in Reading
      PROVE  /\ ~x.failed => \A f \in FilesOf(j) \ x.todo : Settled(j, f)'
             /\ x.pc \in Reading /\ Project \in x.todo => CanEdit(a)
  <2>1. ~x.failed => \A f \in FilesOf(j) \ x.todo : Settled(j, f)
    BY <1>1, <1>4 DEF SettledInv
  <2>2. x.pc \in Reading /\ Project \in x.todo => CanEdit(a)
    BY <1>1, <1>4 DEF SettledInv
  <2>. QED BY <1>3, <2>1, <2>2
<1>5. CASE x = runs[r]
  BY <1>4, <1>5
<1>6. CASE /\ runs[r].pc \in Reading /\ x.pc \in Reading
           /\ x.todo = runs[r].todo /\ x.failed = runs[r].failed
  BY <1>4, <1>6
<1>7. CASE /\ Consolidate(r) /\ runs[r].pc = "transcript" /\ Shown(j, x.seen)
           /\ x.todo = {f \in File : x.seen[f] # {}}
  <2>1. ASSUME NEW f \in FilesOf(j) \ x.todo
        PROVE  Settled(j, f)
    <3>0. f \in File
      BY <1>2
    <3>1. CASE f \in Past(j)
      BY <1>1, <3>1, PastSettles
    <3>2. CASE f \in Asked(j) \ Past(j)
      <4>1. CASE ~files[f].enabled
        BY <4>1 DEF Settled, Learned
      <4>2. CASE f \in Open(j)
        <5>1. x.seen[f] = {} /\ MayDrop(c, Transcript(j, f) \ x.seen[f])
          BY <1>7, <2>1, <3>0, <4>2 DEF Shown
        <5>2. MayDrop(c, Transcript(j, f))
          BY <5>1
        <5>3. /\ Transcript(j, f) \in SUBSET Turn
              /\ Transcript(j, f) \ considered[f] \in SUBSET Transcript(j, f)
          BY <1>1, <3>0, TranscriptThen
        <5>. DEFINE S == Transcript(j, f)
                    T == Transcript(j, f) \ considered[f]
        <5>4. MayDrop(c, S) /\ S \in SUBSET Turn /\ T \in SUBSET S
          BY <5>2, <5>3
        <5>. HIDE DEF S, T, c
        <5>5. MayDrop(c, T)
          BY <1>2, <5>4, DropLess
        <5>. QED BY <5>5 DEF Settled, Learned, T, c
      <4>. QED BY <3>2, <4>1, <4>2 DEF Open
    <3>3. CASE f \notin Asked(j)
      <4>1. CASE activity[c].deleted
        BY <4>1 DEF Settled, Superseded
      <4>2. CASE ~CanRead(a, c)
        BY <1>1, <4>2 DEF GenInv
      <4>3. CASE jobs[j].epochs[f] = NoEpoch
        <5>1. files[f].epoch \in Nat
          BY <3>0 DEF TypeInv, FileRow
        <5>2. jobs[j].epochs[f] # files[f].epoch
          BY <4>3, <5>1 DEF NoEpoch
        <5>. QED BY <1>1, <3>0, <5>2 DEF SettledInv
      <4>4. CASE f = Project /\ ~CanEdit(a)
        <5>1. activity[c].curator # a
          BY <1>2, <4>4, MemoryAssumption DEF PeopleInv, MemoryAssumption
        <5>. QED BY <4>4, <5>1 DEF Settled
      <4>. QED BY <3>0, <3>3, <4>1, <4>2, <4>3, <4>4 DEF Asked
    <3>. QED BY <3>1, <3>2, <3>3
  <2>2. \A f \in FilesOf(j) \ x.todo : Settled(j, f)'
    BY <1>3, <1>7, <2>1
  <2>3. Project \in x.todo => CanEdit(a)
    BY <1>7 DEF Shown, Open, Asked
  <2>. QED BY <2>2, <2>3
<1>8. CASE /\ runs[r].pc \in Reading
           /\ x.todo = runs[r].todo \ {At(r)}
           /\ ~x.failed => ~runs[r].failed /\ <<j, At(r)>> \in results'
  <2>1. x.pc \in Reading /\ Project \in x.todo => CanEdit(a)
    BY <1>1, <1>8 DEF SettledInv
  <2>2. ASSUME ~x.failed, NEW f \in FilesOf(j) \ x.todo
        PROVE  Settled(j, f)'
    <3>1. CASE f = At(r)
      BY <1>8, <2>2, <3>1, ResultStep
    <3>2. CASE f \notin runs[r].todo
      <4>1. Settled(j, f)
        BY <1>1, <1>8, <2>2, <3>2 DEF SettledInv
      <4>. QED BY <1>3, <4>1
    <3>. QED BY <1>8, <2>2, <3>1, <3>2
  <2>. QED BY <2>1, <2>2
<1>. QED BY <1>1, <1>5, <1>6, <1>7, <1>8 DEF RunEffect

\* A participant's generation counts as processed only when all was considered.
LEMMA ProcessStep ==
  ASSUME LearnInv, [Next]_vars, ~reshared', NEW c \in Conv, NEW a \in Actor,
         states'[c][a].generation > 0,
         ~(states'[c][a].processed < states'[c][a].generation)
  PROVE  Processed(c, a)'
<1>. USE DEF LearnInv
<1>0. /\ a \in File /\ Project \in File /\ a # Project /\ states[c][a] \in StateRow
      /\ states[c][a].processed <= states[c][a].generation
  BY Sources, MemoryAssumption DEF MemoryAssumption, TypeInv, PeopleInv
<1>1. ASSUME ConvStays(c), states'[c][a] = states[c][a]
      PROVE  Processed(c, a)'
  <2>1. Processed(c, a)
    BY <1>1 DEF SettledInv, Behind
  <2>. QED BY <1>1, <2>1, ProcessedKept
<1>2. CASE ConvStays(c) /\ StatesStay(c)
  BY <1>1, <1>2 DEF StatesStay
<1>3. ASSUME ConvStays(c), NEW r \in Runner, WasProcessed(c, r)
      PROVE  Processed(c, a)'
  <2>. DEFINE j == runs[r].job
  <2>1. /\ runs[r].pc \in {"nothing", "finalize"} /\ ~runs[r].failed /\ ~Superseded(j)
        /\ c = Source(j) /\ Consolidate(r)
        /\ a # j[2] => states'[c][a] = states[c][a]
    BY <1>3 DEF WasProcessed
  <2>2. CASE a # j[2]
    BY <1>1, <1>3, <2>1, <2>2
  <2>3. CASE a = j[2]
    <3>1. j \in Job /\ Queued(j) /\ runs[r].todo = {}
      BY <2>1, AtFile DEF WorkInv, ThroughInv
    <3>2. Settled(j, a) /\ Settled(j, Project)
      BY <2>1, <2>3, <3>1 DEF SettledInv, FilesOf
    <3>3. /\ Learned(j, a)
          /\ activity[c].curator = a => Learned(j, Project)
      BY <1>0, <2>1, <2>3, <3>2 DEF Settled
    <3>4. Processed(c, a)
      BY <2>1, <2>3, <3>1, <3>3, ShowsLearnable DEF Learned, Processed
    <3>5. states'[c][a].window = states[c][a].window
      <4>1. states'[c][a] = [states[c][a] EXCEPT !.processed = jobs[j].generation]
        BY <1>3, <2>3 DEF WasProcessed
      <4>. QED BY <1>0, <4>1 DEF StateRow
    <3>. QED BY <1>3, <3>4, <3>5, ProcessedKept
  <2>. QED BY <2>2, <2>3
<1>4. ASSUME NEW t \in Turn, TurnEnded(c, t)
      PROVE  Processed(c, a)'
  <2>1. /\ CompleteTurn(t) /\ c = ConvOf[t] /\ activity'[c].curator = Curator(t)
        /\ Done(c)' = DoneWith(t)
    BY <1>4 DEF TurnEnded
  <2>2. CASE /\ a # ActorOf[t] /\ states'[c][a] = states[c][a]
             /\ states[c][a].generation > 0 => a # Curator(t) /\ ~Behind(c, a)
    <3>1. Processed(c, a)
      BY <2>2 DEF SettledInv
    <3>. QED BY <1>4, <2>1, <2>2, <3>1, ProcessedKept
  <2>3. CASE /\ states'[c][a].generation = states[c][a].generation + 1
             /\ states'[c][a].processed = states[c][a].processed
    BY <1>0, <2>3 DEF StateRow
  <2>4. CASE Targets(t, a) = {}
    <3>1. ~files'[a].enabled \/ ~AppAllowed(c)
      BY <1>0, <2>1, <2>4, Untargeted
    <3>2. ~files'[Project].enabled \/ a # Curator(t)
      BY <1>0, <2>1, <2>4, Untargeted
    <3>3. ASSUME ~AppAllowed(c)
          PROVE  Done(c)' \cap private' = {}
      <4>1. \A u \in private' : AppAllowed(ConvOf[u])'
        BY PeopleStep DEF PeopleInv
      <4>2. \A u \in private' : AppAllowed(ConvOf[u])
        BY <4>1, Unshared DEF AppAllowed
      <4>3. \A u \in Done(c)' : ConvOf[u] = c
        BY DEF Done, TurnsOf
      <4>. QED BY <3>3, <4>2, <4>3
    <3>4. files'[a].enabled =>
            MayDropThen(c, ShowsThen(c, a, a, states'[c][a].window) \ considered'[a])
      BY <1>0, <3>1, <3>3 DEF ShowsThen, MayDropThen
    <3>. QED BY <1>0, <2>1, <3>2, <3>4, ProcessedThen
  <2>. QED BY <1>0, <2>1, <2>2, <2>3, <2>4, EndedStates
<1>5. CASE WasDeleted(c)
  BY <1>5 DEF WasDeleted, NoState
<1>. QED BY <1>2, <1>3, <1>4, <1>5, ConvSteps

LEMMA SettledStep ==
  ASSUME LearnInv, [Next]_vars, ~reshared'
  PROVE  SettledInv'
<1>. USE DEF LearnInv
<1>1. ASSUME NEW r \in Runner, runs'[r].pc \in Reading \cup {"nothing", "finalize"}
      PROVE  /\ ~runs'[r].failed =>
                  \A f \in FilesOf(runs'[r].job) \ runs'[r].todo : Settled(runs[r].job, f)'
             /\ runs'[r].pc \in Reading /\ Project \in runs'[r].todo => CanEdit(runs[r].job[2])'
  <2>1. PICK j \in Job : j = runs'[r].job
    BY <1>1, NextTypes DEF TypeInv, Reading
  <2>2. /\ ~runs'[r].failed => \A f \in FilesOf(j) \ runs'[r].todo : Settled(j, f)'
        /\ runs'[r].pc \in Reading /\ Project \in runs'[r].todo => CanEdit(j[2])
    BY <1>1, <2>1, RunsSettle
  <2>3. CanEdit(j[2])' <=> CanEdit(j[2])
    BY Unshared DEF CanEdit
  <2>. QED BY <2>1, <2>2, <2>3
<1>2. ASSUME NEW j \in Job, NEW f \in File, Queued(j)', f \in FilesOf(j),
             jobs'[j].epochs[f] # files'[f].epoch
      PROVE  Settled(j, f)'
  BY <1>2, EpochStep
<1>3. ASSUME NEW j \in Job, NEW f \in File, f \in FilesOf(j), <<j, f>> \in results'
      PROVE  Queued(j)' /\ Settled(j, f)'
  BY <1>3, ResultStep
<1>4. ASSUME NEW c \in Conv, NEW a \in Actor, states'[c][a].generation > 0, ~Behind(c, a)'
      PROVE  Processed(c, a)'
  BY <1>4, ProcessStep DEF Behind
<1>. QED BY <1>1, <1>2, <1>3, <1>4 DEF SettledInv, FilesOf

\* What needs the sharing to stay as it is.
ConsideredInv == ~reshared => PeopleInv /\ GenInv /\ SettledInv

LEMMA ConsideredInit == Init => ThroughInv /\ ConsideredInv
<1>. SUFFICES ASSUME Init PROVE ThroughInv /\ PeopleInv /\ GenInv /\ SettledInv
  BY DEF ConsideredInv
<1>1. \A j \in Job : ~Queued(j)
  BY DEF Init, Queued
<1>2. \A r \in Runner : runs[r].pc = "idle"
  BY DEF Init, IdleRun
<1>3. PeopleInv
  BY DEF Init, PeopleInv, NoState
<1>4. GenInv
  BY <1>1 DEF GenInv
<1>5. ThroughInv
  BY <1>2 DEF ThroughInv
<1>6. \A c \in Conv, a \in Actor : states[c][a].generation = 0
  BY DEF Init, NoState
<1>7. SettledInv
  BY <1>1, <1>2, <1>6 DEF Init, SettledInv, Reading
<1>. QED BY <1>3, <1>4, <1>5, <1>7

LEMMA ConsideredStep ==
  ASSUME MemoryInv, ThroughInv, ConsideredInv, [Next]_vars
  PROVE  ThroughInv' /\ ConsideredInv'
<1>. USE DEF MemoryInv
<1>1. ThroughInv'
  BY ThroughStep
<1>2. ASSUME ~reshared'
      PROVE  PeopleInv' /\ GenInv' /\ SettledInv'
  <2>1. PeopleInv /\ GenInv /\ SettledInv
    BY <1>2, Unshared DEF ConsideredInv
  <2>2. PeopleInv'
    BY <1>2, <2>1, PeopleStep
  <2>3. GenInv'
    BY <1>2, <2>1, GenStep
  <2>4. SettledInv'
    BY <1>2, <2>1, SettledStep DEF LearnInv
  <2>. QED BY <2>2, <2>3, <2>4
<1>. QED BY <1>1, <1>2 DEF ConsideredInv

\* A generation that counts as processed left out no more than the limits of a
\* transcript do: a curator was shown every other successful turn, up to where
\* its participant had got to and since the file's cutoff, however the
\* executions, the crashes, the wipes and the turns interleaved.
THEOREM ConsideredCorrect == Spec => []ProcessedMeansConsidered
<1>1. Init => ThroughInv /\ ConsideredInv
  BY ConsideredInit
<1>2. MemoryInv /\ ThroughInv /\ ConsideredInv /\ [Next]_vars => ThroughInv' /\ ConsideredInv'
  BY ConsideredStep
<1>3. ConsideredInv => ProcessedMeansConsidered
  BY DEF ConsideredInv, SettledInv, Processed, ProcessedMeansConsidered
<1>. QED BY <1>1, <1>2, <1>3, MemoryHolds, PTL DEF Spec

=============================================================================
