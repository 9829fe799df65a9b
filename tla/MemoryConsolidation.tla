------------------------- MODULE MemoryConsolidation -------------------------
(***************************************************************************)
(* Learning after a chat.  A turn takes a lease before its answer is       *)
(* generated; a successful turn moves the conversation's generation on and *)
(* queues, for every participant with something left to learn, a job that  *)
(* runs when the conversation has been quiet.  The job reads the           *)
(* transcript, lets a model rewrite memory.md of the actor and of the      *)
(* project, and marks the participant's generation processed.  Meanwhile   *)
(* people go on talking, edit the files, wipe or disable them, delete      *)
(* conversations, and share the project or take it back.                   *)
(*                                                                         *)
(* A file's content is the set of turns it has learned something from. Of  *)
(* time only the order matters in which the transactions begin that end    *)
(* turns: a window up to one of them is a set of turns, and is written     *)
(* when that transaction gets its locks, in whatever order.                *)
(*                                                                         *)
(* Of the job queue this module keeps what DbJobs shows it to do: the      *)
(* latest claimant of a job alone reports its outcome, and an earlier one  *)
(* may still be running.                                                   *)
(***************************************************************************)
EXTENDS Integers, FiniteSets

CONSTANTS
  Conv, Actor, Turn,
  ConvOf, ActorOf,   \* the conversation and the author of a turn
  InProject,         \* conversations of the project
  Owner,             \* of the project
  Editor,            \* actors who may edit the project while it is shared
  Project,           \* the project's file; an actor names that actor's file
  Runner,            \* executions of jobs at a time
  Null,
  Room,              \* turns that fit into a transcript in any case; the code drops
                     \* the oldest messages beyond 120, and lines beyond 48,000 characters
  MaxAttempts,       \* max_attempts of a job
  MaxEvents          \* bound on what disturbs the learning: resets, saves from the
                     \* editor, changes of sharing, deletions, deaths, failing
                     \* queries, executions taken for dead

File == Actor \cup {Project}
Job == Turn \X Actor   \* the job that a turn queued for an actor

ASSUME MemoryAssumption ==
  /\ ConvOf \in [Turn -> Conv] /\ ActorOf \in [Turn -> Actor]
  /\ InProject \subseteq Conv /\ Owner \in Actor /\ Editor \subseteq Actor
  /\ Project \notin Actor /\ Null \notin Actor \cup Runner \cup Job
  /\ IsFiniteSet(Turn) /\ Room \in Nat \ {0}
  /\ MaxAttempts \in Nat \ {0} /\ MaxEvents \in Nat

VARIABLES
  turns,       \* "new", "open" under its lease, "lapsed" with its lease, "lost" its row,
               \* "over" without success, "done": eligible for learning
  upTo,        \* for a turn whose completing transaction has begun, the turns of the
               \* conversation whose had begun by then: terminal_at of schedule_...
  curates,     \* turns whose request found its actor able to edit the project
  private,     \* done turns with memory_app_eligible_at
  activity,    \* memory_conversation_activity
  states,      \* memory_consolidation_states, by conversation and actor
  files,       \* memory_files
  cut,         \* the turns asked up to a file's learning_cutoff_at
  jobs,        \* db_jobs of kind memory.consolidate
  results,     \* memory_consolidation_results: which job is through with which file
  runs,        \* executions of handleMemoryConsolidation
  shared,      \* the project has other members
  drafts,      \* what the editor of a file has loaded
  spent,       \* disturbances so far
  reshared,    \* history: the sharing has changed
  considered   \* history: the turns a curator was shown for a file, to the end

talk == <<turns, upTo, curates, private, activity, states>>
memory == <<files, cut>>
people == <<shared, drafts, reshared>>
vars == <<talk, memory, jobs, results, runs, people, spent, considered>>

\* A disturbance, within the bound.
Disturbs == spent < MaxEvents /\ spent' = spent + 1

NoEpoch == -1
NoState == [generation |-> 0, window |-> {}, processed |-> 0, project |-> FALSE]
Empty == [revision |-> 0, content |-> {}]
IdleRun == [pc |-> "idle", job |-> Null, attempt |-> 0, ask |-> "none", result |-> "none",
            todo |-> {}, seen |-> [f \in File |-> {}], base |-> Empty, failed |-> FALSE]

Init ==
  /\ turns = [t \in Turn |-> "new"] /\ upTo = [t \in Turn |-> {}]
  /\ curates = {} /\ private = {} /\ shared \in BOOLEAN
  /\ activity = [c \in Conv |-> [generation |-> 0, window |-> {}, curator |-> Null,
                                 noisy |-> FALSE, deleted |-> FALSE]]
  /\ states = [c \in Conv |-> [a \in Actor |-> NoState]]
  /\ files = [f \in File |-> [enabled |-> TRUE, epoch |-> 0, revision |-> 0, content |-> {},
                              lastJob |-> Null, status |-> "idle"]]
  /\ cut = [f \in File |-> {}]
  /\ jobs = [j \in Job |-> [status |-> "absent", generation |-> 0, convGeneration |-> 0,
                            epochs |-> [f \in File |-> NoEpoch],
                            window |-> [f \in File |-> {}], attempts |-> 0, holder |-> Null]]
  /\ results = {}
  /\ runs = [r \in Runner |-> IdleRun]
  /\ drafts = [f \in File |-> Null]
  /\ spent = 0 /\ reshared = FALSE
  /\ considered = [f \in File |-> {}]

TurnsOf(c) == {t \in Turn : ConvOf[t] = c}
Done(c) == {t \in TurnsOf(c) : turns[t] = "done"}
Behind(c, a) == states[c][a].processed < states[c][a].generation
Leased(c) == \E t \in TurnsOf(c) : turns[t] = "open"

\* memory_source_allows_app_memory, and the project's roles.
AppAllowed(c) == c \in InProject => ~shared
CanRead(a, c) == c \in InProject => a = Owner \/ shared
CanEdit(a) == a = Owner \/ (shared /\ a \in Editor)

-----------------------------------------------------------------------------
(* Turns *)

\* begin_memory_conversation_turn; expired leases of the conversation go.
BeginTurn(t) ==
  LET c == ConvOf[t] IN
  /\ turns[t] = "new" /\ ~activity[c].deleted /\ CanRead(ActorOf[t], c)
  /\ turns' = [u \in Turn |-> IF u = t THEN "open"
                              ELSE IF ConvOf[u] = c /\ turns[u] = "lapsed" THEN "lost" ELSE turns[u]]
  /\ curates' = IF c \in InProject /\ CanEdit(ActorOf[t]) THEN curates \cup {t} ELSE curates
  /\ activity' = [activity EXCEPT ![c].noisy = TRUE]
  /\ UNCHANGED <<upTo, private, states, memory, jobs, results, runs, people, spent, considered>>

\* The transaction that is to complete a turn begins, and takes its time.
BeginSchedule(t) ==
  /\ turns[t] \in {"open", "lapsed"} /\ upTo[t] = {}
  /\ upTo' = [upTo EXCEPT ![t] = {t} \cup {u \in TurnsOf(ConvOf[t]) : upTo[u] # {}}]
  /\ UNCHANGED <<turns, curates, private, activity, states, memory, jobs, results, runs, people, spent,
                 considered>>

\* The participants whose generation a turn moves on: its actor, those with
\* something left to learn, and the one who curates for the project.
Rearmed(t, curator) ==
  {b \in Actor : \/ b = ActorOf[t]
                 \/ /\ states[ConvOf[t]][b].generation > 0
                    /\ Behind(ConvOf[t], b) \/ b = curator}

Curator(t) ==
  IF t \in curates THEN ActorOf[t] ELSE activity[ConvOf[t]].curator

Advanced(t) ==
  [b \in Actor |-> IF b \in Rearmed(t, Curator(t))
                   THEN [states[ConvOf[t]][b] EXCEPT !.generation = @ + 1,
                           !.window = IF b = ActorOf[t] THEN upTo[t] ELSE @,
                           !.project = @ \/ (b = ActorOf[t] /\ Curator(t) = b)]
                   ELSE states[ConvOf[t]][b]]

\* The files that a participant's next job is for.
Targets(t, b) ==
  {f \in {b} : files[f].enabled /\ AppAllowed(ConvOf[t])}
    \cup {f \in {Project} : files[f].enabled /\ b = Curator(t) /\ Advanced(t)[b].project}

\* schedule_memory_consolidation, after the answer was saved, once it has its
\* locks.  The conversation's window and the actor's become those of this
\* turn, even if another that began later was faster.
CompleteTurn(t) ==
  LET c == ConvOf[t]
      pending == {b \in Actor : Advanced(t)[b].processed < Advanced(t)[b].generation}
      queued == {b \in pending : Targets(t, b) # {}}
  IN /\ turns[t] \in {"open", "lapsed"} /\ upTo[t] # {} /\ ~activity[c].deleted
     /\ turns' = [u \in Turn |-> IF u = t THEN "done"
                                 ELSE IF u \in TurnsOf(c) /\ turns[u] = "lapsed" THEN "lost"
                                 ELSE turns[u]]
     /\ private' = IF AppAllowed(c) THEN private \cup {t} ELSE private
     /\ activity' = [activity EXCEPT ![c].generation = @ + 1, ![c].window = upTo[t],
                                     ![c].curator = Curator(t), ![c].noisy = TRUE]
     /\ states' = [states EXCEPT ![c] =
          [b \in Actor |-> IF b \in pending \ queued
                           THEN [Advanced(t)[b] EXCEPT !.processed = Advanced(t)[b].generation]
                           ELSE Advanced(t)[b]]]
     /\ jobs' = [j \in Job |->
          IF j[1] = t /\ j[2] \in queued
          THEN [status |-> "pending", generation |-> Advanced(t)[j[2]].generation,
                convGeneration |-> activity[c].generation + 1,
                epochs |-> [f \in File |-> IF f \in Targets(t, j[2]) THEN files[f].epoch ELSE NoEpoch],
                window |-> [f \in File |-> IF f = Project THEN upTo[t] ELSE Advanced(t)[j[2]].window],
                attempts |-> 0, holder |-> Null]
          ELSE jobs[j]]
     /\ files' = [f \in File |->
          IF files[f].status # "processing" /\ \E b \in queued : f \in Targets(t, b)
          THEN [files[f] EXCEPT !.status = "scheduled"] ELSE files[f]]
     /\ UNCHANGED <<upTo, curates, cut, results, runs, people, spent, considered>>

\* release_memory_conversation_turn, and a turn that fails to be scheduled.
ReleaseTurn(t) ==
  /\ turns[t] \in {"open", "lapsed", "lost"}
  /\ turns' = [turns EXCEPT ![t] = "over"]
  /\ activity' = IF turns[t] = "lost" THEN activity ELSE [activity EXCEPT ![ConvOf[t]].noisy = TRUE]
  /\ UNCHANGED <<upTo, curates, private, states, memory, jobs, results, runs, people, spent, considered>>

LeaseExpires(t) ==
  /\ turns[t] = "open"
  /\ turns' = [turns EXCEPT ![t] = "lapsed"]
  /\ UNCHANGED <<upTo, curates, private, activity, states, memory, jobs, results, runs, people, spent,
                 considered>>

\* quiet_until passes.
QuietComes(c) ==
  /\ activity[c].noisy
  /\ activity' = [activity EXCEPT ![c].noisy = FALSE]
  /\ UNCHANGED <<turns, upTo, curates, private, states, memory, jobs, results, runs, people, spent,
                 considered>>

\* fence_memory_conversation_delete; the jobs stay.
DeleteConversation(c) ==
  /\ Disturbs /\ ~activity[c].deleted /\ activity[c].generation > 0
  /\ activity' = [activity EXCEPT ![c] = [generation |-> 0, window |-> {}, curator |-> Null,
                                          noisy |-> FALSE, deleted |-> TRUE]]
  /\ turns' = [t \in Turn |-> IF t \in TurnsOf(c) /\ turns[t] \in {"open", "lapsed"} THEN "lost"
                              ELSE turns[t]]
  /\ states' = [states EXCEPT ![c] = [a \in Actor |-> NoState]]
  /\ UNCHANGED <<upTo, curates, private, memory, jobs, results, runs, people, considered>>

-----------------------------------------------------------------------------
(* Sharing, settings and the editor *)

ShareOrUnshare ==
  /\ Disturbs
  /\ shared' = ~shared /\ reshared' = TRUE
  /\ UNCHANGED <<talk, memory, jobs, results, runs, drafts, considered>>

\* Mutant: the change token is left alone.
FreshSameRevision(f, enabled) ==
  [files[f] EXCEPT !.enabled = enabled, !.epoch = @ + 1,
                   !.content = {}, !.lastJob = Null, !.status = "idle"]

Fresh(f, enabled) ==
  [files[f] EXCEPT !.enabled = enabled, !.epoch = @ + 1, !.revision = @ + 1,
                   !.content = {}, !.lastJob = Null, !.status = "idle"]

Reset(fs, on) ==
  /\ files' = [f \in File |-> IF f \in fs THEN Fresh(f, f \in on) ELSE files[f]]
  /\ cut' = [f \in File |-> IF f \in fs THEN {t \in Turn : turns[t] # "new"} ELSE cut[f]]
  /\ UNCHANGED <<talk, jobs, results, runs, people, considered>>

\* wipe_memory_file, for a wipe and for a disabling; enable_memory_file, once
\* for every disabling; and delete_user_private_memories.
Enabled == {f \in File : files[f].enabled}
Wipe(f) == Disturbs /\ Reset({f}, Enabled)
Disable(f) == Disturbs /\ Reset({f}, {})
Enable(f) == f \notin Enabled /\ Reset({f}, {f}) /\ UNCHANGED spent
WipePrivate(a) == /\ Disturbs
                  /\ Reset({a} \cup {f \in {Project} : a = Owner /\ ~shared}, Enabled)

\* The editor loads a file, and saves what it made of it: only over the
\* revision it loaded, and not at all if nothing changed.
OpenDraft(f) ==
  /\ Disturbs /\ drafts[f] = Null
  /\ drafts' = [drafts EXCEPT ![f] = [revision |-> files[f].revision, content |-> files[f].content]]
  /\ UNCHANGED <<talk, memory, jobs, results, runs, shared, reshared, considered>>

SaveDraft(f) ==
  /\ drafts[f] # Null
  /\ \E content \in SUBSET drafts[f].content :
       files' = IF files[f].enabled /\ files[f].revision = drafts[f].revision
                   /\ content # files[f].content
                THEN [files EXCEPT ![f].content = content, ![f].revision = @ + 1,
                                   ![f].lastJob = Null,
                                   ![f].status = IF @ = "failed" THEN "idle" ELSE @]
                ELSE files
  /\ drafts' = [drafts EXCEPT ![f] = Null]
  /\ UNCHANGED <<talk, cut, jobs, results, runs, shared, reshared, spent, considered>>

-----------------------------------------------------------------------------
(* The queue: claims, outcomes, abandonment.                               *)

\* The execution that holds a job has stopped.
Orphaned(j) == /\ jobs[j].status = "running"
               /\ ~\E q \in Runner : runs[q].job = j /\ jobs[j].holder = q

\* Mutant: a job is handed out again however often it was.
ClaimForEver(r, j) ==
  /\ runs[r].pc = "idle"
  /\ jobs[j].status = "pending" \/ Orphaned(j)
  /\ jobs' = [jobs EXCEPT ![j].status = "running", ![j].attempts = @ + 1, ![j].holder = r]
  /\ runs' = [runs EXCEPT ![r] = [IdleRun EXCEPT !.pc = "load", !.job = j,
                                                !.attempt = jobs[j].attempts + 1]]
  /\ UNCHANGED <<talk, memory, results, people, spent, considered>>

\* A job may be taken for orphaned while its execution goes on.
Claim(r, j) ==
  /\ runs[r].pc = "idle"
  /\ jobs[j].attempts < MaxAttempts
  /\ \/ (jobs[j].status = "pending" \/ Orphaned(j)) /\ UNCHANGED spent
     \/ jobs[j].status = "running" /\ ~Orphaned(j) /\ Disturbs
  /\ jobs' = [jobs EXCEPT ![j].status = "running", ![j].attempts = @ + 1, ![j].holder = r]
  /\ runs' = [runs EXCEPT ![r] = [IdleRun EXCEPT !.pc = "load", !.job = j,
                                                !.attempt = jobs[j].attempts + 1]]
  /\ UNCHANGED <<talk, memory, results, people, considered>>

\* A job that crashed on its last attempt is failed by the claim, in SQL.
Abandon(j) ==
  /\ Orphaned(j) /\ jobs[j].attempts >= MaxAttempts
  /\ jobs' = [jobs EXCEPT ![j].status = "failed", ![j].holder = Null]
  /\ UNCHANGED <<talk, memory, results, runs, people, spent, considered>>

RunDies(r) ==
  /\ Disturbs /\ runs[r].pc # "idle"
  /\ runs' = [runs EXCEPT ![r] = IdleRun]
  /\ UNCHANGED <<talk, memory, jobs, results, people, considered>>

-----------------------------------------------------------------------------
(* handleMemoryConsolidation, by an execution r of job j.                  *)

Goes(r, pc) == runs' = [runs EXCEPT ![r].pc = pc]

\* The handler is about to return or throw; first it sets the files' status.
Ends(r, ask, result) ==
  runs' = [runs EXCEPT ![r].pc = "refresh", ![r].ask = ask, ![r].result = result]

Source(j) == ConvOf[j[1]]
Superseded(j) == activity[Source(j)].deleted \/ states[Source(j)][j[2]].generation # jobs[j].generation

\* The state is read, compared with the payload, and marked processing under
\* the same comparison.
Load(r, j) ==
  /\ runs[r].pc = "load"
  /\ IF Superseded(j) \/ ~Behind(Source(j), j[2])
     THEN Ends(r, "idle", "done")
     ELSE Ends(r, "processing", "none")
  /\ UNCHANGED <<memory, jobs, results, considered>>

\* refresh_memory_file_status for the files of the payload: what other jobs
\* are at goes before what was asked for.
OtherJobs(j, f) == {k \in Job \ {j} : jobs[k].epochs[f] = files[f].epoch}
StatusFor(j, f, ask) ==
  LET others == {jobs[k].status : k \in OtherJobs(j, f)}
  IN IF ask = "processing" THEN ask
     ELSE IF "running" \in others THEN "processing"
     ELSE IF "pending" \in others THEN "scheduled" ELSE ask

Refresh(r, j) ==
  /\ runs[r].pc = "refresh"
  /\ files' = [f \in File |->
       IF files[f].enabled /\ jobs[j].epochs[f] = files[f].epoch
       THEN [files[f] EXCEPT !.status = StatusFor(j, f, runs[r].ask)] ELSE files[f]]
  /\ CASE runs[r].result = "none" -> Goes(r, "gate")
       [] runs[r].result = "hooked" -> runs' = [runs EXCEPT ![r] = IdleRun]
       [] OTHER -> Goes(r, "report")
  /\ UNCHANGED <<cut, jobs, results, considered>>

\* Mutant: a job that comes too early is skipped.
GateSkips(r, j) ==
  /\ runs[r].pc = "gate"
  /\ LET a == activity[Source(j)] IN
     IF a.deleted \/ a.generation # jobs[j].convGeneration \/ a.noisy THEN Ends(r, "idle", "done")
     ELSE Goes(r, "leases")
  /\ UNCHANGED <<memory, jobs, results, considered>>

\* conversationGate reads the conversation's generation and quiet_until ...
Gate(r, j) ==
  /\ runs[r].pc = "gate"
  /\ LET a == activity[Source(j)] IN
     IF a.deleted \/ a.generation # jobs[j].convGeneration THEN Ends(r, "idle", "done")
     ELSE IF a.noisy THEN Ends(r, "scheduled", "deferred") ELSE Goes(r, "leases")
  /\ UNCHANGED <<memory, jobs, results, considered>>

\* ... and then its leases.
GateLeases(r, j) ==
  /\ runs[r].pc = "leases"
  /\ IF Leased(Source(j)) THEN Ends(r, "scheduled", "deferred") ELSE Goes(r, "transcript")
  /\ UNCHANGED <<memory, jobs, results, considered>>

\* Mutant: turns of the time when the project was shared count as well.
TranscriptOfAll(j, f) ==
  {t \in (Done(Source(j)) \cap jobs[j].window[f]) \ cut[f] : f = Project \/ ActorOf[t] = j[2]}

\* Mutant: the cutoff of the file is not looked at.
TranscriptUncut(j, f) ==
  {t \in Done(Source(j)) \cap jobs[j].window[f] : f = Project \/ (ActorOf[t] = j[2] /\ t \in private)}

\* What a window of the conversation shows a participant for a file, asked
\* after the file's cutoff: everybody's turns for the project's, for their own
\* those of their turns that were private when they ended.
Shows(c, a, f, window) ==
  {t \in (Done(c) \cap window) \ cut[f] : f = Project \/ (ActorOf[t] = a /\ t \in private)}

Transcript(j, f) == Shows(Source(j), j[2], f, jobs[j].window[f])

\* The limits of a transcript drop no more turns than the conversation has too
\* many.
MayDrop(c, dropped) == dropped = {} \/ Cardinality(dropped) + Room <= Cardinality(Done(c))

\* loadConversation and the choice of files.  A file that was reset since the
\* job was scheduled, or is out of bounds by now, is done with.
Read(r, j) ==
  /\ runs[r].pc = "transcript"
  /\ LET c == Source(j)
         readable == ~activity[c].deleted /\ CanRead(j[2], c)
         asked == {f \in File : /\ readable /\ jobs[j].epochs[f] # NoEpoch
                                /\ f = Project => CanEdit(j[2])}
         past == {f \in asked : \/ jobs[j].epochs[f] # files[f].epoch
                                \/ f # Project /\ ~AppAllowed(c)}
         open == {f \in asked \ past : files[f].enabled}
     IN \E seen \in [File -> SUBSET Done(c)] :
          LET todo == {f \in File : seen[f] # {}} IN
          /\ \A f \in File : IF f \in open THEN /\ seen[f] \subseteq Transcript(j, f)
                                               /\ MayDrop(c, Transcript(j, f) \ seen[f])
                            ELSE seen[f] = {}
          /\ runs' = [runs EXCEPT ![r].pc = IF todo = {} THEN "nothing" ELSE "check", ![r].todo = todo,
                                  ![r].seen = seen]
          /\ results' = results \cup ({j} \X past)
  /\ UNCHANGED <<memory, jobs, considered>>

\* The actor's file comes before the project's.
At(r) == IF runs[r].job[2] \in runs[r].todo THEN runs[r].job[2] ELSE Project

Through(r, failed) ==
  LET left == runs[r].todo \ {At(r)} IN
  runs' = [runs EXCEPT ![r].todo = left, ![r].pc = IF left = {} THEN "finalize" ELSE "check",
                       ![r].failed = @ \/ failed, ![r].base = Empty]

\* recordedResult: an earlier attempt may be through with this file.
CheckResult(r, j) ==
  /\ runs[r].pc = "check"
  /\ IF <<j, At(r)>> \in results THEN Through(r, FALSE) ELSE Goes(r, "current")
  /\ UNCHANGED <<memory, jobs, results, considered>>

\* getMemoryCurrent
ReadCurrent(r, j) ==
  LET f == At(r) IN
  /\ runs[r].pc = "current"
  /\ IF files[f].enabled /\ files[f].epoch = jobs[j].epochs[f]
     THEN /\ runs' = [runs EXCEPT ![r].pc = "curate",
                       ![r].base = [revision |-> files[f].revision, content |-> files[f].content]]
          /\ UNCHANGED results
     ELSE Through(r, FALSE) /\ results' = results \cup {<<j, f>>}
  /\ UNCHANGED <<memory, jobs, considered>>

\* The model is asked, and answers with no call ...
KeepsFile(r, j) ==
  /\ runs[r].pc = "curate"
  /\ Through(r, FALSE)
  /\ results' = results \cup {<<j, At(r)>>}
  /\ considered' = [considered EXCEPT ![At(r)] = @ \cup runs[r].seen[At(r)]]
  /\ UNCHANGED <<memory, jobs>>

\* ... not at all ...
CuratorFails(r, j) ==
  /\ runs[r].pc = "curate"
  /\ Through(r, TRUE)
  /\ UNCHANGED <<memory, jobs, results, considered>>

\* ... or with a replacement that adds to what it read; for the project's
\* file the actor's role is looked up again.
CallsWrite(r, j) ==
  LET f == At(r) IN
  /\ runs[r].pc = "curate" /\ ~(runs[r].seen[f] \subseteq runs[r].base.content)
  /\ IF f = Project => CanEdit(j[2]) THEN Goes(r, "write") /\ UNCHANGED results
     ELSE Through(r, FALSE) /\ results' = results \cup {<<j, f>>}
  /\ UNCHANGED <<memory, jobs, considered>>

Quiet(c) == ~activity[c].noisy /\ ~Leased(c)

\* Mutant: a curator does not mind turns that started since it looked.
VerdictLoud(r, j, f) ==
  IF ~files[f].enabled \/ files[f].epoch # jobs[j].epochs[f] THEN "past"
  ELSE IF files[f].revision # runs[r].base.revision THEN "conflict"
  ELSE IF Superseded(j) THEN "superseded"
  ELSE IF files[f].lastJob = j THEN "again"
  ELSE IF f # Project /\ ~AppAllowed(Source(j)) THEN "past" ELSE "apply"

\* What writeMemoryFile and then write_memory_file find, in the order of
\* their checks.
Verdict(r, j, f) ==
  LET c == Source(j) IN
  IF ~files[f].enabled \/ files[f].epoch # jobs[j].epochs[f] THEN "past"
  ELSE IF files[f].revision # runs[r].base.revision THEN "conflict"
  ELSE IF Superseded(j) \/ activity[c].generation # jobs[j].convGeneration THEN "superseded"
  ELSE IF ~Quiet(c) THEN "noisy"
  ELSE IF files[f].lastJob = j THEN "again"
  ELSE IF f # Project /\ ~AppAllowed(c) THEN "past" ELSE "apply"

WriteFile(r, j) ==
  LET f == At(r)  verdict == Verdict(r, j, f) IN
  /\ runs[r].pc = "write"
  /\ CASE verdict = "noisy" -> Ends(r, "scheduled", "deferred")
       [] verdict = "superseded" -> Ends(r, "idle", "done")
       [] OTHER -> Through(r, verdict = "conflict")
  /\ results' = IF verdict \in {"noisy", "conflict"} THEN results ELSE results \cup {<<j, f>>}
  /\ considered' = IF verdict \in {"again", "apply"}
                    THEN [considered EXCEPT ![f] = @ \cup runs[r].seen[f]] ELSE considered
  /\ files' = IF verdict # "apply" THEN files
              ELSE [files EXCEPT ![f].content = runs[r].base.content \cup runs[r].seen[f],
                                 ![f].revision = @ + 1, ![f].lastJob = j]
  /\ UNCHANGED <<cut, jobs>>

\* Mutant: a file that failed does not count.
FinalizeAnyway(r, j) ==
  /\ runs[r].pc \in {"finalize", "nothing"}
  /\ Ends(r, "idle", "done")
  /\ states' = IF Superseded(j) THEN states
               ELSE [states EXCEPT ![Source(j)][j[2]].processed = jobs[j].generation]
  /\ UNCHANGED <<memory, jobs, results, considered>>

\* All files done: the generation is processed, unless a file failed or the
\* generation is an old one by now.
Finalize(r, j) ==
  /\ runs[r].pc \in {"finalize", "nothing"}
  /\ IF runs[r].failed
     THEN Ends(r, "scheduled", "thrown") /\ UNCHANGED states
     ELSE IF Superseded(j)
     THEN /\ IF runs[r].pc = "finalize" THEN Ends(r, "idle", "done")
             ELSE runs' = [runs EXCEPT ![r].pc = "report", ![r].result = "done"]
          /\ UNCHANGED states
     ELSE /\ Ends(r, "idle", "done")
          /\ states' = [states EXCEPT ![Source(j)][j[2]].processed = jobs[j].generation]
  /\ UNCHANGED <<memory, jobs, results, considered>>

\* A query fails, and with it the handler.
Throws(r) ==
  /\ Disturbs /\ runs[r].result # "hooked"
  /\ runs[r].pc \in {"load", "refresh", "gate", "transcript", "check", "finalize"}
  /\ runs' = [runs EXCEPT ![r].pc = "report", ![r].result = "thrown"]
  /\ UNCHANGED <<memory, jobs, results, considered>>

\* processClaimedJob: the outcome counts while the claim is the latest one; a
\* spent job's failure hook runs in any case.
Report(r, j) ==
  LET spentNow == runs[r].result = "thrown" /\ runs[r].attempt >= MaxAttempts IN
  /\ runs[r].pc = "report"
  /\ jobs' = IF jobs[j].status = "running" /\ jobs[j].holder = r
             THEN [jobs EXCEPT ![j].holder = Null,
                     ![j].status = CASE runs[r].result = "done" -> "done"
                                     [] spentNow -> "failed" [] OTHER -> "pending",
                     ![j].attempts = IF runs[r].result = "deferred" THEN @ - 1 ELSE @]
             ELSE jobs
  /\ runs' = [runs EXCEPT ![r] = IF spentNow THEN [@ EXCEPT !.pc = "hook"] ELSE IdleRun]
  /\ UNCHANGED <<memory, results, considered>>

\* markMemoryConsolidationFailed
Hook(r, j) ==
  /\ runs[r].pc = "hook"
  /\ IF activity[Source(j)].deleted \/ ~Superseded(j) THEN Ends(r, "failed", "hooked")
     ELSE runs' = [runs EXCEPT ![r] = IdleRun]
  /\ UNCHANGED <<memory, jobs, results, considered>>

Consolidate(r) ==
  LET j == runs[r].job IN
  /\ runs[r].pc # "idle"
  /\ \/ Throws(r) /\ UNCHANGED states
     \/ Finalize(r, j) /\ UNCHANGED spent
     \/ /\ \/ Load(r, j) \/ Refresh(r, j) \/ Gate(r, j) \/ GateLeases(r, j) \/ Read(r, j)
           \/ CheckResult(r, j) \/ ReadCurrent(r, j) \/ KeepsFile(r, j) \/ CuratorFails(r, j)
           \/ CallsWrite(r, j) \/ WriteFile(r, j) \/ Report(r, j) \/ Hook(r, j)
        /\ UNCHANGED <<states, spent>>
  /\ UNCHANGED <<turns, upTo, curates, private, activity, people>>

-----------------------------------------------------------------------------
Next ==
  \/ \E t \in Turn : \/ BeginTurn(t) \/ BeginSchedule(t) \/ CompleteTurn(t)
                      \/ ReleaseTurn(t) \/ LeaseExpires(t)
  \/ \E c \in Conv : QuietComes(c) \/ DeleteConversation(c)
  \/ ShareOrUnshare \/ \E a \in Actor : WipePrivate(a)
  \/ \E f \in File : Wipe(f) \/ Disable(f) \/ Enable(f) \/ OpenDraft(f) \/ SaveDraft(f)
  \/ \E r \in Runner, j \in Job : Claim(r, j)
  \/ \E j \in Job : Abandon(j)
  \/ \E r \in Runner : Consolidate(r) \/ RunDies(r)

Spec == Init /\ [][Next]_vars

\* Leases and quiet windows run out, the queue hands out every job time and
\* again and gives up on dead executions, and handlers end.
Fairness ==
  /\ \A t \in Turn : WF_vars(LeaseExpires(t))
  /\ \A c \in Conv : WF_vars(QuietComes(c))
  /\ \A j \in Job : SF_vars(\E r \in Runner : Claim(r, j)) /\ WF_vars(Abandon(j))
  /\ \A r \in Runner : WF_vars(Consolidate(r))

FairSpec == Spec /\ Fairness

-----------------------------------------------------------------------------
(* Correctness *)

RunPc == {"idle", "load", "refresh", "gate", "leases", "transcript", "nothing", "check",
          "current", "curate", "write", "finalize", "report", "hook"}

\* The types of the tables and of the executions; attempts stay within the
\* budget although deferrals give theirs back (lib/dbq/runner.ts).
TypeOK ==
  /\ turns \in [Turn -> {"new", "open", "lapsed", "lost", "over", "done"}]
  /\ upTo \in [Turn -> SUBSET Turn]
  /\ curates \subseteq Turn /\ private \subseteq Turn /\ shared \in BOOLEAN
  /\ activity \in [Conv -> [generation : Nat, window : SUBSET Turn, curator : Actor \cup {Null},
                            noisy : BOOLEAN, deleted : BOOLEAN]]
  /\ states \in [Conv -> [Actor -> [generation : Nat, window : SUBSET Turn, processed : Nat,
                                     project : BOOLEAN]]]
  /\ files \in [File -> [enabled : BOOLEAN, epoch : Nat, revision : Nat, content : SUBSET Turn,
                         lastJob : Job \cup {Null},
                         status : {"idle", "scheduled", "processing", "failed"}]]
  /\ cut \in [File -> SUBSET Turn] /\ considered \in [File -> SUBSET Turn]
  /\ jobs \in [Job -> [status : {"absent", "pending", "running", "done", "failed"},
                       generation : Nat, convGeneration : Nat,
                       epochs : [File -> Nat \cup {NoEpoch}], window : [File -> SUBSET Turn],
                       attempts : 0..MaxAttempts, holder : Runner \cup {Null}]]
  /\ results \subseteq Job \X File
  /\ runs \in [Runner -> [pc : RunPc, job : Job \cup {Null}, attempt : 0..MaxAttempts,
                          ask : {"none", "idle", "scheduled", "processing", "failed"},
                          result : {"none", "done", "deferred", "thrown", "hooked"},
                          todo : SUBSET File, seen : [File -> SUBSET Turn],
                          base : [revision : Nat, content : SUBSET Turn], failed : BOOLEAN]]
  /\ drafts \in [File -> [revision : Nat, content : SUBSET Turn] \cup {Null}]
  /\ spent \in 0..MaxEvents /\ reshared \in BOOLEAN

\* What was said before a wipe, a disabling or an enabling is never learned
\* again, by jobs that were queued or running at the time either, and not from
\* a turn that was asked before and answered after (docs/memory.md, "Disable,
\* wipe, and deletion").
ForgottenStaysForgotten == \A f \in File : files[f].content \cap cut[f] = {}

\* Whoever holds the current revision of a file, a curator or an editor, holds
\* its current content: the compare-and-swap of write_memory_file never
\* replaces something its writer has not seen.
RevisionNamesContent ==
  /\ \A r \in Runner : runs[r].pc \in {"curate", "write"} /\ runs[r].base.revision = files[At(r)].revision
                           => runs[r].base.content = files[At(r)].content
  /\ \A f \in File : drafts[f] # Null /\ drafts[f].revision = files[f].revision
                           => drafts[f].content = files[f].content

\* What was said in a shared project never gets into anybody's own memory, even
\* if the project is private again when a job runs (docs/memory.md, "How memory
\* is learned").
AppMemoryIsPrivate == \A a \in Actor : files[a].content \subseteq private

\* What a participant may learn into a file from where the conversation, or
\* the participant in it, has got to.
Learnable(c, a, f) ==
  Shows(c, a, f, IF f = Project THEN activity[c].window ELSE states[c][a].window)

\* A generation that counts as processed left out no more than the limits of a
\* transcript do: every successful turn up to where the participant had got to
\* and since the file's cutoff was shown to a curator, the private ones for
\* their author's file and, if the participant curates the project, everybody's
\* for the project's.  A change of sharing may let turns go unlearned.
ProcessedMeansConsidered ==
  ~reshared =>
    \A c \in Conv, a \in Actor :
      states[c][a].generation > 0 /\ ~Behind(c, a) =>
        \A f \in {a} \cup {g \in {Project} : activity[c].curator = a} :
          files[f].enabled => MayDrop(c, Learnable(c, a, f) \ considered[f])

\* A curator commits only while nobody is talking in its conversation, with
\* everything in view up to where the conversation or its actor has got to but
\* for the limits of a transcript (docs/memory.md, "A turn starts"), and for an
\* actor only while the project is not shared.
Applies(r) ==
  /\ runs[r].pc = "write"
  /\ files'[At(r)].lastJob = runs[r].job /\ files'[At(r)].revision # files[At(r)].revision
CommitsOnAllThatWasSaid ==
  [][\A r \in Runner : Applies(r) =>
       LET c == Source(runs[r].job)  a == runs[r].job[2]  f == At(r) IN
       /\ ~Leased(c) /\ (f = Project \/ AppAllowed(c))
       /\ MayDrop(c, Learnable(c, a, f) \ runs[r].seen[f])]_vars

\* Every successful turn is consolidated, or its job fails for good: rearming
\* leaves no generation behind without a job.
TurnsAreConsolidated ==
  \A c \in Conv, a \in Actor :
    Behind(c, a) ~>
      \/ ~Behind(c, a)
      \/ \E j \in Job : /\ Source(j) = c /\ j[2] = a /\ jobs[j].status = "failed"
                         /\ jobs[j].generation = states[c][a].generation
=============================================================================
