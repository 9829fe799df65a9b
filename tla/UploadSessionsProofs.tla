------------------------ MODULE UploadSessionsProofs ------------------------
(***************************************************************************)
(* For every instance of UploadSessions: its tables keep their types, a    *)
(* file that was reported completed stays so, and what it became is there. *)
(*                                                                         *)
(* Completed stays completed.  Results of a job are written by workers     *)
(* that have just proved that the job is theirs.  A worker that may still  *)
(* have a result to report, and owns the job, looks at a file that is not  *)
(* completed: it has put it to processing itself, and any other worker     *)
(* that completed it would have had to own the job.  All other writes are  *)
(* guarded by a status or a kind of error that a completed file has not.   *)
(*                                                                         *)
(* What it became is there.  What an owner of the job has written of the   *)
(* document is still there when it reports (StoredInv), although nothing   *)
(* fences these writes: others only write the same, and what a worker may  *)
(* still delete is the content it saw before it published.  A worker       *)
(* removes a document itself only when it failed with the job's attempts   *)
(* spent, so that nobody can own the job after it.                         *)
(***************************************************************************)
EXTENDS UploadSessions, TLAPS

SessionRow == [status : {"none", "completed"} \cup Live \cup Swept,
               purpose : {"none"} \cup Purposes,
               cleaned : BOOLEAN, due : BOOLEAN]
FileRow == [session : Session \cup {Null},
            status : {"none", "pending_upload", "verifying", "error"} \cup InHand,
            error : {"none", "terminal", "processing_failed"}, aged : BOOLEAN]
JobRow == [status : {"none", "queued", "running", "completed", "error"},
           attempts : 0..MaxAttempts, by : Worker \cup {Null}, lapsed : BOOLEAN]
WorkerState == [pc : WorkerPc, f : File \cup {Null}, attempt : 0..MaxAttempts,
                saw : File \cup {Old, Null}]
DocRow == [status : {"absent", "processing", "ready", "error"}, current : File \cup {Old, Null}]
RequestState == [pc : RequestPc, on : Session \cup File \cup {Null}]
SweepState == [pc : {"idle", "fail job", "fail file", "wipe"}, on : Session \cup File \cup {Null},
               wipe : SUBSET File]
Stored == {"staged", "misfit", "sealed", "source"} \X (File \cup {Old})

\* A file is completed without an error, and never under an owner of its job
\* who has yet to report on it.
Settled ==
  /\ \A f \in File : files[f].status = "completed" => files[f].error = "none"
  /\ \A w \in Worker, f \in File :
       workers[w].f = f /\ workers[w].pc \in Outlasting /\ Owns(w, f)
         => files[f].status # "completed"

UploadInv == TypeOK /\ Settled

LEMMA SessionRowWrites ==
  ASSUME NEW row \in SessionRow,
         NEW st \in {"none", "completed"} \cup Live \cup Swept, NEW b \in BOOLEAN
  PROVE  /\ [row EXCEPT !.status = st, !.cleaned = b] \in SessionRow
         /\ [row EXCEPT !.status = st] \in SessionRow
         /\ [row EXCEPT !.cleaned = b] \in SessionRow
         /\ [row EXCEPT !.due = b] \in SessionRow
BY DEF SessionRow

LEMMA RefreshedType ==
  ASSUME sessions \in [Session -> SessionRow], NEW table, NEW s
  PROVE  Refreshed(table, s) \in [Session -> SessionRow]
<1> DEFINE statuses == {table[f].status : f \in {g \in File : table[g].session = s}}
           next == CASE statuses \cap {"pending_upload", "verifying"} # {} -> "pending_upload"
                [] statuses \cap {"pending_upload", "verifying"} = {}
                   /\ statuses \cap {"uploaded", "processing"} # {} -> "processing"
                [] statuses \cap {"pending_upload", "verifying", "uploaded", "processing"} = {}
                   /\ "completed" \in statuses -> "completed"
                [] OTHER -> "error"
<1>1. next \in {"pending_upload", "processing", "completed", "error"}
  <2> HIDE DEF statuses
  <2>. QED OBVIOUS
<1>2. Refreshed(table, s) = IF sessions[s].status \in {"cancelled", "expired"} THEN sessions
        ELSE [sessions EXCEPT ![s].status = next, ![s].cleaned = @ \/ next = "completed"]
  BY DEF Refreshed
<1> HIDE DEF next
<1>3. ASSUME NEW t \in Session
      PROVE  [sessions[t] EXCEPT !.status = next, !.cleaned = @ \/ next = "completed"] \in SessionRow
  <2>1. sessions[t] \in SessionRow
    OBVIOUS
  <2>2. (sessions[t].cleaned \/ next = "completed") \in BOOLEAN
    BY Zenon
  <2>3. next \in {"none", "completed"} \cup Live \cup Swept
    BY <1>1 DEF Live, Swept
  <2>. QED BY <2>1, <2>2, <2>3, SessionRowWrites, Zenon
<1>4. [sessions EXCEPT ![s].status = next, ![s].cleaned = @ \/ next = "completed"]
        = [t \in Session |-> IF t = s
             THEN [sessions[t] EXCEPT !.status = next, !.cleaned = @ \/ next = "completed"]
             ELSE sessions[t]]
  OBVIOUS
<1>5. [t \in Session |-> IF t = s
         THEN [sessions[t] EXCEPT !.status = next, !.cleaned = @ \/ next = "completed"]
         ELSE sessions[t]] \in [Session -> SessionRow]
  BY <1>3, Zenon
<1>. QED BY <1>2, <1>4, <1>5, Zenon

SessionsType == sessions \in [Session -> SessionRow]
FilesType == files \in [File -> FileRow]
JobsType == jobs \in [File -> JobRow]
ObjectsType == objects \subseteq Stored
LibraryType ==
  /\ docs \in [File \cup {Old} -> DocRow]
  /\ versions \in [File \cup {Old} -> File \cup {Old, Null}]
ClientType == client \in [File -> {"away", "sending", "confirming", "reporting"}]
RequestsType == requests \in [Request -> RequestState]
WorkersType == workers \in [Worker -> WorkerState]
SweepType == sweep \in SweepState

ServerType == SessionsType /\ FilesType /\ JobsType /\ ObjectsType
OtherType == LibraryType /\ ClientType /\ RequestsType /\ WorkersType /\ SweepType

LEMMA TypesAreTypes == TypeOK <=> ServerType /\ OtherType
BY DEF TypeOK, ServerType, OtherType, SessionsType, FilesType, JobsType, ObjectsType,
       LibraryType, ClientType, RequestsType, WorkersType, SweepType,
       SessionRow, FileRow, JobRow, DocRow, WorkerState, RequestState, SweepState, Stored

LEMMA WritesType ==
  ASSUME FilesType, NEW f \in File, NEW st, NEW e, Writes(f, st, e),
         st \in {"none", "pending_upload", "verifying", "error"} \cup InHand,
         e \in {"none", "terminal", "processing_failed"}
  PROVE  FilesType'
BY DEF FilesType, Writes, FileRow

LEMMA GoesType ==
  ASSUME RequestsType, NEW r \in Request, NEW pc \in RequestPc, Goes(r, pc)
  PROVE  RequestsType'
BY DEF RequestsType, RequestState, Goes

LEMMA BeginsType ==
  ASSUME RequestsType, NEW r \in Request, NEW pc \in RequestPc,
         NEW on \in Session \cup File \cup {Null}, Begins(r, pc, on)
  PROVE  RequestsType'
BY DEF RequestsType, RequestState, Begins

LEMMA ExpiredType ==
  ASSUME SessionsType, NEW s, sessions' = Expired(s)
  PROVE  SessionsType'
BY DEF SessionsType, Expired, SessionRow, Swept

LEMMA InitType == Init => ServerType /\ OtherType
<1> SUFFICES ASSUME Init PROVE ServerType /\ OtherType
  OBVIOUS
<1>. QED
  BY UploadAssumption DEF Init, UploadAssumption, ServerType, OtherType,
     SessionsType, FilesType, JobsType, ObjectsType, LibraryType, ClientType,
     RequestsType, WorkersType, SweepType, SessionRow, FileRow, JobRow, DocRow,
     WorkerState, RequestState, SweepState, Stored, Idle, Resting, RequestPc, WorkerPc, InHand

LEMMA AskType ==
  ASSUME ServerType, OtherType, Ask
  PROVE  ServerType' /\ OtherType'
<1> USE DEF ServerType, OtherType
<1>1. ASSUME NEW s \in Session, NEW p \in Purposes, NEW fs \in SUBSET File, Create(s, p, fs)
      PROVE  ServerType' /\ OtherType'
  <2>1. SessionsType'
    <3> DEFINE swept == [t \in Session |-> IF sessions[t].status = "pending_upload" /\ sessions[t].due
                                  THEN [sessions[t] EXCEPT !.status = "expired"]
                                  ELSE sessions[t]]
               row == [status |-> "pending_upload", purpose |-> p, cleaned |-> FALSE, due |-> FALSE]
    <3>1. swept \in [Session -> SessionRow]
      BY DEF SessionsType, SessionRow, Swept
    <3>2. row \in SessionRow
      BY DEF SessionRow, Live
    <3>3. sessions' = [swept EXCEPT ![s] = row]
      BY <1>1 DEF Create
    <3> HIDE DEF swept, row
    <3>. QED BY <3>1, <3>2, <3>3 DEF SessionsType
  <2>2. FilesType'
    BY <1>1 DEF Create, FilesType, FileRow
  <2>3. ClientType'
    BY <1>1 DEF Create, ClientType
  <2>4. UNCHANGED <<jobs, objects, library, requests, workers, sweep>>
    BY <1>1 DEF Create
  <2>. QED BY <2>1, <2>2, <2>3, <2>4 DEF library, JobsType, ObjectsType, LibraryType, RequestsType, WorkersType, SweepType
<1>2. ASSUME NEW f \in File, NEW kind \in {"staged", "misfit"}, Put(f, kind)
      PROVE  ServerType' /\ OtherType'
  <2>1. ObjectsType' /\ ClientType'
    BY <1>2 DEF Put, ObjectsType, Stored, ClientType
  <2>2. UNCHANGED <<sessions, files, jobs, library, requests, workers, sweep>>
    BY <1>2 DEF Put
  <2>. QED BY <2>1, <2>2 DEF library, SessionsType, FilesType, JobsType, LibraryType, RequestsType, WorkersType, SweepType
<1>3. ASSUME NEW r \in Request, NEW f \in File, Confirm(r, f)
      PROVE  ServerType' /\ OtherType'
  <2> DEFINE pc == CASE files[f].status = "uploaded" -> "queue"
                     [] files[f].status = "verifying" -> "recover"
                     [] files[f].status = "pending_upload" -> "claim"
                     [] OTHER -> "refresh"
  <2>1. SessionsType'
    BY <1>3, ExpiredType DEF Confirm, SessionsType
  <2>2. pc \in RequestPc /\ "over" \in RequestPc
    BY DEF RequestPc
  <2>3. Begins(r, "over", Null) \/ Begins(r, pc, f)
    BY <1>3 DEF Confirm
  <2>4. RequestsType'
    <3> HIDE DEF pc
    <3>. QED BY <2>2, <2>3, BeginsType
  <2>5. UNCHANGED <<files, jobs, objects, library, client, workers, sweep>>
    BY <1>3 DEF Confirm
  <2>. QED BY <2>1, <2>4, <2>5 DEF library, FilesType, JobsType, ObjectsType, LibraryType, ClientType, WorkersType, SweepType
<1>4. ASSUME NEW r \in Request, NEW f \in File, Report(r, f)
      PROVE  ServerType' /\ OtherType'
  <2> DEFINE pc == CASE files[f].status = "verifying" -> "recover failed"
                     [] files[f].status = "pending_upload" -> "discard"
                     [] OTHER -> "refresh"
  <2>1. SessionsType'
    BY <1>4, ExpiredType DEF Report, SessionsType
  <2>2. pc \in RequestPc /\ "over" \in RequestPc
    BY DEF RequestPc
  <2>3. Begins(r, "over", Null) \/ Begins(r, pc, f)
    BY <1>4 DEF Report
  <2>4. RequestsType'
    <3> HIDE DEF pc
    <3>. QED BY <2>2, <2>3, BeginsType
  <2>5. ClientType'
    BY <1>4 DEF Report, ClientType
  <2>6. UNCHANGED <<files, jobs, objects, library, workers, sweep>>
    BY <1>4 DEF Report
  <2>. QED BY <2>1, <2>4, <2>5, <2>6 DEF library, FilesType, JobsType, ObjectsType, LibraryType, WorkersType, SweepType
<1>5. ASSUME NEW r \in Request, NEW s \in Session, Cancel(r, s)
      PROVE  ServerType' /\ OtherType'
  <2>1. Begins(r, "cancel", s) /\ "cancel" \in RequestPc
    BY <1>5 DEF Cancel, RequestPc
  <2>2. RequestsType'
    BY <2>1, BeginsType
  <2>3. ClientType'
    BY <1>5 DEF Cancel, ClientType
  <2>4. UNCHANGED <<server, library, workers, sweep>>
    BY <1>5 DEF Cancel
  <2>. QED BY <2>2, <2>3, <2>4 DEF server, library, SessionsType, FilesType, JobsType, ObjectsType, LibraryType, WorkersType, SweepType
<1>6. ASSUME NEW s \in Session, RefreshUrls(s)
      PROVE  ServerType' /\ OtherType'
  <2>1. SessionsType'
    BY <1>6, ExpiredType DEF RefreshUrls, SessionsType
  <2>2. FilesType'
    <3>1. ASSUME NEW f \in File
          PROVE  [files[f] EXCEPT !.status = "pending_upload", !.error = "none", !.aged = FALSE] \in FileRow
      <4>1. files[f] \in FileRow
        BY DEF FilesType
      <4>. QED BY <4>1 DEF FileRow
    <3>. QED BY <1>6, <3>1 DEF RefreshUrls, FilesType
  <2>3. UNCHANGED <<jobs, objects, library, client, requests, workers, sweep>>
    BY <1>6 DEF RefreshUrls
  <2>. QED BY <2>1, <2>2, <2>3 DEF library, JobsType, ObjectsType, LibraryType, ClientType, RequestsType, WorkersType, SweepType
<1>. QED BY <1>1, <1>2, <1>3, <1>4, <1>5, <1>6 DEF Ask

\* What serving a request may do to the tables.
LEMMA ServeType ==
  ASSUME ServerType, OtherType, NEW r \in Request, Serve(r)
  PROVE  ServerType' /\ OtherType'
<1> USE DEF ServerType, OtherType
<1> DEFINE Good == ServerType' /\ RequestsType'
<1>1. ASSUME NEW f \in File, Recover(r, f) PROVE Good
  <2>1. FilesType'
    <3>1. files[f].error \in {"none", "terminal", "processing_failed"}
      BY DEF FilesType, FileRow
    <3>. QED BY <1>1, <3>1, WritesType DEF Recover, FilesType
  <2>2. RequestsType'
    BY <1>1, GoesType DEF Recover, RequestPc
  <2>. QED BY <1>1, <2>1, <2>2 DEF Recover, SessionsType, JobsType, ObjectsType
<1>2. ASSUME NEW f \in File, Claim(r, f) PROVE Good
  <2>1. FilesType'
    <3>1. files[f].error \in {"none", "terminal", "processing_failed"}
      BY DEF FilesType, FileRow
    <3>. QED BY <1>2, <3>1, WritesType DEF Claim, FilesType
  <2>2. RequestsType'
    BY <1>2, GoesType DEF Claim, RequestPc
  <2>. QED BY <1>2, <2>1, <2>2 DEF Claim, SessionsType, JobsType, ObjectsType
<1>3. ASSUME NEW f \in File, Verify(r, f) PROVE Good
  <2>1. ObjectsType'
    BY <1>3 DEF Verify, ObjectsType
  <2>2. RequestsType'
    BY <1>3, GoesType DEF Verify, RequestPc
  <2>. QED BY <1>3, <2>1, <2>2 DEF Verify, SessionsType, FilesType, JobsType
<1>4. ASSUME NEW f \in File, Copy(r, f) PROVE Good
  <2>1. ObjectsType'
    BY <1>4 DEF Copy, ObjectsType, Stored
  <2>2. RequestsType'
    BY <1>4, GoesType DEF Copy, RequestPc
  <2>. QED BY <1>4, <2>1, <2>2 DEF Copy, SessionsType, FilesType, JobsType
<1>5. ASSUME NEW f \in File, WriteSealResult(r, f) PROVE Good
  <2>1. FilesType'
    <3>1. files[f].error \in {"none", "terminal", "processing_failed"}
      BY DEF FilesType, FileRow
    <3>2. \/ files' = files
          \/ Writes(f, "uploaded", "none")
          \/ Writes(f, "error", "terminal")
          \/ Writes(f, "pending_upload", files[f].error)
      BY <1>5 DEF WriteSealResult
    <3>. QED BY <3>1, <3>2, WritesType DEF FilesType, InHand
  <2>2. Goes(r, "queue") \/ Goes(r, "refresh")
    BY <1>5 DEF WriteSealResult
  <2>3. RequestsType'
    BY <2>2, GoesType DEF RequestPc
  <2>. QED BY <1>5, <2>1, <2>3 DEF WriteSealResult, SessionsType, JobsType, ObjectsType
<1>6. ASSUME NEW f \in File, QueueFileProcessing(r, f) PROVE Good
  <2>1. JobsType'
    BY <1>6 DEF QueueFileProcessing, JobsType, JobRow
  <2>2. RequestsType'
    BY <1>6, GoesType DEF QueueFileProcessing, RequestPc
  <2>. QED BY <1>6, <2>1, <2>2 DEF QueueFileProcessing, SessionsType, FilesType, ObjectsType
<1>7. ASSUME NEW f \in File, ExtendAndRefresh(r, f) PROVE Good
  <2> DEFINE s == files[f].session
             R == Refreshed(files, s)
  <2>1. PICK extended \in BOOLEAN : sessions' = [R EXCEPT ![s].due = @ /\ ~extended]
    BY <1>7 DEF ExtendAndRefresh
  <2>2. R \in [Session -> SessionRow]
    BY RefreshedType DEF SessionsType
  <2>3. SessionsType'
    <3> HIDE DEF s, R
    <3>1. ASSUME NEW t \in Session PROVE [R[t] EXCEPT !.due = @ /\ ~extended] \in SessionRow
      <4>1. (R[t].due /\ ~extended) \in BOOLEAN /\ R[t] \in SessionRow
        BY <2>2, Zenon
      <4>. QED BY <4>1, SessionRowWrites, Zenon DEF Live, Swept
    <3>2. sessions' = [t \in Session |-> IF t = s THEN [R[t] EXCEPT !.due = @ /\ ~extended] ELSE R[t]]
      BY <2>1, <2>2
    <3>. QED BY <2>2, <3>1, <3>2 DEF SessionsType
  <2>4. RequestsType'
    BY <1>7, GoesType DEF ExtendAndRefresh, RequestPc
  <2>. QED BY <1>7, <2>3, <2>4 DEF ExtendAndRefresh, FilesType, JobsType, ObjectsType
<1>8. ASSUME NEW f \in File, Discard(r, f) PROVE Good
  <2>1. ObjectsType'
    BY <1>8 DEF Discard, ObjectsType
  <2>2. RequestsType'
    BY <1>8, GoesType DEF Discard, RequestPc
  <2>. QED BY <1>8, <2>1, <2>2 DEF Discard, SessionsType, FilesType, JobsType
<1>9. ASSUME NEW f \in File, FailTransfer(r, f) PROVE Good
  <2>1. FilesType'
    BY <1>9, WritesType DEF FailTransfer, FilesType
  <2>2. RequestsType'
    BY <1>9, GoesType DEF FailTransfer, RequestPc
  <2>. QED BY <1>9, <2>1, <2>2 DEF FailTransfer, SessionsType, JobsType, ObjectsType
<1>10. ASSUME NEW s \in Session, CancelSession(r, s) PROVE Good
  <2>1. SessionsType'
    BY <1>10 DEF CancelSession, SessionsType, SessionRow, Swept
  <2>2. RequestsType'
    BY <1>10, GoesType DEF CancelSession, RequestPc
  <2>. QED BY <1>10, <2>1, <2>2 DEF CancelSession, FilesType, JobsType, ObjectsType
<1>11. ASSUME NEW s \in Session, WipeSession(r, s) PROVE Good
  <2>1. SessionsType'
    BY <1>11 DEF WipeSession, SessionsType, SessionRow
  <2>2. RequestsType'
    BY <1>11, GoesType DEF WipeSession, RequestPc
  <2>3. ObjectsType'
    BY <1>11 DEF WipeSession, ObjectsType
  <2>. QED BY <1>11, <2>1, <2>2, <2>3 DEF WipeSession, FilesType, JobsType
<1>12. ASSUME RequestDies(r) PROVE Good
  <2>1. RequestsType'
    BY <1>12, GoesType DEF RequestDies, RequestPc
  <2>. QED BY <1>12, <2>1 DEF RequestDies, server, SessionsType, FilesType, JobsType, ObjectsType
<1>13. Good
  BY <1>1, <1>2, <1>3, <1>4, <1>5, <1>6, <1>7, <1>8, <1>9, <1>10, <1>11, <1>12 DEF Serve
<1>14. UNCHANGED <<library, client, workers, sweep>>
  BY DEF Serve
<1>. QED BY <1>13, <1>14 DEF library, LibraryType, ClientType, WorkersType, SweepType

LEMMA StepsType ==
  ASSUME WorkersType, NEW w \in Worker, NEW pc \in WorkerPc, Steps(w, pc)
  PROVE  WorkersType'
BY DEF WorkersType, WorkerState, Steps

LEMMA RestsType ==
  ASSUME WorkersType, NEW w \in Worker, Rests(w)
  PROVE  WorkersType'
<1>1. 0 \in 0..MaxAttempts
  BY UploadAssumption DEF UploadAssumption
<1>2. Idle \in WorkerState
  BY <1>1 DEF WorkerState, WorkerPc, Idle
<1>. QED BY <1>2 DEF WorkersType, Rests

LEMMA HeartbeatType ==
  ASSUME JobsType, NEW w, NEW f \in File, Heartbeat(w, f)
  PROVE  JobsType'
BY DEF JobsType, JobRow, Heartbeat

LEMMA WorkType ==
  ASSUME ServerType, OtherType, NEW w \in Worker, Work(w)
  PROVE  ServerType' /\ OtherType'
<1> USE DEF ServerType, OtherType
<1> DEFINE Good == ServerType' /\ LibraryType' /\ WorkersType'
           f == workers[w].f
<1>1. ASSUME NEW g \in File, ClaimJob(w, g) PROVE Good
  <2> DEFINE table == IF files[g].status = "uploaded" \/ files[g].error = "processing_failed"
                      THEN [files EXCEPT ![g].status = "processing", ![g].error = "none"]
                      ELSE files
  <2>1. table \in [File -> FileRow] /\ files' = table
    <3>1. table \in [File -> FileRow]
      BY DEF FilesType, FileRow, InHand
    <3>. QED BY <1>1, <3>1 DEF ClaimJob
  <2>2. FilesType'
    BY <2>1 DEF FilesType
  <2>3. SessionsType'
    <3>1. sessions' = Refreshed(table, files[g].session)
      BY <1>1 DEF ClaimJob
    <3> HIDE DEF table
    <3>. QED BY <3>1, RefreshedType DEF SessionsType
  <2>4. jobs[g].attempts + 1 \in 0..MaxAttempts
    BY <1>1, UploadAssumption DEF ClaimJob, JobsType, JobRow, UploadAssumption
  <2>5. JobsType'
    <3>1. [status |-> "running", attempts |-> jobs[g].attempts + 1, by |-> w, lapsed |-> FALSE] \in JobRow
      BY <2>4 DEF JobRow
    <3>. QED BY <1>1, <3>1 DEF ClaimJob, JobsType
  <2>6. WorkersType'
    <3>1. [pc |-> "begin", f |-> g, saw |-> Null, attempt |-> jobs[g].attempts + 1] \in WorkerState
      BY <2>4 DEF WorkerState, WorkerPc
    <3>. QED BY <1>1, <3>1 DEF ClaimJob, WorkersType
  <2>. QED BY <1>1, <2>2, <2>3, <2>5, <2>6 DEF ClaimJob, library, ObjectsType, LibraryType
<1>2. ASSUME f \in File, Begin(w, f) PROVE Good
  <2>1. WorkersType'
    <3>1. Rests(w) \/ \E pc \in {"finish", "purge", "download"} : Steps(w, pc)
      BY <1>2 DEF Begin
    <3>. QED BY <3>1, StepsType, RestsType DEF WorkerPc
  <2>2. FilesType'
    BY <1>2, WritesType DEF Begin, FilesType, InHand
  <2>3. JobsType'
    BY <1>2, HeartbeatType DEF Begin, JobsType
  <2>. QED BY <1>2, <2>1, <2>2, <2>3 DEF Begin, library, SessionsType, ObjectsType, LibraryType
<1>3. ASSUME f \in File, Download(w, f) PROVE Good
  <2> DEFINE pc == IF <<"sealed", f>> \notin objects THEN "failed"
                   ELSE IF PurposeOf(f) = "document_create" THEN "upsert" ELSE "copy"
             saw == IF PurposeOf(f) = "document_version_replace" THEN versions[Old] ELSE Null
  <2>1. pc \in WorkerPc
    BY DEF WorkerPc
  <2>2. saw \in File \cup {Old, Null}
    BY DEF LibraryType
  <2>3. WorkersType'
    <3>1. workers' = [workers EXCEPT ![w].pc = pc, ![w].saw = saw]
      BY <1>3 DEF Download
    <3> HIDE DEF pc, saw, f
    <3>2. [workers[w] EXCEPT !.pc = pc, !.saw = saw] \in WorkerState
      <4>1. workers[w] \in WorkerState
        BY DEF WorkersType
      <4>. QED BY <2>1, <2>2, <4>1 DEF WorkerState
    <3>3. workers' = [workers EXCEPT ![w] = [workers[w] EXCEPT !.pc = pc, !.saw = saw]]
      BY <3>1 DEF WorkersType
    <3>. QED BY <3>2, <3>3 DEF WorkersType
  <2>. QED BY <1>3, <2>3 DEF Download, server, library, SessionsType, FilesType, JobsType, ObjectsType, LibraryType
<1>4. ASSUME f \in File, UpsertDocument(w, f) PROVE Good
  <2>1. LibraryType'
    BY <1>4 DEF UpsertDocument, LibraryType, DocRow
  <2>2. WorkersType'
    BY <1>4, StepsType DEF UpsertDocument, WorkerPc
  <2>. QED BY <1>4, <2>1, <2>2 DEF UpsertDocument, server, SessionsType, FilesType, JobsType, ObjectsType
<1>5. ASSUME f \in File, CopySource(w, f) PROVE Good
  <2>1. ObjectsType'
    BY <1>5 DEF CopySource, ObjectsType, Stored
  <2>2. WorkersType'
    BY <1>5, StepsType DEF CopySource, WorkerPc
  <2>. QED BY <1>5, <2>1, <2>2 DEF CopySource, library, SessionsType, FilesType, JobsType, LibraryType
<1>6. ASSUME f \in File, WriteVersion(w, f) PROVE Good
  <2>1. ObjectsType'
    BY <1>6 DEF WriteVersion, ObjectsType
  <2>2. LibraryType'
    BY <1>6 DEF WriteVersion, LibraryType
  <2>3. WorkersType'
    <3>1. \E pc \in {"failed", "settle", "publish"} : Steps(w, pc)
      BY <1>6 DEF WriteVersion
    <3>. QED BY <3>1, StepsType DEF WorkerPc
  <2>. QED BY <1>6, <2>1, <2>2, <2>3 DEF WriteVersion, SessionsType, FilesType, JobsType
<1>7. ASSUME f \in File, Publish(w, f) PROVE Good
  <2>1. LibraryType'
    <3>1. [status |-> "ready", current |-> VersionOf(f)] \in DocRow
      BY <1>7 DEF DocRow, VersionOf
    <3>. QED BY <1>7, <3>1 DEF Publish, LibraryType
  <2>2. WorkersType'
    BY <1>7, StepsType DEF Publish, WorkerPc
  <2>. QED BY <1>7, <2>1, <2>2 DEF Publish, server, SessionsType, FilesType, JobsType, ObjectsType
<1>8. ASSUME f \in File, Settle(w, f) PROVE Good
  <2>1. WorkersType'
    BY <1>8, StepsType, RestsType DEF Settle, WorkerPc
  <2>2. FilesType'
    BY <1>8, WritesType DEF Settle, FilesType, InHand
  <2>3. JobsType'
    BY <1>8, HeartbeatType DEF Settle, JobsType
  <2>. QED BY <1>8, <2>1, <2>2, <2>3 DEF Settle, library, SessionsType, ObjectsType, LibraryType
<1>9. ASSUME f \in File, DropSealed(w, f) PROVE Good
  <2>1. WorkersType'
    BY <1>9, StepsType DEF DropSealed, WorkerPc
  <2>. QED BY <1>9, <2>1 DEF DropSealed, library, SessionsType, FilesType, JobsType, ObjectsType, LibraryType
<1>10. ASSUME f \in File, FailFile(w, f) PROVE Good
  <2>1. WorkersType'
    <3>1. Rests(w) \/ \E pc \in {"requeue", "give up"} : Steps(w, pc)
      BY <1>10 DEF FailFile
    <3>. QED BY <3>1, StepsType, RestsType DEF WorkerPc
  <2>2. FilesType'
    BY <1>10, WritesType DEF FailFile, FilesType
  <2>3. JobsType'
    BY <1>10, HeartbeatType DEF FailFile, JobsType
  <2>4. LibraryType'
    <3>1. \/ docs' = docs
          \/ docs' = [docs EXCEPT ![DocOf(f)].status =
               IF PurposeOf(f) = "document_create" /\ @ = "processing" THEN "error" ELSE @]
      BY <1>10 DEF FailFile
    <3>2. docs' \in [File \cup {Old} -> DocRow]
      BY <3>1 DEF LibraryType, DocRow
    <3>. QED BY <1>10, <3>2 DEF FailFile, LibraryType
  <2>. QED BY <1>10, <2>1, <2>2, <2>3, <2>4 DEF FailFile, SessionsType, ObjectsType
<1>11. ASSUME f \in File, Requeue(w, f) PROVE Good
  <2>1. WorkersType'
    BY <1>11, StepsType, RestsType DEF Requeue, WorkerPc
  <2>2. JobsType'
    BY <1>11 DEF Requeue, JobsType, JobRow
  <2>. QED BY <1>11, <2>1, <2>2 DEF Requeue, library, SessionsType, FilesType, ObjectsType, LibraryType
<1>12. ASSUME f \in File, ResetFile(w, f) PROVE Good
  <2> DEFINE table == IF files[f].status = "error" /\ files[f].error = "processing_failed"
                      THEN [files EXCEPT ![f].status = "uploaded", ![f].error = "none"]
                      ELSE files
  <2>1. table \in [File -> FileRow] /\ files' = table
    <3>1. table \in [File -> FileRow]
      BY DEF FilesType, FileRow, InHand
    <3>. QED BY <1>12, <3>1 DEF ResetFile
  <2>2. FilesType'
    BY <2>1 DEF FilesType
  <2>3. SessionsType'
    <3>1. sessions' = Refreshed(table, files[f].session)
      BY <1>12 DEF ResetFile
    <3> HIDE DEF table
    <3>. QED BY <3>1, RefreshedType DEF SessionsType
  <2>4. WorkersType'
    BY <1>12, RestsType DEF ResetFile
  <2>. QED BY <1>12, <2>2, <2>3, <2>4 DEF ResetFile, library, JobsType, ObjectsType, LibraryType
<1>13. ASSUME f \in File, GiveUp(w, f) PROVE Good
  <2>1. WorkersType'
    BY <1>13, StepsType DEF GiveUp, WorkerPc
  <2>2. LibraryType'
    <3>1. \/ docs' = docs
          \/ docs' = [docs EXCEPT ![f].status = "absent"]
          \/ docs' = [docs EXCEPT ![f].status = @]
      BY <1>13 DEF GiveUp, library
    <3>2. docs' \in [File \cup {Old} -> DocRow]
      BY <3>1 DEF LibraryType, DocRow
    <3>3. versions' \in [File \cup {Old} -> File \cup {Old, Null}]
      BY <1>13 DEF GiveUp, library, LibraryType
    <3>. QED BY <3>2, <3>3 DEF LibraryType
  <2>3. ObjectsType'
    BY <1>13 DEF GiveUp, ObjectsType
  <2>. QED BY <1>13, <2>1, <2>2, <2>3 DEF GiveUp, SessionsType, FilesType, JobsType
<1>14. ASSUME f \in File, PurgeFailed(w, f) PROVE Good
  <2>1. WorkersType'
    BY <1>14, StepsType DEF PurgeFailed, WorkerPc
  <2>2. ObjectsType'
    BY <1>14 DEF PurgeFailed, ObjectsType
  <2>. QED BY <1>14, <2>1, <2>2 DEF PurgeFailed, library, SessionsType, FilesType, JobsType, LibraryType
<1>15. ASSUME f \in File, Finish(w, f) PROVE Good
  <2>1. WorkersType'
    BY <1>15, StepsType, RestsType DEF Finish, WorkerPc
  <2>2. JobsType'
    BY <1>15 DEF Finish, JobsType, JobRow
  <2>. QED BY <1>15, <2>1, <2>2 DEF Finish, library, SessionsType, FilesType, ObjectsType, LibraryType
<1>16. ASSUME f \in File, RefreshSession(w, f) PROVE Good
  <2>1. WorkersType'
    BY <1>16, RestsType DEF RefreshSession
  <2>2. SessionsType'
    BY <1>16, RefreshedType DEF RefreshSession, SessionsType
  <2>. QED BY <1>16, <2>1, <2>2 DEF RefreshSession, library, FilesType, JobsType, ObjectsType, LibraryType
<1>17. ASSUME ProcessingFails(w) \/ WorkerDies(w) PROVE Good
  <2>1. WorkersType'
    BY <1>17, StepsType, RestsType DEF ProcessingFails, WorkerDies, WorkerPc
  <2>. QED BY <1>17, <2>1 DEF ProcessingFails, WorkerDies, server, library, SessionsType, FilesType, JobsType, ObjectsType, LibraryType
<1>18. Good
  <2> HIDE DEF Good
  <2>. QED
    BY <1>1, <1>2, <1>3, <1>4, <1>5, <1>6, <1>7, <1>8, <1>9, <1>10, <1>11, <1>12, <1>13,
       <1>14, <1>15, <1>16, <1>17 DEF Work
<1>19. UNCHANGED <<client, requests, sweep>>
  BY DEF Work
<1>. QED BY <1>18, <1>19 DEF ClientType, RequestsType, SweepType

LEMMA CleanupType ==
  ASSUME ServerType, OtherType, Sweep \/ TimePasses
  PROVE  ServerType' /\ OtherType'
<1> USE DEF ServerType, OtherType
<1> DEFINE Good == ServerType' /\ SweepType'
<1>1. ASSUME ExpireOverdue PROVE Good
  <2>1. SessionsType'
    <3>1. ASSUME NEW s \in Session PROVE [sessions[s] EXCEPT !.status = "expired"] \in SessionRow
      BY SessionRowWrites DEF SessionsType, Swept
    <3>. QED BY <1>1, <3>1 DEF ExpireOverdue, SessionsType
  <2>. QED BY <1>1, <2>1 DEF ExpireOverdue, FilesType, JobsType, ObjectsType, SweepType
<1>0. ASSUME NEW f \in File, FindExhaustedJob(f) PROVE Good
  <2>1. SweepType'
    BY <1>0 DEF FindExhaustedJob, SweepType, SweepState
  <2>. QED BY <1>0, <2>1 DEF FindExhaustedJob, server, SessionsType, FilesType, JobsType, ObjectsType
<1>2. ASSUME FailExhaustedJob PROVE Good
  <2>1. JobsType'
    BY <1>2 DEF FailExhaustedJob, JobsType, JobRow
  <2>2. SweepType'
    BY <1>2 DEF FailExhaustedJob, SweepType, SweepState
  <2>. QED BY <1>2, <2>1, <2>2 DEF FailExhaustedJob, SessionsType, FilesType, ObjectsType
<1>3. ASSUME FailExhaustedFile PROVE Good
  <2> DEFINE f == sweep.on
             table == IF files[f].status = "processing"
                      THEN [files EXCEPT ![f].status = "error", ![f].error = "processing_failed"]
                      ELSE files
  <2>1. files' = table /\ sessions' = Refreshed(table, files[f].session) /\ sweep' = Resting
    BY <1>3 DEF FailExhaustedFile
  <2>2. table \in [File -> FileRow]
    BY DEF FilesType, FileRow
  <2>3. FilesType'
    BY <2>1, <2>2 DEF FilesType
  <2>4. SessionsType'
    <3> HIDE DEF table
    <3>. QED BY <2>1, RefreshedType DEF SessionsType
  <2>5. SweepType'
    BY <2>1 DEF SweepType, SweepState, Resting
  <2>. QED BY <1>3, <2>3, <2>4, <2>5 DEF FailExhaustedFile, JobsType, ObjectsType
<1>4. ASSUME NEW s \in Session, ReadOverSession(s) PROVE Good
  <2>1. SweepType'
    BY <1>4 DEF ReadOverSession, SweepType, SweepState, FilesOf
  <2>. QED BY <1>4, <2>1 DEF ReadOverSession, server, SessionsType, FilesType, JobsType, ObjectsType
<1>5. ASSUME WipeOverSession PROVE Good
  <2>1. SessionsType'
    BY <1>5 DEF WipeOverSession, SessionsType, SessionRow
  <2>2. ObjectsType'
    BY <1>5 DEF WipeOverSession, ObjectsType
  <2>3. SweepType'
    BY <1>5 DEF WipeOverSession, SweepType, SweepState, Resting
  <2>. QED BY <1>5, <2>1, <2>2, <2>3 DEF WipeOverSession, FilesType, JobsType
<1>6. ASSUME SweepDies PROVE Good
  <2>1. SweepType'
    BY <1>6 DEF SweepDies, SweepType, SweepState, Resting
  <2>. QED BY <1>6, <2>1 DEF SweepDies, server, SessionsType, FilesType, JobsType, ObjectsType
<1>7. ASSUME Sweep PROVE ServerType' /\ OtherType'
  <2>1. Good
    BY <1>1, <1>0, <1>2, <1>3, <1>4, <1>5, <1>6, <1>7 DEF Sweep
  <2>2. UNCHANGED <<library, client, requests, workers>>
    BY <1>7 DEF Sweep
  <2>. QED BY <2>1, <2>2 DEF library, LibraryType, ClientType, RequestsType, WorkersType
<1>8. ASSUME NEW s \in Session, ComesDue(s) PROVE ServerType'
  <2>1. SessionsType'
    BY <1>8 DEF ComesDue, SessionsType, SessionRow
  <2>. QED BY <1>8, <2>1 DEF ComesDue, FilesType, JobsType, ObjectsType
<1>9. ASSUME NEW f \in File, ClaimAges(f) PROVE ServerType'
  <2>1. FilesType'
    BY <1>9 DEF ClaimAges, FilesType, FileRow
  <2>. QED BY <1>9, <2>1 DEF ClaimAges, SessionsType, JobsType, ObjectsType
<1>10. ASSUME NEW f \in File, LeaseLapses(f) PROVE ServerType'
  <2>1. JobsType'
    BY <1>10 DEF LeaseLapses, JobsType, JobRow
  <2>. QED BY <1>10, <2>1 DEF LeaseLapses, SessionsType, FilesType, ObjectsType
<1>11. ASSUME TimePasses PROVE ServerType' /\ OtherType'
  <2>1. ServerType'
    BY <1>8, <1>9, <1>10, <1>11 DEF TimePasses
  <2>2. UNCHANGED <<library, client, requests, workers, sweep>>
    BY <1>11 DEF TimePasses
  <2>. QED BY <2>1, <2>2 DEF library, LibraryType, ClientType, RequestsType, WorkersType, SweepType
<1>. QED BY <1>7, <1>11

LEMMA NextType == TypeOK /\ [Next]_vars => TypeOK'
<1> SUFFICES ASSUME TypeOK, [Next]_vars PROVE ServerType' /\ OtherType'
  BY TypesAreTypes DEF TypeOK, ServerType, OtherType, SessionsType, FilesType, JobsType,
     ObjectsType, LibraryType, ClientType, RequestsType, WorkersType, SweepType,
     SessionRow, FileRow, JobRow, DocRow, WorkerState, RequestState, SweepState, Stored
<1>1. ServerType /\ OtherType
  BY TypesAreTypes
<1>2. CASE UNCHANGED vars
  BY <1>1, <1>2 DEF vars, server, library, ServerType, OtherType, SessionsType, FilesType, JobsType,
     ObjectsType, LibraryType, ClientType, RequestsType, WorkersType, SweepType
<1>. QED BY <1>1, <1>2, AskType, ServeType, WorkType, CleanupType DEF Next

\* The tables keep their types, whatever the requests, workers and deadlines
\* do; above all, no job is claimed more often than UPLOAD_JOB_MAX_ATTEMPTS.
THEOREM TypeCorrect == Spec => []TypeOK
<1>1. Init => TypeOK
  BY InitType, TypesAreTypes
<1>. QED BY <1>1, NextType, PTL DEF Spec

-----------------------------------------------------------------------------
(* A completed file stays completed.                                       *)

LEMMA Tables ==
  TypeOK => /\ files \in [File -> FileRow] /\ jobs \in [File -> JobRow]
            /\ workers \in [Worker -> WorkerState]
BY DEF TypeOK, FileRow, JobRow, WorkerState

CompletedKept ==
  \A f \in File : files[f].status = "completed" => files'[f].status = "completed"

LEMMA InitSettled == Init => Settled
BY UploadAssumption DEF Init, Settled, Idle, Outlasting

\* A write to another file, or to one that is not completed.
LEMMA WritesKeep ==
  ASSUME TypeOK, NEW f \in File, NEW st, NEW e, Writes(f, st, e),
         files[f].status # "completed", st # "completed"
  PROVE  \A g \in File : /\ files'[g].status = "completed" <=> files[g].status = "completed"
                         /\ files[g].status = "completed" => files'[g].error = files[g].error
BY DEF TypeOK, Writes

\* Requests write only files that no job has begun to process, and leave the
\* workers and the owners of jobs as they are; so does time.
LEMMA RequestsKeep ==
  ASSUME TypeOK, Settled, Ask \/ TimePasses \/ \E r \in Request : Serve(r)
  PROVE  Settled' /\ CompletedKept
<1> DEFINE Same == \A g \in File :
             /\ files'[g].status = "completed" <=> files[g].status = "completed"
             /\ files[g].status = "completed" => files'[g].error = files[g].error
           NoNewOwner == \A w \in Worker, g \in File : Owns(w, g)' => Owns(w, g)
<1>1. ASSUME Same, NoNewOwner, workers' = workers PROVE Settled' /\ CompletedKept
  BY <1>1 DEF Settled, CompletedKept
<1>2. ASSUME Ask PROVE Same
  <2>1. ASSUME NEW s \in Session, NEW p \in Purposes, NEW fs \in SUBSET File, Create(s, p, fs)
        PROVE  Same
    BY <2>1 DEF Create
  <2>2. ASSUME NEW s \in Session, RefreshUrls(s) PROVE Same
    <3>1. CASE files' = files
      BY <3>1
    <3>2. CASE files' # files
      <4>1. files' = [f \in File |->
               IF f \in FilesOf(s) /\ files[f].status = "verifying" /\ files[f].aged
               THEN [files[f] EXCEPT !.status = "pending_upload", !.error = "none", !.aged = FALSE]
               ELSE files[f]]
        BY <2>2, <3>2 DEF RefreshUrls
      <4>2. ASSUME NEW f \in File
            PROVE  [files[f] EXCEPT !.status = "pending_upload", !.error = "none",
                                    !.aged = FALSE].status = "pending_upload"
        <5>1. files[f] \in FileRow
          BY Tables
        <5>. QED BY <5>1 DEF FileRow
      <4>. QED BY <4>1, <4>2
    <3>. QED BY <3>1, <3>2
  <2>. QED BY <1>2, <2>1, <2>2 DEF Ask, Put, Confirm, Report, Cancel, server
<1>3. ASSUME Ask PROVE NoNewOwner /\ workers' = workers
  BY <1>3 DEF Ask, Create, Put, Confirm, Report, Cancel, RefreshUrls, server, library, Owns
<1>4. ASSUME TimePasses PROVE Same /\ NoNewOwner /\ workers' = workers
  <2>1. CASE \E f \in File : ClaimAges(f)
    BY <1>4, <2>1, Tables DEF TimePasses, ClaimAges, Owns, FileRow
  <2>2. CASE \E f \in File : LeaseLapses(f)
    BY <1>4, <2>2, Tables DEF TimePasses, LeaseLapses, Owns, JobRow
  <2>3. CASE \E s \in Session : ComesDue(s)
    BY <1>4, <2>3 DEF TimePasses, ComesDue, Owns
  <2>. QED BY <1>4, <2>1, <2>2, <2>3 DEF TimePasses
<1>5. ASSUME NEW r \in Request, Serve(r) PROVE Same /\ NoNewOwner /\ workers' = workers
  <2>1. ASSUME NEW f \in File, Recover(r, f) \/ Claim(r, f) \/ WriteSealResult(r, f) \/ FailTransfer(r, f)
        PROVE  Same /\ NoNewOwner
    <3>1. \/ files' = files
          \/ /\ files[f].status # "completed"
             /\ \E st \in {"pending_upload", "verifying", "uploaded", "error"},
                   e \in {"none", "terminal", files[f].error} : Writes(f, st, e)
      BY <2>1 DEF Recover, Claim, WriteSealResult, FailTransfer
    <3>2. Same
      BY <3>1, WritesKeep
    <3>3. jobs' = jobs
      BY <2>1 DEF Recover, Claim, WriteSealResult, FailTransfer
    <3>. QED BY <3>2, <3>3 DEF Owns
  <2>2. ASSUME NEW f \in File, QueueFileProcessing(r, f) PROVE Same /\ NoNewOwner
    BY <2>2, Tables DEF QueueFileProcessing, Owns, JobRow
  <2>3. ASSUME UNCHANGED <<files, jobs>> PROVE Same /\ NoNewOwner
    BY <2>3 DEF Owns
  <2>4. workers' = workers
    BY <1>5 DEF Serve
  <2>5. \/ \E f \in File : Recover(r, f) \/ Claim(r, f) \/ WriteSealResult(r, f) \/ FailTransfer(r, f)
        \/ \E f \in File : QueueFileProcessing(r, f)
        \/ UNCHANGED <<files, jobs>>
    BY <1>5 DEF Serve, Verify, Copy, ExtendAndRefresh, Discard, CancelSession, WipeSession,
       RequestDies, server
  <2> HIDE DEF Same, NoNewOwner
  <2>. QED BY <2>1, <2>2, <2>3, <2>4, <2>5
<1> HIDE DEF Same, NoNewOwner
<1>. QED BY <1>1, <1>2, <1>3, <1>4, <1>5

\* The sweep fails only files that are being processed, and frees their jobs.
LEMMA SweepKeeps ==
  ASSUME TypeOK, Settled, Sweep
  PROVE  Settled' /\ CompletedKept
<1>1. workers' = workers
  BY DEF Sweep
<1>2. ASSUME NEW w \in Worker, NEW g \in File, Owns(w, g)' PROVE Owns(w, g)
  <2>1. jobs' = jobs \/ \E f :
          jobs' = [jobs EXCEPT ![f].status = "error", ![f].by = Null, ![f].lapsed = FALSE]
    BY DEF Sweep, ExpireOverdue, FindExhaustedJob, FailExhaustedJob, FailExhaustedFile, ReadOverSession,
     WipeOverSession, SweepDies, server
  <2>. QED BY <1>2, <2>1, Tables DEF Owns, JobRow
<1>3. ASSUME NEW g \in File
      PROVE  /\ files'[g].status = "completed" <=> files[g].status = "completed"
             /\ files[g].status = "completed" => files'[g].error = files[g].error
  <2>1. CASE FailExhaustedFile
    BY <2>1, Tables DEF FailExhaustedFile, FileRow
  <2>2. CASE ~FailExhaustedFile
    <3>1. files' = files
      BY <2>2 DEF Sweep, ExpireOverdue, FindExhaustedJob, FailExhaustedJob, ReadOverSession,
         WipeOverSession, SweepDies, server
    <3>. QED BY <3>1
  <2>. QED BY <2>1, <2>2
<1>. QED BY <1>1, <1>2, <1>3 DEF Settled, CompletedKept

LEMMA WorkerSteps ==
  ASSUME TypeOK, NEW w \in Worker
  PROVE  /\ \A pc : Steps(w, pc) =>
              /\ workers'[w].pc = pc /\ workers'[w].f = workers[w].f
              /\ \A v \in Worker \ {w} : workers'[v] = workers[v]
         /\ Rests(w) => /\ workers'[w].pc = "idle"
                        /\ \A v \in Worker \ {w} : workers'[v] = workers[v]
BY Tables DEF Steps, Rests, Idle, WorkerState

\* A worker's step leaves a completed file completed, and only the owner of
\* its job can complete it; a worker starts on a file by putting it to
\* processing.
LEMMA WorkKeeps ==
  ASSUME TypeOK, Settled, NEW w \in Worker, Work(w)
  PROVE  Settled' /\ CompletedKept
<1> DEFINE f == workers[w].f
           Same == \A g \in File :
             /\ files'[g].status = "completed" <=> files[g].status = "completed"
             /\ files[g].status = "completed" => files'[g].error = files[g].error
           NoNewOwner == \A v \in Worker, g \in File : Owns(v, g)' => Owns(v, g)
           Others == \A v \in Worker \ {w} : workers'[v] = workers[v]
           Reports == workers'[w].pc \in Outlasting =>
                        workers[w].pc \in Outlasting /\ workers'[w].f = f
\* The steps that write no result: whoever owns a job has owned it before,
\* and this worker has nothing to report that it had not before.
<1>1. ASSUME Same, NoNewOwner, Others, Reports PROVE Settled' /\ CompletedKept
  <2>1. ASSUME NEW v \in Worker, NEW g \in File,
               workers'[v].f = g, workers'[v].pc \in Outlasting, Owns(v, g)'
        PROVE  workers[v].f = g /\ workers[v].pc \in Outlasting /\ Owns(v, g)
    <3>1. CASE v = w
      BY <1>1, <2>1, <3>1
    <3>2. CASE v # w
      BY <1>1, <2>1, <3>2
    <3>. QED BY <3>1, <3>2
  <2>. QED BY <1>1, <2>1 DEF Settled, CompletedKept
<1>2. ASSUME NEW g \in File, ClaimJob(w, g) PROVE Settled' /\ CompletedKept
  <2>1. Same
    <3>1. files[g].status = "completed" => files' = files
      BY <1>2 DEF ClaimJob, Settled
    <3>2. files' = files \/ files' = [files EXCEPT ![g].status = "processing", ![g].error = "none"]
      BY <1>2 DEF ClaimJob
    <3>. QED BY <3>1, <3>2, Tables DEF FileRow
  <2>2. workers'[w].pc = "begin" /\ Others
    BY <1>2, Tables DEF ClaimJob
  <2>3. jobs' = [jobs EXCEPT ![g] = [status |-> "running", attempts |-> @.attempts + 1,
                                     by |-> w, lapsed |-> FALSE]]
    BY <1>2 DEF ClaimJob
  <2>4. ASSUME NEW v \in Worker, NEW h \in File, v # w, Owns(v, h)' PROVE Owns(v, h)
    BY <2>3, <2>4, Tables DEF Owns
  <2>5. workers'[w].pc \notin Outlasting
    BY <2>2 DEF Outlasting
  <2>. QED BY <2>1, <2>2, <2>4, <2>5 DEF Settled, CompletedKept
<1>3. ASSUME f \in File, Begin(w, f) PROVE Settled' /\ CompletedKept
  <2>1. CASE files' = files /\ jobs' = jobs /\ workers'[w].pc \in {"finish", "purge", "idle"} /\ Others
    BY <1>1, <2>1 DEF Owns, Outlasting
  <2>2. CASE /\ Heartbeat(w, f) /\ Writes(f, "processing", "none") /\ Steps(w, "download")
             /\ files[f].status # "completed"
    <3>1. Same
      BY <1>3, <2>2, WritesKeep
    <3>2. NoNewOwner
      BY <2>2, Tables DEF Heartbeat, Owns, JobRow
    <3>3. workers'[w].f = f /\ Others
      BY <2>2, WorkerSteps
    <3>4. files'[f].status # "completed"
      BY <1>3, <2>2, <3>1
    <3>5. ASSUME NEW v \in Worker, NEW g \in File,
                 workers'[v].f = g, workers'[v].pc \in Outlasting, Owns(v, g)'
          PROVE  files'[g].status # "completed"
      <4>1. CASE v = w
        BY <3>3, <3>4, <3>5, <4>1
      <4>2. CASE v # w
        BY <3>1, <3>2, <3>3, <3>5, <4>2 DEF Settled
      <4>. QED BY <4>1, <4>2
    <3>. QED BY <3>1, <3>5 DEF Settled, CompletedKept
  <2>3. \/ /\ UNCHANGED <<files, jobs>>
           /\ Steps(w, "finish") \/ Steps(w, "purge") \/ Rests(w)
        \/ /\ Heartbeat(w, f) /\ Writes(f, "processing", "none") /\ Steps(w, "download")
           /\ files[f].status # "completed"
    BY <1>3 DEF Begin
  <2>. QED BY <2>1, <2>2, <2>3, WorkerSteps
<1>4. ASSUME f \in File, Settle(w, f) PROVE Settled' /\ CompletedKept
  <2>1. CASE Rests(w) /\ UNCHANGED <<files, jobs>>
    <3>1. workers'[w].pc = "idle" /\ Others
      BY <2>1, WorkerSteps
    <3>. QED BY <1>1, <2>1, <3>1 DEF Owns, Outlasting
  <2>2. CASE Owns(w, f) /\ Heartbeat(w, f) /\ Writes(f, "completed", "none") /\ Steps(w, "drop")
    <3>1. workers'[w].pc = "drop" /\ Others
      BY <2>2, WorkerSteps
    <3>2. /\ files'[f].status = "completed" /\ files'[f].error = "none"
          /\ \A g \in File \ {f} : files'[g] = files[g]
      BY <1>4, <2>2, Tables DEF Writes, FileRow
    <3>3. NoNewOwner
      BY <2>2, Tables DEF Heartbeat, Owns, JobRow
    <3>4. ASSUME NEW v \in Worker, NEW g \in File,
                 workers'[v].f = g, workers'[v].pc \in Outlasting, Owns(v, g)'
          PROVE  files'[g].status # "completed"
      <4>1. v # w /\ workers[v].f = g /\ workers[v].pc \in Outlasting /\ Owns(v, g)
        BY <3>1, <3>3, <3>4 DEF Outlasting
      <4>2. g # f
        BY <2>2, <4>1 DEF Owns
      <4>. QED BY <3>2, <4>1, <4>2 DEF Settled
    <3>. QED BY <3>2, <3>4 DEF Settled, CompletedKept
  <2>. QED BY <1>4, <2>1, <2>2 DEF Settle
<1>5. ASSUME f \in File, FailFile(w, f) PROVE Settled' /\ CompletedKept
  <2>1. Others /\ workers'[w].pc \in {"idle", "requeue", "give up"}
    BY <1>5, WorkerSteps DEF FailFile
  <2>2. Reports
    BY <2>1 DEF Outlasting
  <2>3. NoNewOwner
    <3>1. jobs' = jobs \/ Heartbeat(w, f)
      BY <1>5 DEF FailFile
    <3>. QED BY <3>1, Tables DEF Heartbeat, Owns, JobRow
  <2>4. Same
    <3>1. CASE Owns(w, f)
      <4>1. files[f].status # "completed"
        BY <1>5, <3>1 DEF FailFile, Settled, Outlasting
      <4>. QED BY <1>5, <3>1, <4>1, WritesKeep DEF FailFile
    <3>2. CASE ~Owns(w, f)
      BY <1>5, <3>2 DEF FailFile
    <3>. QED BY <3>1, <3>2
  <2>. QED BY <1>1, <2>1, <2>2, <2>3, <2>4
<1>6. ASSUME f \in File, ResetFile(w, f) PROVE Settled' /\ CompletedKept
  <2>1. Same
    <3>1. \/ files' = files
          \/ /\ files[f].status = "error"
             /\ files' = [files EXCEPT ![f].status = "uploaded", ![f].error = "none"]
      BY <1>6 DEF ResetFile
    <3>. QED BY <3>1, Tables DEF FileRow
  <2>2. Others /\ workers'[w].pc = "idle"
    BY <1>6, WorkerSteps DEF ResetFile
  <2>. QED BY <1>1, <1>6, <2>1, <2>2 DEF ResetFile, Owns, Outlasting
<1>7. ASSUME f \in File,
             \/ Download(w, f) \/ UpsertDocument(w, f) \/ CopySource(w, f) \/ WriteVersion(w, f)
             \/ Publish(w, f)
      PROVE  Settled' /\ CompletedKept
  <2>1. UNCHANGED <<files, jobs>>
    BY <1>7 DEF Download, UpsertDocument, CopySource, WriteVersion, Publish, server
  <2>2. workers[w].pc \in Outlasting
    BY <1>7 DEF Download, UpsertDocument, CopySource, WriteVersion, Publish, Outlasting
  <2>3. CASE Download(w, f)
    <3>1. Others /\ workers'[w].f = f
      BY <2>3, Tables DEF Download, WorkerState
    <3>. QED BY <1>1, <2>1, <2>2, <3>1 DEF Owns
  <2>4. CASE ~Download(w, f)
    <3>1. \E pc \in WorkerPc : Steps(w, pc)
      BY <1>7, <2>4 DEF UpsertDocument, CopySource, WriteVersion, Publish, WorkerPc
    <3>2. Others /\ workers'[w].f = f
      BY <3>1, WorkerSteps
    <3>. QED BY <1>1, <2>1, <2>2, <3>2 DEF Owns
  <2>. QED BY <2>3, <2>4
<1>8. ASSUME f \in File,
             \/ DropSealed(w, f) \/ Requeue(w, f) \/ GiveUp(w, f) \/ PurgeFailed(w, f)
             \/ Finish(w, f) \/ RefreshSession(w, f)
      PROVE  Settled' /\ CompletedKept
  <2>1. files' = files
    BY <1>8 DEF DropSealed, Requeue, GiveUp, PurgeFailed, Finish, RefreshSession
  <2>2. NoNewOwner
    <3>1. \/ jobs' = jobs
          \/ \E st \in {"queued", "completed"} :
               jobs' = [jobs EXCEPT ![f].status = st, ![f].by = Null, ![f].lapsed = FALSE]
      BY <1>8 DEF DropSealed, Requeue, GiveUp, PurgeFailed, Finish, RefreshSession
    <3>. QED BY <3>1, Tables DEF Owns, JobRow
  <2>3. Others /\ workers'[w].pc \notin Outlasting
    <3>1. Rests(w) \/ \E pc \in {"finish", "reset", "purge", "refresh"} : Steps(w, pc)
      BY <1>8 DEF DropSealed, Requeue, GiveUp, PurgeFailed, Finish, RefreshSession
    <3>. QED BY <3>1, WorkerSteps DEF Outlasting
  <2>. QED BY <1>1, <2>1, <2>2, <2>3
<1>9. ASSUME ProcessingFails(w) PROVE Settled' /\ CompletedKept
  <2>1. UNCHANGED <<files, jobs>> /\ workers[w].pc \in Outlasting /\ Steps(w, "failed")
    BY <1>9 DEF ProcessingFails, server, Outlasting
  <2>2. Others /\ workers'[w].f = f
    BY <2>1, WorkerSteps
  <2>. QED BY <1>1, <2>1, <2>2 DEF Owns
<1>10. ASSUME WorkerDies(w) PROVE Settled' /\ CompletedKept
  <2>1. UNCHANGED <<files, jobs>> /\ Others /\ workers'[w].pc \notin Outlasting
    BY <1>10, WorkerSteps DEF WorkerDies, server, Outlasting
  <2>. QED BY <1>1, <2>1 DEF Owns
<1>. QED
  BY <1>2, <1>3, <1>4, <1>5, <1>6, <1>7, <1>8, <1>9, <1>10 DEF Work

LEMMA NextSettled == UploadInv /\ [Next]_vars => UploadInv' /\ CompletedKept
<1> SUFFICES ASSUME TypeOK, Settled, [Next]_vars PROVE Settled' /\ CompletedKept
  BY NextType DEF UploadInv
<1>1. CASE UNCHANGED vars
  BY <1>1 DEF vars, server, Settled, Owns, CompletedKept
<1>2. CASE Next
  BY <1>2, RequestsKeep, SweepKeeps, WorkKeeps DEF Next
<1>. QED BY <1>1, <1>2

\* Once its owner is told that a file is completed, nothing takes that back:
\* not a worker whose lease was stolen, nor a retry, nor a completion request
\* that comes late, nor the sweep.
THEOREM CompletedForGood == Spec => CompletedStays
<1>1. Init => UploadInv
  BY InitType, TypesAreTypes, InitSettled DEF UploadInv
<1>2. UploadInv /\ [Next]_vars
        => UploadInv' /\ [\A f \in File : files[f].status = "completed" => files'[f].status = "completed"]_vars
  BY NextSettled DEF CompletedKept
<1>. QED BY <1>1, <1>2, PTL DEF Spec, CompletedStays
-----------------------------------------------------------------------------
(* A completed file is stored.                                             *)

Entered(f) == files[f].status # "none"

\* A file that was entered has a session, a job a file, and a worker a job.
KnownInv ==
  /\ \A f \in File : Entered(f) => /\ files[f].session \in Session
                                   /\ sessions[files[f].session].status # "none"
  /\ \A f \in File : jobs[f].status # "none" => Entered(f)
  /\ \A w \in Worker : workers[w].f \in File => jobs[workers[w].f].status # "none"

LEMMA RefreshedRow ==
  ASSUME sessions \in [Session -> SessionRow], NEW table, NEW s
  PROVE  \/ Refreshed(table, s) = sessions
         \/ \E next \in {"pending_upload", "processing", "completed", "error"} : \E c :
              Refreshed(table, s) = [sessions EXCEPT ![s].status = next, ![s].cleaned = c]
<1> DEFINE statuses == {table[f].status : f \in {g \in File : table[g].session = s}}
           next == CASE statuses \cap {"pending_upload", "verifying"} # {} -> "pending_upload"
                [] statuses \cap {"pending_upload", "verifying"} = {}
                   /\ statuses \cap {"uploaded", "processing"} # {} -> "processing"
                [] statuses \cap {"pending_upload", "verifying", "uploaded", "processing"} = {}
                   /\ "completed" \in statuses -> "completed"
                [] OTHER -> "error"
           c == sessions[s].cleaned \/ next = "completed"
<1>1. next \in {"pending_upload", "processing", "completed", "error"}
  <2> HIDE DEF statuses
  <2>. QED OBVIOUS
<1>2. Refreshed(table, s) = IF sessions[s].status \in {"cancelled", "expired"} THEN sessions
        ELSE [sessions EXCEPT ![s].status = next, ![s].cleaned = @ \/ next = "completed"]
  BY DEF Refreshed
<1> HIDE DEF next
<1>3. s \in Session => [sessions EXCEPT ![s].status = next, ![s].cleaned = @ \/ next = "completed"]
                       = [sessions EXCEPT ![s].status = next, ![s].cleaned = c]
  OBVIOUS
<1>4. s \notin Session => [sessions EXCEPT ![s].status = next, ![s].cleaned = @ \/ next = "completed"]
                          = sessions
  OBVIOUS
<1> HIDE DEF c
<1>. QED BY <1>1, <1>2, <1>3, <1>4

LEMMA RefreshedKeeps ==
  ASSUME sessions \in [Session -> SessionRow], NEW table, NEW s, NEW t \in Session
  PROVE  /\ Refreshed(table, s)[t].purpose = sessions[t].purpose
         /\ sessions[t].status # "none" => Refreshed(table, s)[t].status # "none"
<1>1. ASSUME NEW next \in {"pending_upload", "processing", "completed", "error"}, NEW c,
             Refreshed(table, s) = [sessions EXCEPT ![s].status = next, ![s].cleaned = c]
      PROVE  /\ Refreshed(table, s)[t].purpose = sessions[t].purpose
             /\ sessions[t].status # "none" => Refreshed(table, s)[t].status # "none"
  <2>1. sessions[t] \in SessionRow
    OBVIOUS
  <2>. QED BY <1>1, <2>1 DEF SessionRow
<1>. QED BY <1>1, RefreshedRow

\* A session that there is keeps its purpose.
SessionStays(s) ==
  sessions[s].status # "none" =>
    sessions'[s].status # "none" /\ sessions'[s].purpose = sessions[s].purpose

LEMMA SessionsStay ==
  ASSUME TypeOK, [Next]_vars, NEW s \in Session
  PROVE  SessionStays(s)
<1>0. sessions \in [Session -> SessionRow] /\ sessions[s] \in SessionRow
  BY TypesAreTypes DEF ServerType, SessionsType
<1>1. ASSUME sessions' = sessions PROVE SessionStays(s)
  BY <1>1 DEF SessionStays
<1>2. ASSUME NEW table, NEW t, sessions' = Refreshed(table, t) PROVE SessionStays(s)
  BY <1>0, <1>2, RefreshedKeeps DEF SessionStays
<1>3. ASSUME NEW t, sessions' = Expired(t) PROVE SessionStays(s)
  BY <1>0, <1>3 DEF SessionStays, Expired, SessionRow
<1>4. ASSUME NEW t \in Session, NEW p \in Purposes, NEW fs \in SUBSET File, Create(t, p, fs)
      PROVE  SessionStays(s)
  <2>1. CASE s = t
    BY <1>4, <2>1 DEF Create, SessionStays
  <2>2. CASE s # t
    <3>1. sessions'[s] = sessions[s] \/ sessions'[s] = [sessions[s] EXCEPT !.status = "expired"]
      BY <1>4, <2>2 DEF Create
    <3>. QED BY <1>0, <3>1 DEF SessionStays, SessionRow
  <2>. QED BY <2>1, <2>2
<1>5. ASSUME Ask PROVE SessionStays(s)
  <2>1. \/ \E t \in Session, p \in Purposes, fs \in SUBSET File : Create(t, p, fs)
        \/ sessions' = sessions
        \/ \E t : sessions' = Expired(t)
    BY <1>5 DEF Ask, Put, Confirm, Report, Cancel, RefreshUrls, server
  <2>. QED BY <2>1, <1>1, <1>3, <1>4
<1>6. ASSUME NEW r \in Request, Serve(r) PROVE SessionStays(s)
  <2>1. ASSUME NEW f \in File, ExtendAndRefresh(r, f) PROVE SessionStays(s)
    <3>1. PICK e : sessions' = [Refreshed(files, files[f].session)
                                  EXCEPT ![files[f].session].due = @ /\ e]
      BY <2>1 DEF ExtendAndRefresh
    <3>2. Refreshed(files, files[f].session) \in [Session -> SessionRow]
      BY <1>0, RefreshedType
    <3>3. /\ sessions'[s].status = Refreshed(files, files[f].session)[s].status
          /\ sessions'[s].purpose = Refreshed(files, files[f].session)[s].purpose
      BY <3>1, <3>2 DEF SessionRow
    <3>. QED BY <1>0, <3>3, RefreshedKeeps DEF SessionStays
  <2>2. ASSUME NEW t \in Session, CancelSession(r, t) PROVE SessionStays(s)
    BY <1>0, <2>2 DEF CancelSession, SessionStays, SessionRow
  <2>3. ASSUME NEW t \in Session, WipeSession(r, t) PROVE SessionStays(s)
    BY <1>0, <2>3 DEF WipeSession, SessionStays, SessionRow
  <2>4. \/ sessions' = sessions
        \/ \E f \in File : ExtendAndRefresh(r, f)
        \/ \E t \in Session : CancelSession(r, t) \/ WipeSession(r, t)
    BY <1>6 DEF Serve, Recover, Claim, Verify, Copy, WriteSealResult, QueueFileProcessing,
       Discard, FailTransfer, RequestDies, server
  <2>. QED BY <2>1, <2>2, <2>3, <2>4, <1>1
<1>7. ASSUME NEW w \in Worker, Work(w) PROVE SessionStays(s)
  <2>1. sessions' = sessions \/ \E table, t : sessions' = Refreshed(table, t)
    BY <1>7 DEF Work, ClaimJob, Begin, Download, UpsertDocument, CopySource, WriteVersion, Publish,
       Settle, DropSealed, FailFile, Requeue, ResetFile, GiveUp, PurgeFailed, Finish,
       RefreshSession, ProcessingFails, WorkerDies, server
  <2>. QED BY <2>1, <1>1, <1>2
<1>8. ASSUME Sweep PROVE SessionStays(s)
  <2>1. CASE ExpireOverdue
    <3>1. sessions'[s] = sessions[s] \/ sessions'[s] = [sessions[s] EXCEPT !.status = "expired"]
      BY <2>1 DEF ExpireOverdue
    <3>. QED BY <1>0, <3>1 DEF SessionStays, SessionRow
  <2>2. CASE WipeOverSession
    BY <1>0, <2>2 DEF WipeOverSession, SessionStays, SessionRow
  <2>3. CASE FailExhaustedFile
    BY <2>3, <1>2 DEF FailExhaustedFile
  <2>4. \/ sessions' = sessions \/ ExpireOverdue \/ WipeOverSession \/ FailExhaustedFile
    BY <1>8 DEF Sweep, FailExhaustedJob, SweepDies, FindExhaustedJob, ReadOverSession, server
  <2>. QED BY <2>1, <2>2, <2>3, <2>4, <1>1
<1>9. ASSUME TimePasses PROVE SessionStays(s)
  <2>1. ASSUME NEW t \in Session, ComesDue(t) PROVE SessionStays(s)
    BY <1>0, <2>1 DEF ComesDue, SessionStays, SessionRow
  <2>. QED BY <1>1, <1>9, <2>1 DEF TimePasses, ClaimAges, LeaseLapses
<1>. QED BY <1>1, <1>5, <1>6, <1>7, <1>8, <1>9 DEF Next, vars, server
\* A file stays with the session it was entered in.
FileStays(f) ==
  /\ Entered(f)' <=> Entered(f)
  /\ files'[f].session = files[f].session

LEMMA WritesStay ==
  ASSUME TypeOK, NEW g \in File, Entered(g), NEW st, st # "none", NEW e, Writes(g, st, e), NEW f \in File
  PROVE  FileStays(f)
BY Tables DEF Writes, FileStays, Entered, FileRow

LEMMA PatchStays ==
  ASSUME TypeOK, NEW g \in File, Entered(g), NEW st, st # "none", NEW e,
         files' = [files EXCEPT ![g].status = st, ![g].error = e], NEW f \in File
  PROVE  FileStays(f)
BY Tables DEF FileStays, Entered, FileRow

LEMMA FilesStay ==
  ASSUME TypeOK, KnownInv, [Next]_vars, NEW f \in File
  PROVE  \/ FileStays(f)
         \/ ~Entered(f) /\ files'[f].session \in Session /\ sessions'[files'[f].session].status # "none"
<1>1. ASSUME files' = files PROVE FileStays(f)
  BY <1>1 DEF FileStays, Entered
<1>2. ASSUME NEW s \in Session, NEW p \in Purposes, NEW fs \in SUBSET File, Create(s, p, fs)
      PROVE  \/ FileStays(f)
             \/ ~Entered(f) /\ files'[f].session \in Session
                /\ sessions'[files'[f].session].status # "none"
  <2>1. CASE f \in fs
    BY <1>2, <2>1 DEF Create, Entered
  <2>2. CASE f \notin fs
    <3>1. files'[f] = files[f]
      BY <1>2, <2>2 DEF Create
    <3>. QED BY <3>1 DEF FileStays, Entered
  <2>. QED BY <2>1, <2>2
<1>3. ASSUME NEW s \in Session, RefreshUrls(s) PROVE FileStays(f)
  <2>1. CASE files' = files
    BY <1>1, <2>1
  <2>2. CASE files' # files
    <3>1. files' = [g \in File |->
             IF g \in FilesOf(s) /\ files[g].status = "verifying" /\ files[g].aged
             THEN [files[g] EXCEPT !.status = "pending_upload", !.error = "none", !.aged = FALSE]
             ELSE files[g]]
      BY <1>3, <2>2 DEF RefreshUrls
    <3>2. files[f] \in FileRow
      BY Tables
    <3>. QED BY <3>1, <3>2 DEF FileStays, Entered, FileRow
  <2>. QED BY <2>1, <2>2
<1>4. ASSUME NEW r \in Request, Serve(r) PROVE FileStays(f)
  <2>1. ASSUME NEW g \in File, Recover(r, g) \/ Claim(r, g) \/ WriteSealResult(r, g) \/ FailTransfer(r, g)
        PROVE  FileStays(f)
    <3>1. \/ files' = files
          \/ /\ Entered(g)
             /\ \E st \in {"pending_upload", "verifying", "uploaded", "error"} : \E e : Writes(g, st, e)
      BY <2>1 DEF Recover, Claim, WriteSealResult, FailTransfer, Entered
    <3>. QED BY <3>1, <1>1, WritesStay
  <2>2. \/ files' = files
        \/ \E g \in File : Recover(r, g) \/ Claim(r, g) \/ WriteSealResult(r, g) \/ FailTransfer(r, g)
    BY <1>4 DEF Serve, Verify, Copy, QueueFileProcessing, ExtendAndRefresh, Discard, CancelSession,
       WipeSession, RequestDies, server
  <2>. QED BY <2>1, <2>2, <1>1
<1>5. ASSUME NEW w \in Worker, Work(w) PROVE FileStays(f)
  <2>1. ASSUME NEW g \in File, ClaimJob(w, g) PROVE FileStays(f)
    <3>1. Entered(g)
      BY <2>1 DEF ClaimJob, KnownInv
    <3>2. files' = files \/ files' = [files EXCEPT ![g].status = "processing", ![g].error = "none"]
      BY <2>1 DEF ClaimJob
    <3>. QED BY <3>1, <3>2, <1>1, PatchStays
  <2>2. ASSUME workers[w].f \in File,
               Begin(w, workers[w].f) \/ Settle(w, workers[w].f) \/ FailFile(w, workers[w].f)
        PROVE  FileStays(f)
    <3>1. Entered(workers[w].f)
      BY <2>2 DEF KnownInv
    <3>2. \/ files' = files
          \/ \E st \in {"processing", "completed", "error"} : \E e : Writes(workers[w].f, st, e)
      BY <2>2 DEF Begin, Settle, FailFile
    <3>. QED BY <2>2, <3>1, <3>2, <1>1, WritesStay
  <2>3. ASSUME workers[w].f \in File, ResetFile(w, workers[w].f) PROVE FileStays(f)
    <3>1. Entered(workers[w].f)
      BY <2>3 DEF KnownInv
    <3>2. \/ files' = files
          \/ files' = [files EXCEPT ![workers[w].f].status = "uploaded", ![workers[w].f].error = "none"]
      BY <2>3 DEF ResetFile
    <3>. QED BY <2>3, <3>1, <3>2, <1>1, PatchStays
  <2>4. \/ files' = files
        \/ \E g \in File : ClaimJob(w, g)
        \/ /\ workers[w].f \in File
           /\ \/ Begin(w, workers[w].f) \/ Settle(w, workers[w].f) \/ FailFile(w, workers[w].f)
              \/ ResetFile(w, workers[w].f)
    BY <1>5 DEF Work, Download, UpsertDocument, CopySource, WriteVersion, Publish, DropSealed,
       Requeue, GiveUp, PurgeFailed, Finish, RefreshSession, ProcessingFails, WorkerDies, server
  <2>. QED BY <2>1, <2>2, <2>3, <2>4, <1>1
<1>6. ASSUME Sweep PROVE FileStays(f)
  <2>1. CASE FailExhaustedFile
    <3>1. \/ files' = files
          \/ /\ files[sweep.on].status = "processing"
             /\ files' = [files EXCEPT ![sweep.on].status = "error", ![sweep.on].error = "processing_failed"]
      BY <2>1 DEF FailExhaustedFile
    <3>2. CASE sweep.on \in File
      BY <3>1, <3>2, <1>1, PatchStays DEF Entered
    <3>3. CASE sweep.on \notin File
      BY <3>1, <3>3, Tables DEF FileStays, Entered
    <3>. QED BY <3>2, <3>3
  <2>2. files' = files \/ FailExhaustedFile
    BY <1>6 DEF Sweep, ExpireOverdue, FailExhaustedJob, WipeOverSession, SweepDies,
       FindExhaustedJob, ReadOverSession, server
  <2>. QED BY <2>1, <2>2, <1>1
<1>7. ASSUME TimePasses PROVE FileStays(f)
  <2>1. ASSUME NEW g \in File, ClaimAges(g) PROVE FileStays(f)
    BY <2>1, Tables DEF ClaimAges, FileStays, Entered, FileRow
  <2>. QED BY <1>1, <1>7, <2>1 DEF TimePasses, ComesDue, LeaseLapses
<1>8. CASE Ask
  <2>1. \/ \E s \in Session, p \in Purposes, fs \in SUBSET File : Create(s, p, fs)
        \/ \E s \in Session : RefreshUrls(s)
        \/ files' = files
    BY <1>8 DEF Ask, Put, Confirm, Report, Cancel, server
  <2>. QED BY <2>1, <1>1, <1>2, <1>3
<1>. QED BY <1>1, <1>4, <1>5, <1>6, <1>7, <1>8 DEF Next, vars, server

\* A job that there is stays, and one comes for an entered file only.
LEMMA JobsStay ==
  ASSUME TypeOK, KnownInv, [Next]_vars, NEW f \in File
  PROVE  /\ jobs[f].status # "none" => jobs'[f].status # "none"
         /\ jobs'[f].status # "none" => jobs[f].status # "none" \/ Entered(f)
<1> DEFINE Goal == /\ jobs[f].status # "none" => jobs'[f].status # "none"
                   /\ jobs'[f].status # "none" => jobs[f].status # "none" \/ Entered(f)
<1>0. jobs \in [File -> JobRow]
  BY Tables
<1>1. ASSUME jobs' = jobs PROVE Goal
  BY <1>1
<1>2. ASSUME NEW r \in Request, NEW g \in File, QueueFileProcessing(r, g) PROVE Goal
  BY <1>0, <1>2 DEF QueueFileProcessing, Entered, InHand, JobRow
<1>3. ASSUME NEW w \in Worker, NEW g \in File, ClaimJob(w, g) PROVE Goal
  <2>1. jobs[g].status # "none"
    BY <1>3 DEF ClaimJob
  <2>2. jobs'[g].status = "running" /\ \A h \in File \ {g} : jobs'[h] = jobs[h]
    BY <1>0, <1>3 DEF ClaimJob
  <2>. QED BY <2>1, <2>2
<1>4. ASSUME NEW g, NEW st, st # "none", jobs[g].status # "none",
             jobs' = [jobs EXCEPT ![g].status = st, ![g].by = Null, ![g].lapsed = FALSE]
      PROVE  Goal
  BY <1>0, <1>4 DEF JobRow
<1>5. ASSUME NEW g, NEW b, jobs' = [jobs EXCEPT ![g].lapsed = b] PROVE Goal
  BY <1>0, <1>5 DEF JobRow
<1>6. ASSUME NEW w \in Worker, workers[w].f \in File,
             Requeue(w, workers[w].f) \/ Finish(w, workers[w].f)
      PROVE  Goal
  <2>1. jobs' = jobs \/ \E st \in {"queued", "completed"} :
          jobs' = [jobs EXCEPT ![workers[w].f].status = st, ![workers[w].f].by = Null,
                               ![workers[w].f].lapsed = FALSE]
    BY <1>6 DEF Requeue, Finish
  <2>2. jobs[workers[w].f].status # "none"
    BY <1>6 DEF KnownInv
  <2>. QED BY <2>1, <2>2, <1>1, <1>4
<1> HIDE DEF Goal
<1>7. ASSUME \E w \in Worker : Work(w) PROVE Goal
  <2>1. \/ jobs' = jobs
        \/ \E w \in Worker, g \in File : ClaimJob(w, g)
        \/ \E w \in Worker : /\ workers[w].f \in File
                             /\ Requeue(w, workers[w].f) \/ Finish(w, workers[w].f)
        \/ \E g, b : jobs' = [jobs EXCEPT ![g].lapsed = b]
    BY <1>7 DEF Work, Begin, Settle, FailFile, Heartbeat, Download, UpsertDocument, CopySource,
       WriteVersion, Publish, DropSealed, ResetFile, GiveUp, PurgeFailed, RefreshSession,
       ProcessingFails, WorkerDies, server
  <2>. QED BY <2>1, <1>1, <1>3, <1>5, <1>6
<1>8. ASSUME Sweep \/ TimePasses PROVE Goal
  <2>1. \/ jobs' = jobs
        \/ \E g : /\ jobs[g].status = "running"
                  /\ jobs' = [jobs EXCEPT ![g].status = "error", ![g].by = Null, ![g].lapsed = FALSE]
        \/ \E g, b : jobs' = [jobs EXCEPT ![g].lapsed = b]
    BY <1>8 DEF Sweep, ExpireOverdue, FailExhaustedJob, FailExhaustedFile, WipeOverSession, SweepDies,
       FindExhaustedJob, ReadOverSession, server, TimePasses, ComesDue, ClaimAges, LeaseLapses
  <2>. QED BY <2>1, <1>1, <1>4, <1>5
<1>9. ASSUME Ask \/ \E r \in Request : Serve(r) PROVE Goal
  <2>1. jobs' = jobs \/ \E r \in Request, g \in File : QueueFileProcessing(r, g)
    BY <1>9 DEF Ask, Create, Put, Confirm, Report, Cancel, RefreshUrls, server, Serve, Recover, Claim,
       Verify, Copy, WriteSealResult, ExtendAndRefresh, Discard, FailTransfer, CancelSession,
       WipeSession, RequestDies
  <2>. QED BY <2>1, <1>1, <1>2
<1>. QED BY <1>1, <1>7, <1>8, <1>9 DEF Next, vars, server, Goal
\* The jobs that workers hold.
LEMMA HandsStay ==
  ASSUME TypeOK, [Next]_vars, NEW w \in Worker, workers'[w].f \in File
  PROVE  workers'[w].f = workers[w].f \/ jobs'[workers'[w].f].status # "none"
<1> DEFINE Goal == workers'[w].f = workers[w].f \/ jobs'[workers'[w].f].status # "none"
<1>1. ASSUME workers' = workers PROVE Goal
  BY <1>1
<1>2. ASSUME NEW v \in Worker, (\E pc : Steps(v, pc)) \/ Rests(v) PROVE Goal
  BY <1>2, Tables, UploadAssumption DEF Steps, Rests, Idle, WorkerState, UploadAssumption
<1>3. ASSUME NEW v \in Worker, NEW g \in File, ClaimJob(v, g) PROVE Goal
  <2>1. workers'[v].f = g /\ \A u \in Worker \ {v} : workers'[u] = workers[u]
    BY <1>3, Tables DEF ClaimJob
  <2>2. jobs'[g].status = "running"
    BY <1>3, Tables DEF ClaimJob
  <2>. QED BY <2>1, <2>2
<1>4. ASSUME NEW v \in Worker, NEW g \in File, Download(v, g) PROVE Goal
  BY <1>4, Tables DEF Download, WorkerState
<1>5. ASSUME NEW v \in Worker, Work(v) PROVE Goal
  <2>1. \/ (\E pc : Steps(v, pc)) \/ Rests(v)
        \/ \E g \in File : ClaimJob(v, g) \/ Download(v, g)
    BY <1>5 DEF Work, Begin, UpsertDocument, CopySource, WriteVersion, Publish, Settle, DropSealed,
       FailFile, Requeue, ResetFile, GiveUp, PurgeFailed, Finish, RefreshSession, ProcessingFails,
       WorkerDies
  <2> HIDE DEF Goal
  <2>. QED BY <2>1, <1>2, <1>3, <1>4
<1>6. workers' = workers \/ \E v \in Worker : Work(v)
  BY DEF Next, vars, Ask, Create, Put, Confirm, Report, Cancel, RefreshUrls, Serve, Sweep, TimePasses
<1> HIDE DEF Goal
<1>7. Goal
  BY <1>1, <1>5, <1>6
<1>. QED BY <1>7 DEF Goal

LEMMA KnownStep ==
  ASSUME TypeOK, KnownInv, [Next]_vars
  PROVE  /\ KnownInv'
         /\ \A f \in File : Entered(f) => Entered(f)' /\ VersionOf(f)' = VersionOf(f)
<1>1. ASSUME NEW f \in File, Entered(f)'
      PROVE  files'[f].session \in Session /\ sessions'[files'[f].session].status # "none"
  BY <1>1, FilesStay, SessionsStay DEF FileStays, SessionStays, KnownInv
<1>2. ASSUME NEW f \in File, Entered(f)
      PROVE  Entered(f)' /\ VersionOf(f)' = VersionOf(f)
  <2>1. FileStays(f) /\ files[f].session \in Session
    BY <1>2, FilesStay DEF KnownInv
  <2>2. sessions'[files[f].session].purpose = sessions[files[f].session].purpose
    BY <1>2, <2>1, SessionsStay DEF KnownInv, SessionStays
  <2>. QED BY <1>2, <2>1, <2>2 DEF FileStays, VersionOf, PurposeOf
<1>3. ASSUME NEW f \in File, jobs'[f].status # "none"
      PROVE  Entered(f)'
  BY <1>2, <1>3, JobsStay DEF KnownInv
<1>4. ASSUME NEW w \in Worker, workers'[w].f \in File
      PROVE  jobs'[workers'[w].f].status # "none"
  BY <1>4, HandsStay, JobsStay DEF KnownInv
<1>. QED BY <1>1, <1>2, <1>3, <1>4 DEF KnownInv, Entered
\* What the old version may point at: its own object or that of a file that
\* was uploaded to replace it.
OldContent(o) == o = Old \/ (o \in File /\ Entered(o) /\ VersionOf(o) = Old)

Writing == {"version", "publish", "settle"}

\* A worker on a file: what it will delete is old content; an owner's attempt
\* is the job's last; one that cleans up has spent the attempts, so that no
\* other will own the job; and what an owner has written is still there.
WorkerInv(w) ==
  /\ workers[w].saw = Null \/ OldContent(workers[w].saw)
  /\ \A f \in File : workers[w].f = f =>
       /\ Owns(w, f) => workers[w].attempt = jobs[f].attempts
       /\ workers[w].pc = "give up" =>
            jobs[f].attempts = MaxAttempts /\ jobs[f].by \in {w, Null} /\ files[f].status # "completed"
       /\ workers[w].pc \in Writing /\ Owns(w, f) /\ VersionOf(f) = f =>
            <<"source", f>> \in objects /\ (workers[w].pc # "version" => versions[f] = f)

StoredInv ==
  /\ OldContent(versions[Old])
  /\ \A w \in Worker : WorkerInv(w)
  /\ CompletedIsStored

LEMMA InitStored == Init => KnownInv /\ StoredInv
<1>. SUFFICES ASSUME Init PROVE KnownInv /\ StoredInv
  OBVIOUS
<1>1. \A w \in Worker : workers[w].f = Null /\ workers[w].saw = Null
  BY DEF Init, Idle
<1>2. Null \notin File
  BY UploadAssumption DEF UploadAssumption
<1>3. KnownInv
  BY <1>1, <1>2 DEF Init, KnownInv, Entered
<1>4. StoredInv
  BY <1>1, <1>2 DEF Init, StoredInv, WorkerInv, OldContent, CompletedIsStored
<1>. QED BY <1>3, <1>4

\* A step that takes nothing away and gives nobody a job.
TablesKept ==
  /\ \A v \in Worker, g \in File : Owns(v, g)' => Owns(v, g)
  /\ \A g \in File : jobs'[g].attempts = jobs[g].attempts /\ jobs'[g].by \in {jobs[g].by, Null}
  /\ \A g \in File : <<"source", g>> \in objects => <<"source", g>> \in objects'
  /\ versions' = versions
  /\ \A g \in File : files'[g].status = "completed" => files[g].status = "completed"

\* A worker that has nothing written and nothing to clean up.
Quiet(w) ==
  /\ workers'[w].pc \notin Writing \cup {"give up"}
  /\ workers'[w].saw \in {workers[w].saw, Null, versions[Old]}
  /\ workers'[w].f # Null => workers'[w].f = workers[w].f /\ workers'[w].attempt = workers[w].attempt

\* The invariant is about nothing else.
LEMMA OldStays ==
  ASSUME TypeOK, KnownInv, [Next]_vars, NEW o, OldContent(o)
  PROVE  OldContent(o)'
BY KnownStep DEF OldContent

LEMMA WorkerKept ==
  ASSUME TypeOK, KnownInv, StoredInv, [Next]_vars, NEW v \in Worker,
         workers'[v] = workers[v] \/ Quiet(v),
         \A g \in File : workers[v].f = g =>
           /\ Owns(v, g)' => Owns(v, g) /\ jobs'[g].attempts = jobs[g].attempts
           /\ workers[v].pc = "give up" =>
                jobs'[g].attempts = MaxAttempts /\ jobs'[g].by \in {v, Null} /\ files'[g].status # "completed"
           /\ workers[v].pc \in Writing /\ Owns(v, g) /\ VersionOf(g) = g =>
                /\ <<"source", g>> \in objects => <<"source", g>> \in objects'
                /\ versions[g] = g => versions'[g] = g
  PROVE  WorkerInv(v)'
<1>1. workers'[v].saw = Null \/ OldContent(workers[v].saw)'
  <2>1. PICK o : o = workers'[v].saw
    OBVIOUS
  <2>2. o = Null \/ OldContent(o)
    BY <2>1 DEF Quiet, StoredInv, WorkerInv
  <2>3. o = Null \/ OldContent(o)'
    BY <2>2, OldStays
  <2>. QED BY <2>1, <2>3 DEF OldContent
<1>2. ASSUME NEW f \in File, workers'[v].f = f, workers'[v] = workers[v]
      PROVE  /\ Owns(v, f)' => workers'[v].attempt = jobs'[f].attempts
             /\ workers'[v].pc = "give up" =>
                  jobs'[f].attempts = MaxAttempts /\ jobs'[f].by \in {v, Null} /\ files'[f].status # "completed"
             /\ workers'[v].pc \in Writing /\ Owns(v, f)' /\ VersionOf(f)' = f =>
                  <<"source", f>> \in objects' /\ (workers'[v].pc # "version" => versions'[f] = f)
  <2>1. VersionOf(f)' = VersionOf(f)
    BY <1>2, KnownStep DEF KnownInv
  <2>. QED BY <1>2, <2>1 DEF StoredInv, WorkerInv
<1>3. ASSUME NEW f \in File, workers'[v].f = f, Quiet(v)
      PROVE  /\ Owns(v, f)' => workers'[v].attempt = jobs'[f].attempts
             /\ workers'[v].pc \notin Writing \cup {"give up"}
  <2>1. workers[v].f = f /\ workers'[v].attempt = workers[v].attempt
    BY <1>3, UploadAssumption DEF Quiet, UploadAssumption
  <2>. QED BY <1>3, <2>1 DEF Quiet, StoredInv, WorkerInv
<1>. QED
  <2>1. ASSUME NEW f \in File, workers'[v].f = f
        PROVE  /\ Owns(v, f)' => workers'[v].attempt = jobs'[f].attempts
               /\ workers'[v].pc = "give up" =>
                    jobs'[f].attempts = MaxAttempts /\ jobs'[f].by \in {v, Null} /\ files'[f].status # "completed"
               /\ workers'[v].pc \in Writing /\ Owns(v, f)' /\ VersionOf(f)' = f =>
                    <<"source", f>> \in objects' /\ (workers'[v].pc # "version" => versions'[f] = f)
    BY <1>2, <1>3, <2>1
  <2>. QED BY <1>1, <2>1 DEF WorkerInv

LEMMA KeptStep ==
  ASSUME TypeOK, KnownInv, StoredInv, [Next]_vars, TablesKept,
         \A v \in Worker : workers'[v] = workers[v] \/ Quiet(v)
  PROVE  StoredInv'
<1>1. OldContent(versions[Old])'
  BY OldStays DEF StoredInv, TablesKept
<1>2. ASSUME NEW v \in Worker PROVE WorkerInv(v)'
  <2>1. ASSUME NEW g \in File, workers[v].f = g, workers[v].pc = "give up"
        PROVE  jobs'[g].attempts = MaxAttempts /\ jobs'[g].by \in {v, Null} /\ files'[g].status # "completed"
    BY <2>1 DEF StoredInv, WorkerInv, TablesKept
  <2>. QED BY <2>1, WorkerKept DEF TablesKept
<1>3. ASSUME NEW g \in File, files'[g].status = "completed", VersionOf(g)' = g
      PROVE  versions'[g] = g /\ <<"source", g>> \in objects'
  <2>1. files[g].status = "completed"
    BY <1>3 DEF TablesKept
  <2>2. VersionOf(g) = g
    BY <1>3, <2>1, KnownStep DEF Entered
  <2>. QED BY <2>1, <2>2 DEF StoredInv, CompletedIsStored, TablesKept
<1>. QED BY <1>1, <1>2, <1>3 DEF StoredInv, CompletedIsStored
\* Requests, the sweep and time take nothing away and give nobody a job.
LEMMA RestKept ==
  ASSUME TypeOK, Ask \/ Sweep \/ TimePasses \/ \E r \in Request : Serve(r)
  PROVE  TablesKept /\ workers' = workers
<1> DEFINE FilesKept == \A g \in File : files'[g].status = "completed" => files[g].status = "completed"
           JobsKept == \A g \in File :
             /\ \A v \in Worker : Owns(v, g)' => Owns(v, g)
             /\ jobs'[g].attempts = jobs[g].attempts /\ jobs'[g].by \in {jobs[g].by, Null}
           SourcesKept == \A g \in File : <<"source", g>> \in objects => <<"source", g>> \in objects'
<1>0. files \in [File -> FileRow] /\ jobs \in [File -> JobRow]
  BY Tables
<1>1. versions' = versions /\ workers' = workers
  <2>1. UNCHANGED library /\ workers' = workers
    BY DEF Ask, Create, Put, Confirm, Report, Cancel, RefreshUrls, Sweep, TimePasses, Serve
  <2>. QED BY <2>1 DEF library
<1>2. ASSUME files' = files PROVE FilesKept
  BY <1>2
<1>3. ASSUME jobs' = jobs PROVE JobsKept
  BY <1>3 DEF Owns
<1>4. ASSUME \E X : objects' = objects \cup X \/ objects' = objects \ ({"staged", "misfit", "sealed"} \X X)
      PROVE  SourcesKept
  BY <1>4
<1>5. ASSUME NEW f \in File, NEW st, st # "completed", NEW e, Writes(f, st, e)
      PROVE  FilesKept
  BY <1>0, <1>5 DEF Writes, FileRow
<1>6. CASE Ask
  <2>1. ASSUME NEW s \in Session, RefreshUrls(s) PROVE FilesKept
    <3>1. \A f \in File : files'[f] = files[f] \/
            files'[f] = [files[f] EXCEPT !.status = "pending_upload", !.error = "none", !.aged = FALSE]
      BY <2>1 DEF RefreshUrls
    <3>2. \A f \in File : [files[f] EXCEPT !.status = "pending_upload", !.error = "none",
                                           !.aged = FALSE].status # "completed"
      BY <1>0 DEF FileRow
    <3>. QED BY <3>1, <3>2
  <2>2. ASSUME NEW s \in Session, NEW p \in Purposes, NEW fs \in SUBSET File, Create(s, p, fs)
        PROVE  FilesKept
    BY <2>2 DEF Create
  <2>3. \/ files' = files
        \/ \E s \in Session : RefreshUrls(s)
        \/ \E s \in Session, p \in Purposes, fs \in SUBSET File : Create(s, p, fs)
    BY <1>6 DEF Ask, Put, Confirm, Report, Cancel, server
  <2>4. jobs' = jobs
    BY <1>6 DEF Ask, Create, Put, Confirm, Report, Cancel, RefreshUrls, server
  <2>5. objects' = objects \cup {} \/ \E o : objects' = objects \cup {o}
    BY <1>6 DEF Ask, Create, Put, Confirm, Report, Cancel, RefreshUrls, server
  <2>6. FilesKept
    <3> HIDE DEF FilesKept
    <3>. QED BY <2>1, <2>2, <2>3, <1>2
  <2>. QED BY <2>4, <2>5, <2>6, <1>1, <1>3, <1>4 DEF TablesKept
<1>7. CASE \E r \in Request : Serve(r)
  <2>1. PICK r \in Request : Serve(r)
    BY <1>7
  <2>2. \/ files' = files
        \/ \E f \in File, st \in {"pending_upload", "verifying", "uploaded", "error"} : \E e : Writes(f, st, e)
    BY <2>1 DEF Serve, Recover, Claim, Verify, Copy, WriteSealResult, QueueFileProcessing,
       ExtendAndRefresh, Discard, FailTransfer, CancelSession, WipeSession, RequestDies, server
  <2>3. FilesKept
    <3> HIDE DEF FilesKept
    <3>. QED BY <2>2, <1>2, <1>5
  <2>4. ASSUME NEW f \in File, QueueFileProcessing(r, f) PROVE JobsKept
    BY <1>0, <2>4 DEF QueueFileProcessing, Owns, JobRow
  <2>5. jobs' = jobs \/ \E f \in File : QueueFileProcessing(r, f)
    BY <2>1 DEF Serve, Recover, Claim, Verify, Copy, WriteSealResult,
       ExtendAndRefresh, Discard, FailTransfer, CancelSession, WipeSession, RequestDies, server
  <2>6. JobsKept
    <3> HIDE DEF JobsKept
    <3>. QED BY <2>4, <2>5, <1>3
  <2>7. ASSUME NEW f \in File, Verify(r, f) \/ Copy(r, f) \/ Discard(r, f) PROVE SourcesKept
    BY <2>7 DEF Verify, Copy, Discard
  <2>8. ASSUME NEW s \in Session, WipeSession(r, s) PROVE SourcesKept
    BY <2>8 DEF WipeSession
  <2>9. \/ objects' = objects
        \/ \E f \in File : Verify(r, f) \/ Copy(r, f) \/ Discard(r, f)
        \/ \E s \in Session : WipeSession(r, s)
    BY <2>1 DEF Serve, Recover, Claim, WriteSealResult, QueueFileProcessing,
       ExtendAndRefresh, FailTransfer, CancelSession, RequestDies, server
  <2>10. SourcesKept
    BY <2>7, <2>8, <2>9
  <2>. QED BY <2>3, <2>6, <2>10, <1>1 DEF TablesKept
<1>8. CASE Sweep
  <2>1. FilesKept
    <3>1. \/ files' = files
          \/ files' = [files EXCEPT ![sweep.on].status = "error", ![sweep.on].error = "processing_failed"]
      BY <1>8 DEF Sweep, ExpireOverdue, FailExhaustedJob, FailExhaustedFile, WipeOverSession, SweepDies,
         FindExhaustedJob, ReadOverSession, server
    <3>. QED BY <3>1, <1>0 DEF FileRow
  <2>2. JobsKept
    <3>1. \/ jobs' = jobs
          \/ jobs' = [jobs EXCEPT ![sweep.on].status = "error", ![sweep.on].by = Null,
                                  ![sweep.on].lapsed = FALSE]
      BY <1>8 DEF Sweep, ExpireOverdue, FailExhaustedJob, FailExhaustedFile, WipeOverSession, SweepDies,
         FindExhaustedJob, ReadOverSession, server
    <3>. QED BY <3>1, <1>0 DEF JobRow, Owns
  <2>3. objects' = objects \/ objects' = objects \ ({"staged", "misfit", "sealed"} \X sweep.wipe)
    BY <1>8 DEF Sweep, ExpireOverdue, FailExhaustedJob, FailExhaustedFile, WipeOverSession, SweepDies,
       FindExhaustedJob, ReadOverSession, server
  <2>4. SourcesKept
    BY <2>3
  <2>. QED BY <2>1, <2>2, <2>4, <1>1 DEF TablesKept
<1>9. CASE TimePasses
  <2>1. FilesKept
    <3>1. files' = files \/ \E f : files' = [files EXCEPT ![f].aged = TRUE]
      BY <1>9 DEF TimePasses, ComesDue, ClaimAges, LeaseLapses
    <3>. QED BY <3>1, <1>0 DEF FileRow
  <2>2. JobsKept
    <3>1. jobs' = jobs \/ \E f : jobs' = [jobs EXCEPT ![f].lapsed = TRUE]
      BY <1>9 DEF TimePasses, ComesDue, ClaimAges, LeaseLapses
    <3>. QED BY <3>1, <1>0 DEF JobRow, Owns
  <2>3. objects' = objects
    BY <1>9 DEF TimePasses, ComesDue, ClaimAges, LeaseLapses
  <2>. QED BY <2>1, <2>2, <2>3, <1>1 DEF TablesKept
<1>. QED BY <1>6, <1>7, <1>8, <1>9

\* A worker that rests or goes on to a place where it has nothing written.
LEMMA QuietMoves ==
  ASSUME TypeOK, NEW w \in Worker,
         Rests(w) \/ \E pc \in WorkerPc \ (Writing \cup {"give up"}) : Steps(w, pc)
  PROVE  Quiet(w) /\ \A v \in Worker \ {w} : workers'[v] = workers[v]
<1>0. workers \in [Worker -> WorkerState]
  BY Tables
<1>1. CASE Rests(w)
  <2>1. \A v \in Worker \ {w} : workers'[v] = workers[v]
    BY <1>0, <1>1 DEF Rests
  <2>2. workers'[w].pc = "idle" /\ workers'[w].saw = Null /\ workers'[w].f = Null
    BY <1>0, <1>1 DEF Rests, Idle
  <2>3. "idle" \notin Writing \cup {"give up"}
    BY DEF Writing
  <2>. QED BY <2>1, <2>2, <2>3 DEF Quiet
<1>2. ASSUME NEW pc \in WorkerPc \ (Writing \cup {"give up"}), Steps(w, pc)
      PROVE  Quiet(w) /\ \A v \in Worker \ {w} : workers'[v] = workers[v]
  <2>1. workers'[w] = [workers[w] EXCEPT !.pc = pc] /\ \A v \in Worker \ {w} : workers'[v] = workers[v]
    BY <1>0, <1>2 DEF Steps
  <2>2. /\ workers'[w].pc = pc /\ workers'[w].saw = workers[w].saw
        /\ workers'[w].f = workers[w].f /\ workers'[w].attempt = workers[w].attempt
    BY <1>0, <2>1 DEF WorkerState
  <2>. QED BY <1>2, <2>1, <2>2 DEF Quiet
<1>. QED BY <1>1, <1>2

\* Steps that leave the tables as they are, but for a file that starts or
\* fails, a job that is given back or finished, a document's status or an
\* upload's own objects, and after which the worker has nothing written.
LEMMA QuietKept ==
  ASSUME TypeOK, NEW w \in Worker, workers[w].f \in File,
         \/ Begin(w, workers[w].f) \/ Download(w, workers[w].f) \/ UpsertDocument(w, workers[w].f)
         \/ DropSealed(w, workers[w].f) \/ Requeue(w, workers[w].f) \/ ResetFile(w, workers[w].f)
         \/ PurgeFailed(w, workers[w].f) \/ Finish(w, workers[w].f) \/ RefreshSession(w, workers[w].f)
  PROVE  TablesKept /\ Quiet(w) /\ \A v \in Worker \ {w} : workers'[v] = workers[v]
<1> DEFINE f == workers[w].f
<1>0. /\ files \in [File -> FileRow] /\ jobs \in [File -> JobRow]
      /\ workers \in [Worker -> WorkerState]
  BY Tables
<1>1. versions' = versions
  BY DEF Begin, Download, UpsertDocument, DropSealed, Requeue, ResetFile, PurgeFailed, Finish,
     RefreshSession, server, library
<1>2. \A g \in File : files'[g].status = "completed" => files[g].status = "completed"
  <2>1. \/ files' = files
        \/ Writes(f, "processing", "none")
        \/ files' = [files EXCEPT ![f].status = "uploaded", ![f].error = "none"]
    BY DEF Begin, Download, UpsertDocument, DropSealed, Requeue, ResetFile, PurgeFailed, Finish,
       RefreshSession, server
  <2>. QED BY <1>0, <2>1 DEF Writes, FileRow
<1>3. \A g \in File :
        /\ \A v \in Worker : Owns(v, g)' => Owns(v, g)
        /\ jobs'[g].attempts = jobs[g].attempts /\ jobs'[g].by \in {jobs[g].by, Null}
  <2>1. \/ jobs' = jobs
        \/ jobs' = [jobs EXCEPT ![f].lapsed = FALSE]
        \/ \E st \in {"queued", "completed"} :
             jobs' = [jobs EXCEPT ![f].status = st, ![f].by = Null, ![f].lapsed = FALSE]
    BY DEF Begin, Download, UpsertDocument, DropSealed, Requeue, ResetFile, PurgeFailed, Finish,
       RefreshSession, server, Heartbeat
  <2>. QED BY <1>0, <2>1 DEF Owns, JobRow
<1>4. \A g \in File : <<"source", g>> \in objects => <<"source", g>> \in objects'
  <2>1. \/ objects' = objects
        \/ objects' = objects \ {<<"sealed", f>>}
        \/ \E X : objects' = objects \ {<<"sealed", g>> : g \in X}
    BY DEF Begin, Download, UpsertDocument, DropSealed, Requeue, ResetFile, PurgeFailed, Finish,
       RefreshSession, server
  <2>. QED BY <2>1
<1>5. CASE Download(w, f)
  <2>1. /\ workers'[w].pc \in {"failed", "upsert", "copy"}
        /\ workers'[w].saw \in {Null, versions[Old]}
        /\ workers'[w].f = f /\ workers'[w].attempt = workers[w].attempt
        /\ \A v \in Worker \ {w} : workers'[v] = workers[v]
    BY <1>0, <1>5 DEF Download, WorkerState
  <2>. QED BY <1>1, <1>2, <1>3, <1>4, <2>1 DEF TablesKept, Quiet, Writing
<1>6. CASE ~Download(w, f)
  <2>1. Rests(w) \/ \E pc \in {"finish", "purge", "download", "copy", "reset", "refresh"} : Steps(w, pc)
    BY <1>6 DEF Begin, UpsertDocument, DropSealed, Requeue, ResetFile, PurgeFailed, Finish, RefreshSession
  <2>2. Quiet(w) /\ \A v \in Worker \ {w} : workers'[v] = workers[v]
    BY <2>1, QuietMoves DEF Writing, WorkerPc
  <2>. QED BY <1>1, <1>2, <1>3, <1>4, <2>2 DEF TablesKept
<1>. QED BY <1>5, <1>6

\* So are steps that come to nothing.
LEMMA IdleKept ==
  ASSUME TypeOK, NEW w \in Worker, UNCHANGED <<server, versions>>,
         Rests(w) \/ Steps(w, "failed")
  PROVE  TablesKept /\ Quiet(w) /\ \A v \in Worker \ {w} : workers'[v] = workers[v]
<1>1. UNCHANGED <<files, jobs, objects, versions>>
  BY DEF server
<1>2. Quiet(w) /\ \A v \in Worker \ {w} : workers'[v] = workers[v]
  BY QuietMoves DEF Writing, WorkerPc
<1>. QED BY <1>1, <1>2 DEF TablesKept, Owns

\* A new owner has written nothing yet, its predecessor owns the job no more,
\* and none has spent the attempts.
LEMMA ClaimStored ==
  ASSUME TypeOK, KnownInv, StoredInv, [Next]_vars, NEW w \in Worker, NEW f \in File, ClaimJob(w, f)
  PROVE  StoredInv'
<1>0. jobs \in [File -> JobRow] /\ workers \in [Worker -> WorkerState] /\ files \in [File -> FileRow]
  BY Tables
<1>1. UNCHANGED <<objects, versions>>
  BY DEF ClaimJob, library
<1>2. /\ jobs'[f].attempts = jobs[f].attempts + 1 /\ jobs'[f].by = w
      /\ \A g \in File \ {f} : jobs'[g] = jobs[g]
  BY <1>0 DEF ClaimJob
<1>3. /\ workers'[w] = [pc |-> "begin", f |-> f, saw |-> Null, attempt |-> jobs[f].attempts + 1]
      /\ \A v \in Worker \ {w} : workers'[v] = workers[v]
  BY <1>0 DEF ClaimJob
<1>4. \A g \in File : files'[g].status = "completed" => files[g].status = "completed"
  <2>1. files' = files \/ files' = [files EXCEPT ![f].status = "processing", ![f].error = "none"]
    BY DEF ClaimJob
  <2>. QED BY <1>0, <2>1 DEF FileRow
<1>5. ASSUME NEW v \in Worker, v # w PROVE WorkerInv(v)'
  <2>1. ASSUME NEW g \in File, Owns(v, g)'
        PROVE  Owns(v, g) /\ jobs'[g].attempts = jobs[g].attempts
    BY <1>2, <1>5, <2>1 DEF Owns
  <2>2. ASSUME NEW g \in File, workers[v].f = g, workers[v].pc = "give up"
        PROVE  jobs'[g].attempts = MaxAttempts /\ jobs'[g].by \in {v, Null} /\ files'[g].status # "completed"
    <3>1. /\ jobs[g].attempts = MaxAttempts /\ jobs[g].by \in {v, Null}
          /\ files[g].status # "completed"
      BY <2>2 DEF StoredInv, WorkerInv
    <3>2. jobs[f].attempts < MaxAttempts
      BY DEF ClaimJob
    <3>3. g # f
      BY <3>1, <3>2, UploadAssumption DEF UploadAssumption
    <3>. QED BY <1>2, <1>4, <3>1, <3>3
  <2>. QED BY <1>1, <1>3, <1>5, <2>1, <2>2, WorkerKept
<1>6. WorkerInv(w)'
  BY <1>2, <1>3 DEF WorkerInv, Writing
<1>7. OldContent(versions[Old])'
  BY <1>1, OldStays DEF StoredInv
<1>8. CompletedIsStored'
  <2>1. ASSUME NEW g \in File, files'[g].status = "completed", VersionOf(g)' = g
        PROVE  versions'[g] = g /\ <<"source", g>> \in objects'
    <3>1. files[g].status = "completed"
      BY <1>4, <2>1
    <3>2. VersionOf(g) = g
      BY <2>1, <3>1, KnownStep DEF Entered
    <3>. QED BY <1>1, <3>1, <3>2 DEF StoredInv, CompletedIsStored
  <2>. QED BY <2>1 DEF CompletedIsStored
<1>. QED BY <1>5, <1>6, <1>7, <1>8 DEF StoredInv
\* What a worker's step may take away: old content, or what it wrote itself
\* when it cleans up; it completes only a file whose job it owns.
Careful(w) ==
  /\ \A v \in Worker \ {w} : workers'[v] = workers[v]
  /\ \A g \in File :
       /\ \A v \in Worker : Owns(v, g)' => Owns(v, g)
       /\ jobs'[g].attempts = jobs[g].attempts /\ jobs'[g].by \in {jobs[g].by, Null}
       /\ \/ <<"source", g>> \in objects => <<"source", g>> \in objects'
          \/ OldContent(g) \/ (g = workers[w].f /\ workers[w].pc = "give up")
       /\ \/ versions'[g] \in {versions[g], g}
          \/ g = workers[w].f /\ workers[w].pc = "give up"
       /\ files'[g].status = "completed" =>
            \/ files[g].status = "completed"
            \/ g = workers[w].f /\ workers[w].pc = "settle" /\ Owns(w, g)
  /\ \/ versions'[Old] = versions[Old]
     \/ \E g \in File : versions'[Old] = g /\ OldContent(g)

LEMMA CarefulStep ==
  ASSUME TypeOK, KnownInv, StoredInv, [Next]_vars, NEW w \in Worker, Careful(w)
  PROVE  /\ OldContent(versions[Old])'
         /\ \A v \in Worker \ {w} : WorkerInv(v)'
         /\ \A g \in File : files[g].status = "completed" /\ VersionOf(g)' = g =>
              versions'[g] = g /\ <<"source", g>> \in objects'
<1>0. Old \notin File /\ Null \notin Worker
  BY UploadAssumption DEF UploadAssumption
<1>1. ASSUME NEW g \in File, VersionOf(g) = g PROVE ~OldContent(g)
  BY <1>0, <1>1 DEF OldContent
<1>2. OldContent(versions[Old])'
  <2>1. PICK o : o = versions'[Old]
    OBVIOUS
  <2>2. OldContent(o)
    BY <2>1 DEF Careful, StoredInv
  <2>3. OldContent(o)'
    BY <2>2, OldStays
  <2>. QED BY <2>1, <2>3 DEF OldContent
<1>3. ASSUME NEW v \in Worker \ {w} PROVE WorkerInv(v)'
  <2>1. ASSUME NEW g \in File, workers[v].f = g, workers[v].pc = "give up"
        PROVE  jobs'[g].attempts = MaxAttempts /\ jobs'[g].by \in {v, Null} /\ files'[g].status # "completed"
    <3>1. /\ jobs[g].attempts = MaxAttempts /\ jobs[g].by \in {v, Null}
          /\ files[g].status # "completed"
      BY <2>1 DEF StoredInv, WorkerInv
    <3>2. ~Owns(w, g)
      BY <1>0, <3>1 DEF Owns
    <3>. QED BY <3>1, <3>2 DEF Careful
  <2>2. ASSUME NEW g \in File, workers[v].f = g, workers[v].pc \in Writing, Owns(v, g), VersionOf(g) = g
        PROVE  /\ <<"source", g>> \in objects => <<"source", g>> \in objects'
               /\ versions[g] = g => versions'[g] = g
    <3>1. ~(g = workers[w].f /\ workers[w].pc = "give up")
      BY <1>0, <2>2 DEF StoredInv, WorkerInv, Owns
    <3>2. ~OldContent(g)
      BY <1>1, <2>2
    <3>. QED BY <3>1, <3>2 DEF Careful
  <2>3. workers'[v] = workers[v]
    BY DEF Careful
  <2>4. \A g \in File : Owns(v, g)' => Owns(v, g) /\ jobs'[g].attempts = jobs[g].attempts
    BY DEF Careful
  <2>. QED BY <2>1, <2>2, <2>3, <2>4, WorkerKept
<1>4. ASSUME NEW g \in File, files[g].status = "completed", VersionOf(g)' = g
      PROVE  versions'[g] = g /\ <<"source", g>> \in objects'
  <2>1. VersionOf(g) = g
    BY <1>4, KnownStep DEF Entered
  <2>2. versions[g] = g /\ <<"source", g>> \in objects
    BY <1>4, <2>1 DEF StoredInv, CompletedIsStored
  <2>3. ~(g = workers[w].f /\ workers[w].pc = "give up")
    BY <1>4 DEF StoredInv, WorkerInv
  <2>4. ~OldContent(g)
    BY <1>1, <2>1
  <2>. QED BY <2>2, <2>3, <2>4 DEF Careful
<1>. QED BY <1>2, <1>3, <1>4

\* Unless it completes one, nothing is left but the worker itself.
LEMMA CarefulStored ==
  ASSUME TypeOK, KnownInv, StoredInv, [Next]_vars, NEW w \in Worker, Careful(w), WorkerInv(w)',
         \A g \in File : files'[g].status = "completed" => files[g].status = "completed"
  PROVE  StoredInv'
<1>1. CompletedIsStored'
  BY CarefulStep DEF CompletedIsStored
<1>. QED BY <1>1, CarefulStep DEF StoredInv

LEMMA StepsRow ==
  ASSUME TypeOK, NEW w \in Worker, NEW pc \in WorkerPc, Steps(w, pc)
  PROVE  /\ workers'[w].pc = pc /\ workers'[w].saw = workers[w].saw
         /\ workers'[w].f = workers[w].f /\ workers'[w].attempt = workers[w].attempt
         /\ \A v \in Worker \ {w} : workers'[v] = workers[v]
BY Tables DEF Steps, WorkerState

\* The worker itself after a step: what it still has to show for itself.
LEMMA WorkerAfter ==
  ASSUME TypeOK, KnownInv, StoredInv, [Next]_vars, NEW w \in Worker, NEW f \in File, workers[w].f = f,
         NEW pc \in WorkerPc, Steps(w, pc),
         Owns(w, f)' =>
           Owns(w, f) /\ jobs'[f].attempts = jobs[f].attempts,
         pc = "give up" =>
           /\ jobs'[f].attempts = MaxAttempts /\ jobs'[f].by \in {w, Null}
           /\ files'[f].status # "completed",
         pc \in Writing /\ Owns(w, f) /\ VersionOf(f) = f =>
           /\ <<"source", f>> \in objects'
           /\ pc # "version" => versions'[f] = f
  PROVE  WorkerInv(w)'
<1>2. /\ workers'[w].pc = pc /\ workers'[w].saw = workers[w].saw
      /\ workers'[w].f = f /\ workers'[w].attempt = workers[w].attempt
  BY StepsRow
<1>3. VersionOf(f)' = VersionOf(f)
  BY KnownStep DEF KnownInv
<1>4. workers'[w].saw = Null \/ OldContent(workers[w].saw)'
  <2>1. PICK o : o = workers'[w].saw
    OBVIOUS
  <2>2. o = Null \/ OldContent(o)
    BY <1>2, <2>1 DEF StoredInv, WorkerInv
  <2>3. o = Null \/ OldContent(o)'
    BY <2>2, OldStays
  <2>. QED BY <2>1, <2>3 DEF OldContent
<1>5. Owns(w, f)' => workers'[w].attempt = jobs'[f].attempts
  BY <1>2 DEF StoredInv, WorkerInv
<1>6. workers'[w].pc = "give up" =>
        jobs'[f].attempts = MaxAttempts /\ jobs'[f].by \in {w, Null} /\ files'[f].status # "completed"
  BY <1>2
<1>7. workers'[w].pc \in Writing /\ Owns(w, f)' /\ VersionOf(f)' = f =>
        <<"source", f>> \in objects' /\ (workers'[w].pc # "version" => versions'[f] = f)
  BY <1>2, <1>3
<1>. QED BY <1>2, <1>4, <1>5, <1>6, <1>7 DEF WorkerInv
LEMMA LastAttempt ==
  ASSUME NEW n \in 0..MaxAttempts, ~(n < MaxAttempts)
  PROVE  n = MaxAttempts
BY UploadAssumption DEF UploadAssumption

LEMMA WorkStored ==
  ASSUME TypeOK, KnownInv, StoredInv, [Next]_vars, NEW w \in Worker, Work(w)
  PROVE  StoredInv'
<1>0. /\ files \in [File -> FileRow] /\ jobs \in [File -> JobRow]
      /\ workers \in [Worker -> WorkerState]
      /\ versions \in [File \cup {Old} -> File \cup {Old, Null}]
  BY Tables DEF TypeOK
<1>1. Old \notin File /\ Null \notin Worker /\ Null \notin File \cup {Old}
  BY UploadAssumption DEF UploadAssumption
<1>2. ASSUME NEW g \in File, ClaimJob(w, g) PROVE StoredInv'
  BY <1>2, ClaimStored
<1>3. ASSUME TablesKept, Quiet(w), \A v \in Worker \ {w} : workers'[v] = workers[v]
      PROVE  StoredInv'
  BY <1>3, KeptStep
<1>4. ASSUME ProcessingFails(w) \/ WorkerDies(w) PROVE StoredInv'
  <2>1. UNCHANGED <<server, versions>> /\ (Rests(w) \/ Steps(w, "failed"))
    BY <1>4 DEF ProcessingFails, WorkerDies, library
  <2>. QED BY <2>1, <1>3, IdleKept
<1>5. ASSUME NEW f \in File, workers[w].f = f, CopySource(w, f) PROVE StoredInv'
  <2>1. CASE UNCHANGED objects /\ Steps(w, "failed")
    <3>1. UNCHANGED <<server, versions>>
      BY <1>5, <2>1 DEF CopySource, server, library
    <3>. QED BY <2>1, <3>1, <1>3, IdleKept
  <2>2. CASE objects' = objects \cup {<<"source", f>>} /\ Steps(w, "version")
    <3>1. UNCHANGED <<files, jobs, versions>>
      BY <1>5 DEF CopySource, library
    <3>2. Careful(w)
      BY <2>2, <3>1, StepsRow DEF Careful, Owns, WorkerPc
    <3>3. WorkerInv(w)'
      BY <1>5, <2>2, <3>1, WorkerAfter DEF Owns, WorkerPc
    <3>. QED BY <3>1, <3>2, <3>3, CarefulStored
  <2>. QED BY <1>5, <2>1, <2>2 DEF CopySource
<1>6. ASSUME NEW f \in File, workers[w].f = f, WriteVersion(w, f) PROVE StoredInv'
  <2>1. CASE UNCHANGED <<versions, objects>> /\ Steps(w, "failed")
    <3>1. UNCHANGED <<server, versions>>
      BY <1>6, <2>1 DEF WriteVersion, server
    <3>. QED BY <2>1, <3>1, <1>3, IdleKept
  <2>2. CASE /\ versions' = [versions EXCEPT ![VersionOf(f)] = f]
             /\ objects' = objects \ ({<<"source", workers[w].saw>>} \ {<<"source", f>>})
             /\ Steps(w, IF PurposeOf(f) = "document_version_replace" THEN "settle" ELSE "publish")
    <3>1. UNCHANGED <<files, jobs>> /\ workers[w].pc = "version"
      BY <1>6 DEF WriteVersion
    <3>2. PICK pc \in {"settle", "publish"} : Steps(w, pc)
      BY <2>2
    <3>3. VersionOf(f) \in {f, Old} /\ Entered(f)
      BY <1>6 DEF VersionOf, KnownInv
    <3>4. ASSUME NEW g \in File
          PROVE  /\ versions'[g] \in {versions[g], g}
                 /\ (<<"source", g>> \in objects => <<"source", g>> \in objects') \/ OldContent(g)
      <4>1. versions'[g] \in {versions[g], g}
        BY <1>0, <1>1, <2>2, <3>3
      <4>2. CASE g = workers[w].saw
        BY <1>1, <4>1, <4>2 DEF StoredInv, WorkerInv
      <4>3. CASE g # workers[w].saw
        BY <2>2, <4>1, <4>3
      <4>. QED BY <4>2, <4>3
    <3>5. versions'[Old] = versions[Old] \/ (versions'[Old] = f /\ OldContent(f))
      BY <1>0, <1>1, <2>2, <3>3 DEF OldContent
    <3>6. Careful(w)
      BY <3>1, <3>2, <3>4, <3>5, StepsRow DEF Careful, Owns, WorkerPc
    <3>7. pc \in Writing /\ Owns(w, f) /\ VersionOf(f) = f =>
            <<"source", f>> \in objects' /\ versions'[f] = f
      BY <1>0, <1>6, <2>2, <3>1 DEF StoredInv, WorkerInv, Writing
    <3>8. WorkerInv(w)'
      BY <1>6, <3>1, <3>2, <3>7, WorkerAfter DEF Owns, WorkerPc
    <3>. QED BY <3>1, <3>6, <3>8, CarefulStored
  <2>. QED BY <1>6, <2>1, <2>2 DEF WriteVersion
<1>7. ASSUME NEW f \in File, workers[w].f = f, Publish(w, f) PROVE StoredInv'
  <2>1. UNCHANGED <<files, jobs, objects, versions>> /\ workers[w].pc = "publish"
    BY <1>7 DEF Publish, server
  <2>2. CASE Steps(w, "failed")
    <3>1. UNCHANGED <<server, versions>>
      BY <1>7 DEF Publish, server
    <3>. QED BY <2>2, <3>1, <1>3, IdleKept
  <2>3. CASE Steps(w, "settle")
    <3>1. Careful(w)
      BY <2>1, <2>3, StepsRow DEF Careful, Owns, WorkerPc
    <3>2. Owns(w, f) /\ VersionOf(f) = f => <<"source", f>> \in objects' /\ versions'[f] = f
      BY <1>7, <2>1 DEF StoredInv, WorkerInv, Writing
    <3>3. WorkerInv(w)'
      BY <1>7, <2>1, <2>3, <3>2, WorkerAfter DEF Owns, WorkerPc
    <3>. QED BY <2>1, <3>1, <3>3, CarefulStored
  <2>. QED BY <1>7, <2>2, <2>3 DEF Publish
<1>8. ASSUME NEW f \in File, workers[w].f = f, Settle(w, f) PROVE StoredInv'
  <2>1. CASE Rests(w) /\ UNCHANGED <<files, jobs>>
    <3>1. UNCHANGED <<server, versions>>
      BY <1>8, <2>1 DEF Settle, server, library
    <3>. QED BY <2>1, <3>1, <1>3, IdleKept
  <2>2. CASE Owns(w, f) /\ Heartbeat(w, f) /\ Writes(f, "completed", "none") /\ Steps(w, "drop")
    <3>1. UNCHANGED <<objects, versions>> /\ workers[w].pc = "settle"
      BY <1>8 DEF Settle, library
    <3>2. \A g \in File :
            /\ \A v \in Worker : Owns(v, g)' => Owns(v, g)
            /\ jobs'[g].attempts = jobs[g].attempts /\ jobs'[g].by = jobs[g].by
      BY <1>0, <2>2 DEF Heartbeat, Owns, JobRow
    <3>3. \A g \in File : g # f => files'[g] = files[g]
      BY <1>0, <2>2 DEF Writes
    <3>4. Careful(w)
      BY <1>8, <2>2, <3>1, <3>2, <3>3, StepsRow DEF Careful, WorkerPc
    <3>5. WorkerInv(w)'
      BY <1>8, <2>2, <3>1, <3>2, WorkerAfter DEF WorkerPc, Writing
    <3>6. ASSUME NEW g \in File, files'[g].status = "completed", VersionOf(g)' = g
          PROVE  versions'[g] = g /\ <<"source", g>> \in objects'
      <4>1. CASE g = f
        <5>1. VersionOf(f) = f
          BY <1>8, <3>6, <4>1, KnownStep DEF KnownInv
        <5>. QED BY <1>8, <2>2, <3>1, <4>1, <5>1 DEF StoredInv, WorkerInv, Writing
      <4>2. CASE g # f
        BY <3>3, <3>4, <3>6, <4>2, CarefulStep
      <4>. QED BY <4>1, <4>2
    <3>7. CompletedIsStored'
      BY <3>6 DEF CompletedIsStored
    <3>. QED BY <3>4, <3>5, <3>7, CarefulStep DEF StoredInv
  <2>. QED BY <1>8, <2>1, <2>2 DEF Settle
<1>9. ASSUME NEW f \in File, workers[w].f = f, FailFile(w, f) PROVE StoredInv'
  <2>1. CASE Rests(w) /\ UNCHANGED <<files, jobs>>
    <3>1. UNCHANGED <<server, versions>>
      BY <1>9, <2>1 DEF FailFile, server
    <3>. QED BY <2>1, <3>1, <1>3, IdleKept
  <2>2. CASE /\ Owns(w, f) /\ Heartbeat(w, f) /\ Writes(f, "error", "processing_failed")
             /\ Steps(w, IF workers[w].attempt < MaxAttempts THEN "requeue" ELSE "give up")
    <3>1. UNCHANGED <<objects, versions>> /\ workers[w].pc = "failed"
      BY <1>9 DEF FailFile
    <3>2. \A g \in File :
            /\ \A v \in Worker : Owns(v, g)' => Owns(v, g)
            /\ jobs'[g].attempts = jobs[g].attempts /\ jobs'[g].by = jobs[g].by
      BY <1>0, <2>2 DEF Heartbeat, Owns, JobRow
    <3>3. files'[f].status = "error" /\ \A g \in File : g # f => files'[g] = files[g]
      BY <1>0, <2>2 DEF Writes, FileRow
    <3>4. PICK pc \in {"requeue", "give up"} : /\ Steps(w, pc)
                                               /\ pc = "give up" => ~(workers[w].attempt < MaxAttempts)
      BY <2>2
    <3>5. Careful(w)
      BY <3>1, <3>2, <3>3, <3>4, StepsRow DEF Careful, WorkerPc
    <3>6. pc = "give up" => jobs'[f].attempts = MaxAttempts
      <4>1. jobs[f].attempts = workers[w].attempt
        BY <1>9, <2>2 DEF StoredInv, WorkerInv
      <4>2. jobs[f].attempts \in 0..MaxAttempts /\ MaxAttempts \in Nat
        BY <1>0, UploadAssumption DEF JobRow, UploadAssumption
      <4>3. jobs'[f].attempts = jobs[f].attempts
        BY <3>2
      <4>4. ~(jobs[f].attempts < MaxAttempts) => jobs[f].attempts = MaxAttempts
        BY <4>2, LastAttempt
      <4>. QED BY <3>4, <4>1, <4>3, <4>4
    <3>7. WorkerInv(w)'
      BY <1>9, <2>2, <3>2, <3>3, <3>4, <3>6, WorkerAfter DEF Owns, WorkerPc, Writing
    <3>. QED BY <3>3, <3>5, <3>7, CarefulStored
  <2>. QED BY <1>9, <2>1, <2>2 DEF FailFile
<1>10. ASSUME NEW f \in File, workers[w].f = f, GiveUp(w, f) PROVE StoredInv'
  <2>1. UNCHANGED <<files, jobs>> /\ workers[w].pc = "give up" /\ Steps(w, "purge")
    BY <1>10 DEF GiveUp
  <2>2. \/ UNCHANGED <<objects, versions>>
        \/ /\ objects' = objects \ {<<"source", f>>}
           /\ versions' = [versions EXCEPT ![f] = Null] \/ versions' = [versions EXCEPT ![f] = @]
    BY <1>10 DEF GiveUp, library
  <2>3. Careful(w)
    <3>1. \A g \in File : /\ (<<"source", g>> \in objects => <<"source", g>> \in objects') \/ g = f
                          /\ versions'[g] = versions[g] \/ g = f
      BY <1>0, <2>2
    <3>2. versions'[Old] = versions[Old]
      BY <1>0, <1>1, <2>2
    <3>. QED BY <1>10, <2>1, <3>1, <3>2, StepsRow DEF Careful, Owns, WorkerPc
  <2>4. WorkerInv(w)'
    BY <1>10, <2>1, WorkerAfter DEF Owns, WorkerPc, Writing
  <2>. QED BY <2>1, <2>3, <2>4, CarefulStored
<1>11. ASSUME workers[w].f \in File,
         \/ Begin(w, workers[w].f) \/ Download(w, workers[w].f) \/ UpsertDocument(w, workers[w].f)
         \/ DropSealed(w, workers[w].f) \/ Requeue(w, workers[w].f) \/ ResetFile(w, workers[w].f)
         \/ PurgeFailed(w, workers[w].f) \/ Finish(w, workers[w].f) \/ RefreshSession(w, workers[w].f)
       PROVE StoredInv'
  BY <1>3, <1>11, QuietKept
<1>. QED
  BY <1>2, <1>4, <1>5, <1>6, <1>7, <1>8, <1>9, <1>10, <1>11 DEF Work

\* What a completed file wrote as its own version is there, and so is the
\* object that the version points at, although workers that lost the lease go
\* on copying, writing and cleaning up.
THEOREM CompletedStored == Spec => []CompletedIsStored
<1>1. Init => TypeOK /\ KnownInv /\ StoredInv
  BY InitType, TypesAreTypes, InitStored
<1>2. TypeOK /\ KnownInv /\ StoredInv /\ [Next]_vars => TypeOK' /\ KnownInv' /\ StoredInv'
  <2> SUFFICES ASSUME TypeOK, KnownInv, StoredInv, [Next]_vars PROVE StoredInv'
    BY NextType, KnownStep
  <2>1. CASE UNCHANGED vars
    <3>1. TablesKept /\ workers' = workers
      BY <2>1 DEF vars, server, library, TablesKept, Owns
    <3>. QED BY <3>1, KeptStep
  <2>2. CASE Ask \/ Sweep \/ TimePasses \/ \E r \in Request : Serve(r)
    BY <2>2, RestKept, KeptStep
  <2>3. CASE \E w \in Worker : Work(w)
    BY <2>3, WorkStored
  <2>. QED BY <2>1, <2>2, <2>3 DEF Next
<1>3. StoredInv => CompletedIsStored
  BY DEF StoredInv
<1>. QED BY <1>1, <1>2, <1>3, PTL DEF Spec
=============================================================================
