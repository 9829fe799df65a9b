--------------------------- MODULE UploadSessions ---------------------------
(***************************************************************************)
(* Uploads that go straight to object storage: a session lists the files   *)
(* a client may PUT; one completion request per file verifies its staged   *)
(* object, seals a copy of it and queues a job; workers that hold a        *)
(* database lease turn the sealed object into a document, a new version    *)
(* or the new content of a version; a sweep expires sessions, fails jobs   *)
(* that ran out of attempts and deletes objects nobody needs.              *)
(*                                                                         *)
(* Time is only what makes a deadline pass: a session comes due, a         *)
(* verification claim ages, a lease lapses.  A lease lapses while its      *)
(* holder is inside processUploadFile, whose downloads and conversions may *)
(* outlast it, or when nobody works on the job any more, never between a   *)
(* heartbeat and the writes that follow it at once.  An object is its kind *)
(* and the file it belongs to; its bytes are not modelled.                 *)
(***************************************************************************)
EXTENDS Integers, FiniteSets

CONSTANTS
  Session, File,
  Old,              \* a document from before, its version, and their object
  Request,          \* HTTP requests to come, each served once
  Worker,           \* claim loops
  Null,             \* no file, no session, no worker, no request
  MaxAttempts,      \* UPLOAD_JOB_MAX_ATTEMPTS
  MaxRunning,       \* jobs of the user that may run at a time
  Purposes,         \* what a client uploads for
  MayCancel,        \* the client may give a session up
  CrashPoints       \* where a worker may die or lose the database

ASSUME UploadAssumption ==
  /\ Old \notin File /\ Null \notin Session \cup File \cup {Old} \cup Worker \cup Request
  /\ MaxAttempts \in Nat \ {0} /\ MaxRunning \in Nat \ {0}
  /\ Purposes \subseteq {"document_create", "document_version_create", "document_version_replace"}
  /\ MayCancel \in BOOLEAN

VARIABLES
  sessions,   \* upload_sessions: purpose, status, cleaned_at, overdue or not
  files,      \* upload_session_files: session, status, kind of error, age of a claim
  jobs,       \* upload_processing_jobs, one per file
  objects,    \* what object storage holds
  docs,       \* documents: status and current_version_id
  versions,   \* document_versions: whose object each row points at, if there
  client,     \* how far the browser is with each file
  requests,   \* completion and cancellation requests being served
  workers,    \* what each worker is doing
  sweep       \* what the cleanup is doing

server == <<sessions, files, jobs, objects>>
library == <<docs, versions>>
vars == <<server, library, client, requests, workers, sweep>>

Live == {"pending_upload", "processing"}
Swept == {"cancelled", "expired", "error"}
InHand == {"uploaded", "processing", "completed"}

Idle == [pc |-> "idle", f |-> Null, attempt |-> 0, saw |-> Null]
Resting == [pc |-> "idle", on |-> Null, wipe |-> {}]

Init ==
  /\ sessions = [s \in Session |-> [status |-> "none", purpose |-> "none",
                                    cleaned |-> FALSE, due |-> FALSE]]
  /\ files = [f \in File |-> [session |-> Null, status |-> "none", error |-> "none", aged |-> FALSE]]
  /\ jobs = [f \in File |-> [status |-> "none", attempts |-> 0, by |-> Null, lapsed |-> FALSE]]
  /\ objects = {<<"source", Old>>}
  /\ docs = [d \in File \cup {Old} |-> IF d = Old THEN [status |-> "ready", current |-> Old]
                                       ELSE [status |-> "absent", current |-> Null]]
  /\ versions = [v \in File \cup {Old} |-> IF v = Old THEN Old ELSE Null]
  /\ client = [f \in File |-> "away"]
  /\ requests = [r \in Request |-> [pc |-> "idle", on |-> Null]]
  /\ workers = [w \in Worker |-> Idle]
  /\ sweep = Resting

FilesOf(s) == {f \in File : files[f].session = s}
PurposeOf(f) == sessions[files[f].session].purpose
DocOf(f) == IF PurposeOf(f) = "document_create" THEN f ELSE Old
VersionOf(f) == IF PurposeOf(f) = "document_version_replace" THEN Old ELSE f

\* refresh_upload_session_status, over the files as they are now.
Refreshed(table, s) ==
  LET statuses == {table[f].status : f \in {g \in File : table[g].session = s}}
      next == CASE statuses \cap {"pending_upload", "verifying"} # {} -> "pending_upload"
                [] statuses \cap {"pending_upload", "verifying"} = {}
                   /\ statuses \cap {"uploaded", "processing"} # {} -> "processing"
                [] statuses \cap {"pending_upload", "verifying", "uploaded", "processing"} = {}
                   /\ "completed" \in statuses -> "completed"
                [] OTHER -> "error"
  IN IF sessions[s].status \in {"cancelled", "expired"} THEN sessions
     ELSE [sessions EXCEPT ![s].status = next,
                           ![s].cleaned = @ \/ next = "completed"]

-----------------------------------------------------------------------------
(* The browser: uploadSessionClient.ts.                                    *)

\* POST /upload-sessions.  create_upload_session expires overdue sessions
\* first; two sessions may not update the same target at a time.
Create(s, p, fs) ==
  LET swept == [t \in Session |-> IF sessions[t].status = "pending_upload" /\ sessions[t].due
                                  THEN [sessions[t] EXCEPT !.status = "expired"]
                                  ELSE sessions[t]]
  IN /\ sessions[s].status = "none"
     /\ fs # {} /\ \A f \in fs : files[f].status = "none"
     /\ p # "document_create" =>
          /\ Cardinality(fs) = 1
          /\ ~\E t \in Session : swept[t].purpose = p /\ swept[t].status \in Live
     /\ sessions' = [swept EXCEPT ![s] = [status |-> "pending_upload", purpose |-> p,
                                          cleaned |-> FALSE, due |-> FALSE]]
     /\ files' = [f \in File |-> IF f \in fs
                                 THEN [session |-> s, status |-> "pending_upload",
                                       error |-> "none", aged |-> FALSE]
                                 ELSE files[f]]
     /\ client' = [f \in File |-> IF f \in fs THEN "sending" ELSE client[f]]
     /\ UNCHANGED <<jobs, objects, library, requests, workers, sweep>>

\* A PUT to the signed URL lands.  The browser learns of it and turns to the
\* completion endpoint, or times out and tries again; a browser that gave the
\* file up may still have a PUT on its way.
Put(f, kind) ==
  /\ client[f] # "away"
  /\ ~sessions[files[f].session].due
  /\ ~\E k \in {"staged", "misfit"} : <<k, f>> \in objects
  /\ files[f].status = "pending_upload"
  /\ objects' = objects \cup {<<kind, f>>}
  /\ \/ client' = [client EXCEPT ![f] = IF @ = "sending" THEN "confirming" ELSE @]
     \/ UNCHANGED client
  /\ UNCHANGED <<sessions, files, jobs, library, requests, workers, sweep>>

Goes(r, pc) ==
  requests' = [requests EXCEPT ![r] = [pc |-> pc, on |-> IF pc = "over" THEN Null ELSE @.on]]
Begins(r, pc, on) == /\ requests[r].pc = "idle"
                     /\ requests' = [requests EXCEPT ![r] = [pc |-> pc, on |-> on]]
Writes(f, status, error) ==
  files' = [files EXCEPT ![f] = [session |-> @.session, status |-> status,
                                 error |-> error, aged |-> FALSE]]

\* What a completion request goes on with: only a session that is not over
\* is served, and one found overdue is expired instead.
Admits(s) == sessions[s].status \notin {"cancelled", "expired"}
Overdue(s) == sessions[s].status = "pending_upload" /\ sessions[s].due
Expired(s) == [sessions EXCEPT ![s].status = "expired"]

\* POST .../complete after a PUT that was answered, or again after an answer
\* that was lost.
Confirm(r, f) ==
  LET s == files[f].session IN
  /\ client[f] = "confirming" /\ Admits(s)
  /\ IF Overdue(s)
     THEN sessions' = Expired(s) /\ Begins(r, "over", Null)
     ELSE /\ UNCHANGED sessions
          /\ Begins(r, CASE files[f].status = "uploaded" -> "queue"
                         [] files[f].status = "verifying" -> "recover"
                         [] files[f].status = "pending_upload" -> "claim"
                         [] OTHER -> "refresh", f)
  /\ UNCHANGED <<files, jobs, objects, library, client, workers, sweep>>

\* POST .../complete with failed: none of the PUTs was answered.
Report(r, f) ==
  LET s == files[f].session IN
  /\ client[f] \in {"sending", "reporting"} /\ Admits(s)
  /\ client' = [client EXCEPT ![f] = "reporting"]
  /\ IF Overdue(s)
     THEN sessions' = Expired(s) /\ Begins(r, "over", Null)
     ELSE /\ UNCHANGED sessions
          /\ Begins(r, CASE files[f].status = "verifying" -> "recover failed"
                         [] files[f].status = "pending_upload" -> "discard"
                         [] OTHER -> "refresh", f)
  /\ UNCHANGED <<files, jobs, objects, library, workers, sweep>>

\* The client gives up: DELETE of a pending session none of whose files is in
\* hand.  Requests it made earlier may still be served.
Cancel(r, s) ==
  /\ MayCancel /\ sessions[s].status = "pending_upload"
  /\ \A f \in FilesOf(s) : files[f].status \notin InHand
  /\ client' = [f \in File |-> IF f \in FilesOf(s) THEN "away" ELSE client[f]]
  /\ Begins(r, "cancel", s)
  /\ UNCHANGED <<server, library, workers, sweep>>

\* POST .../urls: signing anew takes back the claims of dead verifiers.
RefreshUrls(s) ==
  /\ sessions[s].status = "pending_upload"
  /\ IF sessions[s].due
     THEN sessions' = Expired(s) /\ UNCHANGED files
     ELSE /\ UNCHANGED sessions
          /\ files' = [f \in File |->
               IF f \in FilesOf(s) /\ files[f].status = "verifying" /\ files[f].aged
               THEN [files[f] EXCEPT !.status = "pending_upload", !.error = "none", !.aged = FALSE]
               ELSE files[f]]
  /\ UNCHANGED <<jobs, objects, library, client, requests, workers, sweep>>

-----------------------------------------------------------------------------
(* A request being served: completeSessionFile and the DELETE handler.     *)

\* A claim older than UPLOAD_VERIFICATION_LEASE_SECONDS is taken back; a
\* fresh one means that another request is at work.
Recover(r, f) ==
  /\ requests[r].pc \in {"recover", "recover failed"}
  /\ IF files[f].status = "verifying" /\ files[f].aged
     THEN /\ Writes(f, "pending_upload", files[f].error)
          /\ Goes(r, IF requests[r].pc = "recover" THEN "claim" ELSE "discard")
     ELSE UNCHANGED files /\ Goes(r, "over")
  /\ UNCHANGED <<sessions, jobs, objects>>

Claim(r, f) ==
  /\ requests[r].pc = "claim"
  /\ IF files[f].status = "pending_upload"
     THEN /\ Writes(f, "verifying", files[f].error)
          /\ Goes(r, "verify")
     ELSE UNCHANGED files /\ Goes(r, "over")
  /\ UNCHANGED <<sessions, jobs, objects>>

\* verifyAndSealSessionFiles looks at the sealed object, then the staged one.
Verify(r, f) ==
  /\ requests[r].pc = "verify"
  /\ \/ <<"sealed", f>> \in objects /\ Goes(r, "seal") /\ UNCHANGED objects
     \/ /\ <<"sealed", f>> \notin objects
        /\ \/ <<"staged", f>> \in objects /\ Goes(r, "copy") /\ UNCHANGED objects
           \/ <<"misfit", f>> \in objects /\ Goes(r, "reject") /\ objects' = objects \ {<<"misfit", f>>}
           \/ /\ {<<"staged", f>>, <<"misfit", f>>} \cap objects = {}
              /\ Goes(r, "put back") /\ UNCHANGED objects
  /\ UNCHANGED <<sessions, files, jobs>>

\* A staged object that is gone by now fails the copy and with it the request.
Copy(r, f) ==
  /\ requests[r].pc = "copy"
  /\ IF <<"staged", f>> \in objects
     THEN /\ objects' = (objects \cup {<<"sealed", f>>}) \ {<<"staged", f>>}
          /\ Goes(r, "seal")
     ELSE UNCHANGED objects /\ Goes(r, "over")
  /\ UNCHANGED <<sessions, files, jobs>>

\* writeSealResult: only while some claim is on the file.
WriteSealResult(r, f) ==
  /\ requests[r].pc \in {"seal", "reject", "put back"}
  /\ IF files[f].status = "verifying"
     THEN CASE requests[r].pc = "seal" -> Writes(f, "uploaded", "none") /\ Goes(r, "queue")
            [] requests[r].pc = "reject" -> Writes(f, "error", "terminal") /\ Goes(r, "refresh")
            [] OTHER -> Writes(f, "pending_upload", files[f].error) /\ Goes(r, "refresh")
     ELSE UNCHANGED files /\ Goes(r, "refresh")
  /\ UNCHANGED <<sessions, jobs, objects>>

\* queue_upload_session_file_processing raises, and the request ends, when
\* the session is over or the file is not ready; one job per file.
QueueFileProcessing(r, f) ==
  /\ requests[r].pc = "queue"
  /\ IF Admits(files[f].session) /\ files[f].status \in InHand
     THEN /\ jobs' = [jobs EXCEPT ![f].status = IF @ = "none" THEN "queued" ELSE @]
          /\ Goes(r, "extend")
     ELSE UNCHANGED jobs /\ Goes(r, "over")
  /\ UNCHANGED <<sessions, files, objects>>

\* extend_upload_session_expiry, which may fail or be capped, then refresh.
ExtendAndRefresh(r, f) ==
  LET s == files[f].session IN
  /\ requests[r].pc \in {"extend", "refresh"}
  /\ \E extended \in BOOLEAN :
       /\ extended => requests[r].pc = "extend" /\ sessions[s].status \in Live
       /\ sessions' = [Refreshed(files, s) EXCEPT ![s].due = @ /\ ~extended]
  /\ Goes(r, "over")
  /\ UNCHANGED <<files, jobs, objects>>

\* The failed transfer's objects go first, then the file fails.
Discard(r, f) ==
  /\ requests[r].pc = "discard"
  /\ objects' = objects \ {<<"staged", f>>, <<"misfit", f>>, <<"sealed", f>>}
  /\ Goes(r, "fail")
  /\ UNCHANGED <<sessions, files, jobs>>

FailTransfer(r, f) ==
  /\ requests[r].pc = "fail"
  /\ IF files[f].status \in {"pending_upload", "verifying"}
     THEN Writes(f, "error", "terminal")
     ELSE UNCHANGED files
  /\ Goes(r, "refresh")
  /\ UNCHANGED <<sessions, jobs, objects>>

\* The cancellation counts if the session is still pending; then its objects
\* are deleted and it is marked clean.
CancelSession(r, s) ==
  /\ requests[r].pc = "cancel"
  /\ IF sessions[s].status = "pending_upload"
     THEN sessions' = [sessions EXCEPT ![s].status = "cancelled"] /\ Goes(r, "wipe")
     ELSE UNCHANGED sessions /\ Goes(r, "over")
  /\ UNCHANGED <<files, jobs, objects>>

WipeSession(r, s) ==
  /\ requests[r].pc = "wipe"
  /\ objects' = objects \ ({"staged", "misfit", "sealed"} \X FilesOf(s))
  /\ sessions' = [sessions EXCEPT ![s].cleaned = TRUE]
  /\ Goes(r, "over")
  /\ UNCHANGED <<files, jobs>>

\* A storage or database call fails, or the server goes down.
RequestDies(r) ==
  /\ "request" \in CrashPoints
  /\ requests[r].pc \notin {"idle", "over"}
  /\ Goes(r, "over")
  /\ UNCHANGED server

Serve(r) ==
  /\ LET on == requests[r].on IN
     \/ /\ on \in File
        /\ \/ Recover(r, on) \/ Claim(r, on) \/ Verify(r, on) \/ Copy(r, on)
           \/ WriteSealResult(r, on) \/ QueueFileProcessing(r, on)
           \/ ExtendAndRefresh(r, on) \/ Discard(r, on) \/ FailTransfer(r, on)
     \/ on \in Session /\ (CancelSession(r, on) \/ WipeSession(r, on))
     \/ RequestDies(r)
  /\ UNCHANGED <<library, client, workers, sweep>>

-----------------------------------------------------------------------------
(* A worker: claim_upload_processing_job, processUploadJob and             *)
(* processUploadFile.                                                      *)

Steps(w, pc) == workers' = [workers EXCEPT ![w].pc = pc]
Rests(w) == workers' = [workers EXCEPT ![w] = Idle]
Owns(w, f) == jobs[f].status = "running" /\ jobs[f].by = w

\* Mutants: a lapsed lease is never taken over; attempts are not counted out.
ClaimJobWaitingOnly(w, f) ==
  /\ workers[w].pc = "idle" /\ jobs[f].attempts < MaxAttempts /\ jobs[f].status = "queued"
  /\ files' = [files EXCEPT ![f].status = "processing", ![f].error = "none"]
  /\ jobs' = [jobs EXCEPT ![f] = [status |-> "running", attempts |-> jobs[f].attempts + 1,
                                  by |-> w, lapsed |-> FALSE]]
  /\ workers' = [workers EXCEPT ![w] = [pc |-> "begin", f |-> f, saw |-> Null,
                                        attempt |-> jobs[f].attempts + 1]]
  /\ UNCHANGED <<sessions, objects, library>>

ClaimJobForever(w, f) ==
  /\ workers[w].pc = "idle" /\ jobs[f].status \in {"queued", "running"}
  /\ jobs[f].status = "running" => jobs[f].lapsed
  /\ jobs' = [jobs EXCEPT ![f] = [status |-> "running", attempts |-> jobs[f].attempts + 1,
                                  by |-> w, lapsed |-> FALSE]]
  /\ workers' = [workers EXCEPT ![w] = [pc |-> "begin", f |-> f, saw |-> Null,
                                        attempt |-> jobs[f].attempts + 1]]
  /\ UNCHANGED <<sessions, files, objects, library>>

\* A job that waits, or whose lease has lapsed; the user's running jobs are
\* capped over all replicas.
ClaimJob(w, f) ==
  /\ workers[w].pc = "idle"
  /\ jobs[f].attempts < MaxAttempts
  /\ \/ jobs[f].status = "queued"
     \/ jobs[f].status = "running" /\ jobs[f].lapsed
  /\ Cardinality({g \in File : jobs[g].status = "running" /\ ~jobs[g].lapsed}) < MaxRunning
  /\ LET table == IF files[f].status = "uploaded" \/ files[f].error = "processing_failed"
                  THEN [files EXCEPT ![f].status = "processing", ![f].error = "none"]
                  ELSE files
     IN files' = table /\ sessions' = Refreshed(table, files[f].session)
  /\ jobs' = [jobs EXCEPT ![f] = [status |-> "running", attempts |-> @.attempts + 1,
                                  by |-> w, lapsed |-> FALSE]]
  /\ workers' = [workers EXCEPT ![w] = [pc |-> "begin", f |-> f, saw |-> Null,
                                        attempt |-> jobs[f].attempts + 1]]
  /\ UNCHANGED <<objects, library>>

\* heartbeatJob: the lease is renewed, or found lost and the iteration ends.
Heartbeat(w, f) == jobs' = [jobs EXCEPT ![f].lapsed = FALSE]

\* Only a file that is not settled yet is processed.
Begin(w, f) ==
  /\ workers[w].pc = "begin"
  /\ IF files[f].status = "completed" \/ files[f].error = "terminal"
     THEN /\ Steps(w, IF files[f].status = "completed" THEN "finish" ELSE "purge")
          /\ UNCHANGED <<files, jobs>>
     ELSE IF Owns(w, f)
     THEN Heartbeat(w, f) /\ Writes(f, "processing", "none") /\ Steps(w, "download")
     ELSE Rests(w) /\ UNCHANGED <<files, jobs>>
  /\ UNCHANGED <<sessions, objects, library>>

\* requireSealedFile; a replacement also reads whose content it replaces.
Download(w, f) ==
  /\ workers[w].pc = "download"
  /\ workers' = [workers EXCEPT
       ![w].pc = IF <<"sealed", f>> \notin objects THEN "failed"
                 ELSE IF PurposeOf(f) = "document_create" THEN "upsert" ELSE "copy",
       ![w].saw = IF PurposeOf(f) = "document_version_replace" THEN versions[Old] ELSE Null]
  /\ UNCHANGED <<server, library>>

\* processCreatedDocument inserts the document, or takes the one a former
\* attempt left.
UpsertDocument(w, f) ==
  /\ workers[w].pc = "upsert"
  /\ docs' = [docs EXCEPT ![DocOf(f)].status = "processing"]
  /\ Steps(w, "copy")
  /\ UNCHANGED <<server, versions>>

CopySource(w, f) ==
  /\ workers[w].pc = "copy"
  /\ IF <<"sealed", f>> \in objects
     THEN objects' = objects \cup {<<"source", f>>} /\ Steps(w, "version")
     ELSE UNCHANGED objects /\ Steps(w, "failed")
  /\ UNCHANGED <<sessions, files, jobs, library>>

\* The version row: upserted, inserted unless there, or pointed at the new
\* object, after which the object it pointed at is deleted.
WriteVersion(w, f) ==
  /\ workers[w].pc = "version"
  /\ IF PurposeOf(f) = "document_create" /\ docs[f].status = "absent"
     THEN UNCHANGED <<versions, objects>> /\ Steps(w, "failed")
     ELSE /\ versions' = [versions EXCEPT ![VersionOf(f)] = f]
          /\ objects' = objects \ ({<<"source", workers[w].saw>>} \ {<<"source", f>>})
          /\ Steps(w, IF PurposeOf(f) = "document_version_replace" THEN "settle" ELSE "publish")
  /\ UNCHANGED <<sessions, files, jobs, docs>>

Publish(w, f) ==
  /\ workers[w].pc = "publish"
  /\ IF docs[DocOf(f)].status = "absent"
     THEN UNCHANGED docs /\ Steps(w, "failed")
     ELSE /\ docs' = [docs EXCEPT ![DocOf(f)] = [status |-> "ready", current |-> VersionOf(f)]]
          /\ Steps(w, "settle")
  /\ UNCHANGED <<server, versions>>

\* processUploadFile throws: storage or the database refused a call.
ProcessingFails(w) ==
  /\ "processing" \in CrashPoints
  /\ workers[w].pc \in {"download", "upsert", "copy", "version", "publish"}
  /\ Steps(w, "failed")
  /\ UNCHANGED <<server, library>>

\* Mutant: a result counts whoever holds the job by now.
SettleUnfenced(w, f) ==
  /\ workers[w].pc = "settle"
  /\ Writes(f, "completed", "none") /\ Steps(w, "drop")
  /\ UNCHANGED <<sessions, jobs, objects, library>>

\* Ownership is proved again before the result counts.
Settle(w, f) ==
  /\ workers[w].pc = "settle"
  /\ IF Owns(w, f)
     THEN Heartbeat(w, f) /\ Writes(f, "completed", "none") /\ Steps(w, "drop")
     ELSE Rests(w) /\ UNCHANGED <<files, jobs>>
  /\ UNCHANGED <<sessions, objects, library>>

DropSealed(w, f) ==
  /\ workers[w].pc = "drop"
  /\ objects' = objects \ {<<"sealed", f>>}
  /\ Steps(w, "finish")
  /\ UNCHANGED <<sessions, files, jobs, library>>

\* Mutant: and so does a failure.
FailFileUnfenced(w, f) ==
  /\ workers[w].pc = "failed"
  /\ Writes(f, "error", "processing_failed")
  /\ Steps(w, IF workers[w].attempt < MaxAttempts THEN "requeue" ELSE "give up")
  /\ UNCHANGED <<sessions, jobs, objects, library>>

\* And before a failure counts; a document in the making fails with its file.
FailFile(w, f) ==
  /\ workers[w].pc = "failed"
  /\ IF Owns(w, f)
     THEN /\ Heartbeat(w, f) /\ Writes(f, "error", "processing_failed")
          /\ docs' = [docs EXCEPT ![DocOf(f)].status =
               IF PurposeOf(f) = "document_create" /\ @ = "processing" THEN "error" ELSE @]
          /\ Steps(w, IF workers[w].attempt < MaxAttempts THEN "requeue" ELSE "give up")
     ELSE Rests(w) /\ UNCHANGED <<files, jobs, docs>>
  /\ UNCHANGED <<sessions, objects, versions>>

Requeue(w, f) ==
  /\ workers[w].pc = "requeue"
  /\ IF jobs[f].by = w
     THEN /\ jobs' = [jobs EXCEPT ![f].status = "queued", ![f].by = Null, ![f].lapsed = FALSE]
          /\ Steps(w, "reset")
     ELSE UNCHANGED jobs /\ Rests(w)
  /\ UNCHANGED <<sessions, files, objects, library>>

\* The file waits for its next attempt; the session follows.
ResetFile(w, f) ==
  /\ workers[w].pc = "reset"
  /\ LET table == IF files[f].status = "error" /\ files[f].error = "processing_failed"
                  THEN [files EXCEPT ![f].status = "uploaded", ![f].error = "none"]
                  ELSE files
     IN files' = table /\ sessions' = Refreshed(table, files[f].session)
  /\ Rests(w)
  /\ UNCHANGED <<jobs, objects, library>>

\* removeFailedCreatedDocument: its object in any case, its row only if it
\* failed before it showed anything.
GiveUp(w, f) ==
  /\ workers[w].pc = "give up"
  /\ IF PurposeOf(f) = "document_create"
     THEN LET gone == docs[f].status = "error" /\ docs[f].current = Null IN
          /\ objects' = objects \ {<<"source", f>>}
          /\ docs' = [docs EXCEPT ![f].status = IF gone THEN "absent" ELSE @]
          /\ versions' = [versions EXCEPT ![f] = IF gone THEN Null ELSE @]
     ELSE UNCHANGED <<objects, library>>
  /\ Steps(w, "purge")
  /\ UNCHANGED <<sessions, files, jobs>>

\* The sealed objects of all failed files of the session go.
PurgeFailed(w, f) ==
  /\ workers[w].pc = "purge"
  /\ objects' = objects \ {<<"sealed", g>> : g \in
                   {h \in FilesOf(files[f].session) : files[h].status = "error"}}
  /\ Steps(w, "finish")
  /\ UNCHANGED <<sessions, files, jobs, library>>

Finish(w, f) ==
  /\ workers[w].pc = "finish"
  /\ IF jobs[f].by = w
     THEN /\ jobs' = [jobs EXCEPT ![f].status = "completed", ![f].by = Null, ![f].lapsed = FALSE]
          /\ Steps(w, "refresh")
     ELSE UNCHANGED jobs /\ Rests(w)
  /\ UNCHANGED <<sessions, files, objects, library>>

RefreshSession(w, f) ==
  /\ workers[w].pc = "refresh"
  /\ sessions' = Refreshed(files, files[f].session)
  /\ Rests(w)
  /\ UNCHANGED <<files, jobs, objects, library>>

\* The process dies or a query fails: the job stays locked until its lease
\* lapses.  The loop that comes back is, to the job, like the one that was.
WorkerDies(w) ==
  /\ workers[w].pc \in CrashPoints
  /\ Rests(w)
  /\ UNCHANGED <<server, library>>

Work(w) ==
  /\ \/ \E f \in File : ClaimJob(w, f)
     \/ LET f == workers[w].f IN
        /\ f \in File
        /\ \/ Begin(w, f) \/ Download(w, f) \/ UpsertDocument(w, f) \/ CopySource(w, f)
           \/ WriteVersion(w, f) \/ Publish(w, f) \/ Settle(w, f) \/ DropSealed(w, f)
           \/ FailFile(w, f) \/ Requeue(w, f) \/ ResetFile(w, f) \/ GiveUp(w, f)
           \/ PurgeFailed(w, f) \/ Finish(w, f) \/ RefreshSession(w, f)
     \/ ProcessingFails(w) \/ WorkerDies(w)
  /\ UNCHANGED <<client, requests, sweep>>

-----------------------------------------------------------------------------
(* cleanupUploadSessions and the passing of time.                          *)

ExpireOverdue ==
  /\ \E s \in Session : Overdue(s)
  /\ sessions' = [s \in Session |-> IF Overdue(s) THEN [sessions[s] EXCEPT !.status = "expired"]
                                    ELSE sessions[s]]
  /\ UNCHANGED <<files, jobs, objects, sweep>>

Exhausted(f) == jobs[f].status = "running" /\ jobs[f].attempts >= MaxAttempts /\ jobs[f].lapsed

FindExhaustedJob(f) ==
  /\ sweep.pc = "idle" /\ Exhausted(f)
  /\ sweep' = [pc |-> "fail job", on |-> f, wipe |-> {}]
  /\ UNCHANGED server

\* The job may have been renewed or even finished since it was found.
FailExhaustedJob ==
  /\ sweep.pc = "fail job"
  /\ LET f == sweep.on IN
     jobs' = IF jobs[f].status = "running"
             THEN [jobs EXCEPT ![f].status = "error", ![f].by = Null, ![f].lapsed = FALSE]
             ELSE jobs
  /\ sweep' = [sweep EXCEPT !.pc = "fail file"]
  /\ UNCHANGED <<sessions, files, objects>>

FailExhaustedFile ==
  /\ sweep.pc = "fail file"
  /\ LET f == sweep.on
         table == IF files[f].status = "processing"
                  THEN [files EXCEPT ![f].status = "error", ![f].error = "processing_failed"]
                  ELSE files
     IN files' = table /\ sessions' = Refreshed(table, files[f].session)
  /\ sweep' = Resting
  /\ UNCHANGED <<jobs, objects>>

\* The files of a session that is over and not clean, as the sweep reads them.
ReadOverSession(s) ==
  /\ sweep.pc = "idle"
  /\ sessions[s].status \in Swept /\ ~sessions[s].cleaned
  /\ sweep' = [pc |-> "wipe", on |-> s,
               wipe |-> {f \in FilesOf(s) : files[f].status \notin InHand}]
  /\ UNCHANGED server

WipeOverSession ==
  /\ sweep.pc = "wipe"
  /\ objects' = objects \ ({"staged", "misfit", "sealed"} \X sweep.wipe)
  /\ sessions' = [sessions EXCEPT ![sweep.on].cleaned = TRUE]
  /\ sweep' = Resting
  /\ UNCHANGED <<files, jobs>>

SweepDies ==
  /\ "sweep" \in CrashPoints /\ sweep.pc # "idle"
  /\ sweep' = Resting
  /\ UNCHANGED server

Sweep ==
  /\ \/ ExpireOverdue \/ FailExhaustedJob \/ FailExhaustedFile \/ WipeOverSession \/ SweepDies
     \/ \E f \in File : FindExhaustedJob(f)
     \/ \E s \in Session : ReadOverSession(s)
  /\ UNCHANGED <<library, client, requests, workers>>

\* expires_at passes.
ComesDue(s) ==
  /\ sessions[s].status \in Live /\ ~sessions[s].due
  /\ sessions' = [sessions EXCEPT ![s].due = TRUE]
  /\ UNCHANGED <<files, jobs, objects>>

\* Five minutes pass since the claim.
ClaimAges(f) ==
  /\ files[f].status = "verifying" /\ ~files[f].aged
  /\ files' = [files EXCEPT ![f].aged = TRUE]
  /\ UNCHANGED <<sessions, jobs, objects>>

\* The lease runs out under a holder that is lost in its work, or has none.
Outlasting == {"download", "upsert", "copy", "version", "publish", "settle", "failed"}
LeaseLapses(f) ==
  /\ jobs[f].status = "running" /\ ~jobs[f].lapsed
  /\ \A w \in Worker : workers[w].f = f /\ jobs[f].by = w => workers[w].pc \in Outlasting
  /\ jobs' = [jobs EXCEPT ![f].lapsed = TRUE]
  /\ UNCHANGED <<sessions, files, objects>>

TimePasses ==
  /\ \/ \E s \in Session : ComesDue(s)
     \/ \E f \in File : ClaimAges(f) \/ LeaseLapses(f)
  /\ UNCHANGED <<library, client, requests, workers, sweep>>

-----------------------------------------------------------------------------
Ask ==
  \/ \E s \in Session, p \in Purposes, fs \in SUBSET File : Create(s, p, fs)
  \/ \E f \in File, kind \in {"staged", "misfit"} : Put(f, kind)
  \/ \E r \in Request, f \in File : Confirm(r, f) \/ Report(r, f)
  \/ \E r \in Request, s \in Session : Cancel(r, s)
  \/ \E s \in Session : RefreshUrls(s)

Next ==
  \/ Ask \/ Sweep \/ TimePasses
  \/ \E r \in Request : Serve(r)
  \/ \E w \in Worker : Work(w)

Spec == Init /\ [][Next]_vars

\* Claim loops poll and workers go on with what they hold, requests are served,
\* deadlines pass; the cleanup starts every minute with the exhausted jobs, so
\* it gets to them even if it often dies later on.
Fairness ==
  /\ \A w \in Worker : WF_vars(Work(w))
  /\ \A r \in Request : WF_vars(Serve(r))
  /\ WF_vars(TimePasses) /\ WF_vars(Sweep)
  /\ SF_vars(Sweep /\ sweep'.pc = "fail job") /\ SF_vars(Sweep /\ sweep'.pc = "fail file")

FairSpec == Spec /\ Fairness

-----------------------------------------------------------------------------
(* Correctness *)

RequestPc == {"idle", "recover", "recover failed", "claim", "verify", "copy", "seal",
              "reject", "put back", "queue", "extend", "refresh", "discard", "fail",
              "cancel", "wipe", "over"}
WorkerPc == {"idle", "begin", "download", "upsert", "copy", "version", "publish", "settle",
             "drop", "failed", "requeue", "reset", "give up", "purge", "finish", "refresh"}

\* The types of the tables, and that no job is claimed more often than
\* UPLOAD_JOB_MAX_ATTEMPTS (the attempts check of claim_upload_processing_job).
TypeOK ==
  /\ sessions \in [Session -> [status : {"none", "completed"} \cup Live \cup Swept,
                               purpose : {"none"} \cup Purposes,
                               cleaned : BOOLEAN, due : BOOLEAN]]
  /\ files \in [File -> [session : Session \cup {Null},
                         status : {"none", "pending_upload", "verifying", "error"} \cup InHand,
                         error : {"none", "terminal", "processing_failed"}, aged : BOOLEAN]]
  /\ jobs \in [File -> [status : {"none", "queued", "running", "completed", "error"},
                        attempts : 0..MaxAttempts, by : Worker \cup {Null}, lapsed : BOOLEAN]]
  /\ objects \subseteq {"staged", "misfit", "sealed", "source"} \X (File \cup {Old})
  /\ docs \in [File \cup {Old} -> [status : {"absent", "processing", "ready", "error"},
                                   current : File \cup {Old, Null}]]
  /\ versions \in [File \cup {Old} -> File \cup {Old, Null}]
  /\ client \in [File -> {"away", "sending", "confirming", "reporting"}]
  /\ requests \in [Request -> [pc : RequestPc, on : Session \cup File \cup {Null}]]
  /\ workers \in [Worker -> [pc : WorkerPc, f : File \cup {Null}, attempt : 0..MaxAttempts,
                             saw : File \cup {Old, Null}]]
  /\ sweep \in [pc : {"idle", "fail job", "fail file", "wipe"}, on : Session \cup File \cup {Null},
                wipe : SUBSET File]

\* A file that was reported completed stays so, whatever zombies, retries,
\* late completion requests and the sweep still do (processUploadJob proves
\* its lease before each result it records).
CompletedStays ==
  [][\A f \in File : files[f].status = "completed" => files'[f].status = "completed"]_vars

\* The version row that a completed file wrote as its own is there and so is
\* the object it points at, although workers that lost the lease go on
\* copying, writing rows and cleaning up after their failures.
CompletedIsStored ==
  \A f \in File : files[f].status = "completed" /\ VersionOf(f) = f =>
    versions[f] = f /\ <<"source", f>> \in objects

\* Every queued file is settled, however often workers die or get stuck: a
\* lapsed lease is taken over, and the sweep fails a job whose attempts are
\* spent.
JobsSettle ==
  \A f \in File : jobs[f].status \in {"queued", "running"}
                    ~> jobs[f].status \in {"completed", "error"}
=============================================================================
