--------------------------- MODULE AccountErasure ---------------------------
(***************************************************************************)
(* The erasure of one account, the leaver's: the account.delete job, what  *)
(* it removes from the tables and from storage and in which order, and     *)
(* what goes on meanwhile: exports being built and uploads being processed *)
(* by workers, which no revoked session stops, and an organisation whose   *)
(* other people come, go and change roles.                                 *)
(*                                                                         *)
(* The job's queue is the DbJobs one, reduced to its promise: a bounded    *)
(* number of attempts, executions that outlive their claim, and the fenced *)
(* report of the latest one.  There is one organisation and one personal   *)
(* project.  Chats, reviews, workflows, grants, audit rows and memory are  *)
(* deleted by owner in single statements and left out.                     *)
(***************************************************************************)
EXTENDS Integers, FiniteSets

CONSTANTS
  Doc,            \* documents
  Place,          \* Place[d]: "own", the leaver's; "guest", uploaded by a colleague into
                  \*   the leaver's personal project; "org", the leaver's in a project of
                  \*   the organisation
  Late,           \* documents whose upload is still to be processed
  Export,         \* exports the leaver asks for
  Leaver,
  Member,         \* other people of the organisation
  Nobody,
  Runner,         \* processes that execute the job
  Holdings,       \* what the organisation may hold: "nothing"; "documents", owned by nobody;
                  \*   "projects", a project or workflow that people own, with what is in it
  MaxAttempts,    \* attempts of account.delete
  WorkTries,      \* attempts of an upload's or an export's job
  MaxEvents       \* bound: failing calls, deaths, executions taken for dead, and changes
                  \*   in the organisation by its other people

Person == Member \cup {Leaver}

ASSUME ErasureAssumption ==
  /\ Place \in [Doc -> {"own", "guest", "org"}]
  /\ Late \subseteq Doc
  /\ Leaver \notin Member /\ Nobody \notin Person
  /\ Holdings \subseteq {"nothing", "documents", "projects"}
  /\ MaxAttempts \in Nat \ {0} /\ WorkTries \in Nat \ {0}
  /\ MaxEvents \in Nat

VARIABLES
  account,    \* the leaver's auth.users row, and whether its sessions still work
  job,        \* the account.delete row
  runs,       \* executions of handleAccountDelete
  docs,       \* documents and their version rows
  project,    \* whether the personal project is there
  objects,    \* objects in storage
  cleanup,    \* objects named by storage.cleanup rows
  uploads,    \* the processing of each late document
  exports,    \* export.build rows
  builds,     \* the execution of each export
  role,       \* org_members, and invitations
  org,        \* what the organisation holds, or "gone"
  creator,    \* the user_id of the organisation's project
  owners,     \* the members to whom an override gives the project
  spent,      \* events so far, and whether one of them was a fault
  missed,     \* history: objects whose deletion failed
  finished    \* history: exports that were over when the deletion was asked for

vars == <<account, job, runs, docs, project, objects, cleanup, uploads, exports, builds,
          role, org, creator, owners, spent, missed, finished>>
data == <<docs, project, objects, cleanup>>
work == <<uploads, exports, builds>>
people == <<role, org, creator, owners>>
history == <<missed, finished>>

\* The uploaded file lies under its uploader's prefix of documents/; what is
\* derived from it, extracted text and a PDF rendition, does not.
Keys(d) == {<<d, "source">>, <<d, "derived">>}
Artifact(x) == <<x, "artifact">>
Key == (Doc \X {"source", "derived"}) \cup (Export \X {"artifact"})

Uploader(d) == IF Place[d] = "guest" THEN Nobody ELSE Leaver
Present(d) == docs[d].state # "absent"
HasVersion(d) == docs[d].state \in {"versioned", "ready"}

RunPc == {"idle", "collect", "artifacts", "detach", "rows", "projects", "enqueue", "bytes",
          "list", "sweep", "org", "settle", "leave", "files", "purge", "auth", "report"}
NoRun == [pc |-> "idle", attempt |-> 0, docs |-> {}, paths |-> {}, heir |-> Nobody]

TypeOK ==
  /\ account \in {"open", "closing", "gone"}
  /\ job \in [status : {"none", "pending", "running", "done", "failed"}, attempts : 0..MaxAttempts]
  /\ runs \in [Runner -> [pc : RunPc, attempt : 0..MaxAttempts, docs : SUBSET Doc,
                          paths : SUBSET Key, heir : Person \cup {Nobody}]]
  /\ docs \in [Doc -> [state : {"absent", "created", "versioned", "ready"},
                       owner : {Leaver, Nobody}]]
  /\ project \in BOOLEAN
  /\ objects \subseteq Key /\ cleanup \subseteq Key /\ missed \subseteq Key
  /\ uploads \in [Late -> [pc : {"queued", "creating", "copying", "versioning", "publishing", "over"},
                           tries : 0..WorkTries]]
  /\ exports \in [Export -> [status : {"none", "pending", "running", "done", "failed", "gone"},
                             tries : 0..WorkTries]]
  /\ builds \in [Export -> {"none", "building", "uploaded"}]
  /\ role \in [Person -> {"none", "invited", "member", "admin"}]
  /\ org \in {"gone", "nothing", "documents", "projects"}
  /\ creator \in Person \cup {Nobody}
  /\ owners \subseteq {m \in Person : role[m] = "member" /\ m # creator}
  /\ spent \in [events : 0..MaxEvents, faulty : BOOLEAN]
  /\ finished \subseteq Export

---------------------------------------------------------------------------
(* Helpers *)

Fault == spent.events < MaxEvents /\ spent' = [events |-> spent.events + 1, faulty |-> TRUE]
Change == spent.events < MaxEvents /\ spent' = [spent EXCEPT !.events = @ + 1]

\* The objects of S are deleted; some of the deletions may fail.
Deleted(S) ==
  \/ objects' = objects \ S /\ UNCHANGED <<missed, spent>>
  \/ \E failing \in (SUBSET (S \cap objects)) \ {{}} :
       /\ objects' = (objects \ S) \cup failing
       /\ missed' = missed \cup failing
       /\ Fault

\* Rows of the documents S go, and their versions with them.
WithoutRows(S) == [d \in Doc |-> IF d \in S THEN [docs[d] EXCEPT !.state = "absent"] ELSE docs[d]]
\* The leaver's name goes from the documents S.
WithoutOwner(S) == [d \in Doc |-> IF d \in S THEN [docs[d] EXCEPT !.owner = Nobody] ELSE docs[d]]

In(m) == role[m] \in {"member", "admin"}
OtherAdmin(m) == \E o \in Person \ {m} : role[o] = "admin"

\* org_members_protect_last_admin, for anybody whose auth row is there.
LastAdmin(m) == role[m] = "admin" /\ ~OtherAdmin(m)

\* Mutant: the guard of ownership is dropped.
SoleOwnerNever(m) == FALSE

\* project_access_role: the creator, the admins, and whom an override names,
\* as long as they are members.
Owner(m) == In(m) /\ (role[m] = "admin" \/ m = creator \/ m \in owners)

\* org_member_protect_resource_ownership.
SoleOwner(m) == org = "projects" /\ Owner(m) /\ \A o \in Person \ {m} : ~Owner(o)

\* The membership of m goes, and the override with it.
Removed(m) == role' = [role EXCEPT ![m] = "none"] /\ owners' = owners \ {m}
\* m becomes an admin, whose ownership needs no override.
Promoted(m) == role' = [role EXCEPT ![m] = "admin"] /\ owners' = owners \ {m}
\* The leaver's name goes from the project.
WithoutCreator == IF creator = Leaver THEN Nobody ELSE creator

---------------------------------------------------------------------------
(* The request, and the queue *)

\* DELETE /user/account: the job is durable before the sessions are revoked.
DeleteAccount ==
  /\ account = "open"
  /\ account' = "closing"
  /\ job' = [status |-> "pending", attempts |-> 0]
  /\ finished' = {x \in Export : exports[x].status \notin {"pending", "running"} /\ builds[x] = "none"}
  /\ UNCHANGED <<runs, data, work, people, spent, missed>>

Owns(r) == job.status = "running" /\ job.attempts = runs[r].attempt
Lost == \A r \in Runner : runs[r].pc = "idle" \/ ~Owns(r)

\* Mutant: the attempts are not counted out.
ClaimForEver(r) ==
  /\ runs[r].pc = "idle"
  /\ job.status \in {"pending", "running"} /\ Lost
  /\ job' = [status |-> "running", attempts |-> job.attempts + 1]
  /\ runs' = [runs EXCEPT ![r] = [NoRun EXCEPT !.pc = "collect", !.attempt = job.attempts + 1]]
  /\ UNCHANGED <<account, data, work, people, spent, history>>

\* A pending row, one whose execution died, or one whose execution is taken
\* for dead; a spent one is failed in SQL.
ClaimErasure(r) ==
  /\ runs[r].pc = "idle"
  /\ \/ job.status = "pending" /\ UNCHANGED spent
     \/ job.status = "running" /\ Lost /\ UNCHANGED spent
     \/ job.status = "running" /\ ~Lost /\ Fault
  /\ IF job.attempts < MaxAttempts
     THEN /\ job' = [status |-> "running", attempts |-> job.attempts + 1]
          /\ runs' = [runs EXCEPT ![r] = [NoRun EXCEPT !.pc = "collect",
                                                       !.attempt = job.attempts + 1]]
     ELSE job' = [job EXCEPT !.status = "failed"] /\ UNCHANGED runs
  /\ UNCHANGED <<account, data, work, people, history>>

\* The execution is over, with the fenced report of its outcome.
Over(r, outcome) ==
  /\ runs' = [runs EXCEPT ![r] = NoRun]
  /\ job' = IF Owns(r) THEN [job EXCEPT !.status = outcome] ELSE job
Throws(r) == Over(r, IF runs[r].attempt < MaxAttempts THEN "pending" ELSE "failed")

\* A call fails and the handler throws, or the process dies.
ErasureFails(r) ==
  /\ runs[r].pc # "idle"
  /\ Fault
  /\ \/ runs[r].pc # "report" /\ Throws(r)
     \/ runs' = [runs EXCEPT ![r] = NoRun] /\ UNCHANGED job
  /\ UNCHANGED <<account, data, work, people, history>>

---------------------------------------------------------------------------
(* handleAccountDelete, step by step *)

At(r, pc) == runs[r].pc = pc
GoTo(r, pc) == runs' = [runs EXCEPT ![r].pc = pc]

\* The leaver's documents and those of the personal project.
Candidates == {d \in Doc : Present(d) /\ (docs[d].owner = Leaver \/ Place[d] = "guest")}

\* The documents to go, and the paths of their versions, in memory only.
CollectDocuments(r) ==
  LET doomed == {d \in Candidates : Place[d] # "org"} IN
  /\ At(r, "collect")
  /\ runs' = [runs EXCEPT ![r].pc = "artifacts", ![r].docs = doomed,
                          ![r].paths = UNION {Keys(d) : d \in {e \in doomed : HasVersion(e)}}]
  /\ UNCHANGED <<account, job, data, work, people, spent, history>>

\* All of S is tried; the handler throws if any deletion failed.
EraseOrThrow(r, S, next) ==
  \/ objects' = objects \ S /\ GoTo(r, next) /\ UNCHANGED <<job, spent>>
  \/ \E failing \in (SUBSET (S \cap objects)) \ {{}} :
       objects' = (objects \ S) \cup failing /\ Fault /\ Throws(r)

deleteUserExportArtifacts(r) ==
  /\ At(r, "artifacts")
  /\ EraseOrThrow(r, {Artifact(x) : x \in Export}, "detach")
  /\ UNCHANGED <<account, docs, project, cleanup, work, people, history>>

detachOrgProjectContent(r) ==
  /\ At(r, "detach")
  /\ docs' = WithoutOwner({d \in Doc : Place[d] = "org"})
  /\ creator' = WithoutCreator
  /\ GoTo(r, "rows")
  /\ UNCHANGED <<account, job, project, objects, cleanup, work, role, org, owners, spent, history>>

DeleteRows(r) ==
  /\ At(r, "rows")
  /\ docs' = WithoutRows(runs[r].docs)
  /\ runs' = [runs EXCEPT ![r].pc = "projects", ![r].docs = {}]
  /\ UNCHANGED <<account, job, project, objects, cleanup, work, people, spent, history>>

\* The personal project goes, with what has come into it since.
deleteProjectsByIds(r) ==
  LET late == {d \in Doc : Place[d] = "guest" /\ Present(d)} IN
  /\ At(r, "projects")
  /\ runs' = [runs EXCEPT ![r].pc = "enqueue", ![r].docs = {d \in late : HasVersion(d)}]
  /\ docs' = WithoutRows(late)
  /\ project' = FALSE
  /\ UNCHANGED <<account, job, objects, cleanup, work, people, spent, history>>

enqueueStorageCleanup(r) ==
  /\ At(r, "enqueue")
  /\ cleanup' = cleanup \cup UNION {Keys(d) : d \in runs[r].docs}
  /\ runs' = [runs EXCEPT ![r].pc = "bytes", ![r].docs = {}]
  /\ UNCHANGED <<account, job, docs, project, objects, work, people, spent, history>>

\* Best effort: failing deletions are swallowed.
deleteStorageFiles(r) ==
  /\ At(r, "bytes")
  /\ Deleted(runs[r].paths)
  /\ runs' = [runs EXCEPT ![r].pc = "list", ![r].paths = {}]
  /\ UNCHANGED <<account, job, docs, project, cleanup, work, people, finished>>

\* Mutant: no row is asked whether it still claims the object.
ListWholePrefix(r) ==
  /\ At(r, "list")
  /\ runs' = [runs EXCEPT ![r].pc = "sweep",
                          ![r].paths = {<<d, "source">> : d \in {e \in Doc : Uploader(e) = Leaver}} \cap objects]
  /\ UNCHANGED <<account, job, data, work, people, spent, history>>

\* What lies under the leaver's prefix and no version claims.
ListOrphans(r) ==
  /\ At(r, "list")
  /\ runs' = [runs EXCEPT
                ![r].pc = "sweep",
                ![r].paths = {<<d, "source">> : d \in {e \in Doc : Uploader(e) = Leaver /\ ~HasVersion(e)}}
                             \cap objects]
  /\ UNCHANGED <<account, job, data, work, people, spent, history>>

\* Mutant: the sweep is left out.
SweepNothing(r) ==
  /\ At(r, "sweep")
  /\ runs' = [runs EXCEPT ![r].pc = "org", ![r].paths = {}]
  /\ UNCHANGED <<account, job, data, work, people, spent, history>>

SweepOrphans(r) ==
  /\ At(r, "sweep")
  /\ Deleted(runs[r].paths)
  /\ runs' = [runs EXCEPT ![r].pc = "org", ![r].paths = {}]
  /\ UNCHANGED <<account, job, docs, project, cleanup, work, people, finished>>

---------------------------------------------------------------------------
(* deleteUserOrganizations *)

\* A sole admin looks for an heir; without one an organisation that holds
\* nothing is to be deleted, and the membership in another one is left to the
\* cascade from the auth row.
ReadOrganisation(r) ==
  LET heirs == {m \in Member : In(m)} IN
  /\ At(r, "org")
  /\ \/ ~In(Leaver) /\ GoTo(r, "files")
     \/ In(Leaver) /\ ~LastAdmin(Leaver) /\ GoTo(r, "leave")
     \/ /\ LastAdmin(Leaver)
        /\ \E h \in heirs : runs' = [runs EXCEPT ![r].pc = "settle", ![r].heir = h]
     \/ /\ LastAdmin(Leaver) /\ heirs = {}
        /\ GoTo(r, IF org = "nothing" THEN "settle" ELSE "files")
  /\ UNCHANGED <<account, job, data, work, people, spent, history>>

\* The heir, if still there, is promoted; or the organisation is deleted.
SettleOrganisation(r) ==
  LET h == runs[r].heir IN
  /\ At(r, "settle")
  /\ IF h # Nobody
     THEN /\ IF In(h) THEN Promoted(h) ELSE UNCHANGED <<role, owners>>
          /\ runs' = [runs EXCEPT ![r].pc = "leave", ![r].heir = Nobody]
          /\ UNCHANGED org
     ELSE /\ org' = "gone"
          /\ role' = [m \in Person |-> "none"] /\ owners' = {}
          /\ GoTo(r, "files")
  /\ UNCHANGED <<account, job, data, work, creator, spent, history>>

\* The membership is deleted, if the triggers let it.
LeaveOrganisation(r) ==
  /\ At(r, "leave")
  /\ IF In(Leaver) /\ (LastAdmin(Leaver) \/ SoleOwner(Leaver))
     THEN Throws(r) /\ UNCHANGED <<role, owners>>
     ELSE /\ Removed(Leaver)
          /\ GoTo(r, "files")
          /\ UNCHANGED job
  /\ UNCHANGED <<account, data, work, org, creator, spent, history>>

---------------------------------------------------------------------------
(* The queue's rows, and the auth user *)

DeleteExportFiles(r) ==
  /\ At(r, "files")
  /\ EraseOrThrow(r, {Artifact(x) : x \in {y \in Export : exports[y].status = "done"}}, "purge")
  /\ UNCHANGED <<account, docs, project, cleanup, work, people, history>>

PurgeRows(r) ==
  /\ At(r, "purge")
  /\ exports' = [x \in Export |-> IF exports[x].status = "none" THEN exports[x]
                                  ELSE [exports[x] EXCEPT !.status = "gone"]]
  /\ GoTo(r, "auth")
  /\ UNCHANGED <<account, job, data, uploads, builds, people, spent, history>>

\* Mutant: that the user is already gone is an error.
DeleteUserOnce(r) ==
  /\ At(r, "auth")
  /\ IF account = "gone" \/ (In(Leaver) /\ SoleOwner(Leaver))
     THEN Throws(r) /\ UNCHANGED <<account, role, owners, creator, docs>>
     ELSE /\ account' = "gone"
          /\ Removed(Leaver)
          /\ docs' = WithoutOwner(Doc) /\ creator' = WithoutCreator
          /\ GoTo(r, "report")
          /\ UNCHANGED job
  /\ UNCHANGED <<project, objects, cleanup, work, org, spent, history>>

\* The cascade takes a membership that is left, past the guard of the last
\* admin but not past that of ownership; documents and project lose the name.
DeleteUser(r) ==
  /\ At(r, "auth")
  /\ IF In(Leaver) /\ SoleOwner(Leaver)
     THEN Throws(r) /\ UNCHANGED <<account, role, owners, creator, docs>>
     ELSE /\ account' = "gone"
          /\ Removed(Leaver)
          /\ docs' = WithoutOwner(Doc) /\ creator' = WithoutCreator
          /\ GoTo(r, "report")
          /\ UNCHANGED job
  /\ UNCHANGED <<project, objects, cleanup, work, org, spent, history>>

Report(r) ==
  /\ At(r, "report")
  /\ Over(r, "done")
  /\ UNCHANGED <<account, data, work, people, spent, history>>

erasureStep(r) ==
  \/ CollectDocuments(r) \/ deleteUserExportArtifacts(r) \/ detachOrgProjectContent(r)
  \/ DeleteRows(r) \/ deleteProjectsByIds(r) \/ enqueueStorageCleanup(r)
  \/ deleteStorageFiles(r) \/ ListOrphans(r) \/ SweepOrphans(r)
  \/ ReadOrganisation(r) \/ SettleOrganisation(r) \/ LeaveOrganisation(r)
  \/ DeleteExportFiles(r) \/ PurgeRows(r) \/ DeleteUser(r) \/ Report(r)

---------------------------------------------------------------------------
(* Uploads that are being processed: processCreatedDocument *)

UploadAt(d, pc) == uploads[d].pc = pc
UploadTo(d, pc) == uploads' = [uploads EXCEPT ![d].pc = pc]

\* The session, and the job with it, goes with its user.
SessionIsThere(d) == account # "gone" \/ Uploader(d) # Leaver

StartUpload(d) ==
  /\ UploadAt(d, "queued") /\ SessionIsThere(d)
  /\ uploads' = [uploads EXCEPT ![d] = [pc |-> "creating", tries |-> @.tries + 1]]
  /\ UNCHANGED <<account, job, runs, data, exports, builds, people, spent, history>>

\* The row of the document is there, under its uploader's name, as before if
\* it was there already.
Creatable(d) ==
  /\ SessionIsThere(d)
  /\ Place[d] = "guest" => project
CreateDocument(d) ==
  /\ UploadAt(d, "creating") /\ Creatable(d)
  /\ docs' = [docs EXCEPT ![d] = [state |-> IF @.state = "absent" THEN "created" ELSE @.state,
                                  owner |-> Uploader(d)]]
  /\ UploadTo(d, "copying")
  /\ UNCHANGED <<account, job, runs, project, objects, cleanup, exports, builds, people, spent, history>>

CopyFile(d) ==
  /\ UploadAt(d, "copying")
  /\ objects' = objects \cup Keys(d)
  /\ UploadTo(d, "versioning")
  /\ UNCHANGED <<account, job, runs, docs, project, cleanup, exports, builds, people, spent, history>>

InsertVersion(d) ==
  /\ UploadAt(d, "versioning") /\ Present(d)
  /\ docs' = [docs EXCEPT ![d].state = IF @ = "created" THEN "versioned" ELSE @]
  /\ UploadTo(d, "publishing")
  /\ UNCHANGED <<account, job, runs, project, objects, cleanup, exports, builds, people, spent, history>>

Publishable(d) == Present(d) /\ docs[d].owner = Uploader(d) /\ SessionIsThere(d)
Publish(d) ==
  /\ UploadAt(d, "publishing") /\ Publishable(d)
  /\ docs' = [docs EXCEPT ![d].state = "ready"]
  /\ UploadTo(d, "over")
  /\ UNCHANGED <<account, job, runs, project, objects, cleanup, exports, builds, people, spent, history>>

\* The attempt fails or its worker dies: another one follows, or the document
\* is given up.
UploadFails(d) ==
  /\ uploads[d].pc \notin {"queued", "over"}
  /\ \/ \/ UploadAt(d, "creating") /\ ~Creatable(d)
        \/ UploadAt(d, "versioning") /\ ~Present(d)
        \/ UploadAt(d, "publishing") /\ ~Publishable(d)
        /\ UNCHANGED spent
     \/ Fault
  /\ IF SessionIsThere(d) /\ uploads[d].tries < WorkTries
     THEN UploadTo(d, "queued") /\ UNCHANGED <<docs, objects>>
     ELSE /\ UploadTo(d, "over")
          /\ IF SessionIsThere(d)
             THEN /\ objects' = objects \ Keys(d)
                  /\ docs' = IF docs[d].state # "ready" /\ docs[d].owner = Uploader(d)
                             THEN WithoutRows({d}) ELSE docs
             ELSE UNCHANGED <<docs, objects>>
  /\ UNCHANGED <<account, job, runs, project, cleanup, exports, builds, people, history>>

uploadStep(d) ==
  StartUpload(d) \/ CreateDocument(d) \/ CopyFile(d) \/ InsertVersion(d) \/ Publish(d) \/ UploadFails(d)

\* The durable cleanup deletes what its row names.
StorageCleanup ==
  /\ \E k \in cleanup : objects' = objects \ {k} /\ cleanup' = cleanup \ {k}
  /\ UNCHANGED <<account, job, runs, docs, project, work, people, spent, history>>

---------------------------------------------------------------------------
(* Exports: handleExportBuild *)

RequestExport(x) ==
  /\ account = "open" /\ exports[x].status = "none"
  /\ exports' = [exports EXCEPT ![x].status = "pending"]
  /\ UNCHANGED <<account, job, runs, data, uploads, builds, people, spent, history>>

StartBuild(x) ==
  /\ exports[x].status = "pending" /\ builds[x] = "none"
  /\ exports' = [exports EXCEPT ![x] = [status |-> "running", tries |-> @.tries + 1]]
  /\ builds' = [builds EXCEPT ![x] = "building"]
  /\ UNCHANGED <<account, job, runs, data, uploads, people, spent, history>>

UploadArtifact(x) ==
  /\ builds[x] = "building"
  /\ builds' = [builds EXCEPT ![x] = "uploaded"]
  /\ objects' = objects \cup {Artifact(x)}
  /\ UNCHANGED <<account, job, runs, docs, project, cleanup, uploads, exports, people, spent, history>>

\* The outcome is recorded if the row is still there.
EndBuild(x, outcome) ==
  /\ exports' = IF exports[x].status = "running" THEN [exports EXCEPT ![x].status = outcome] ELSE exports
  /\ builds' = [builds EXCEPT ![x] = "none"]
  /\ UNCHANGED <<account, job, runs, data, uploads, people, history>>
BuildEnds(x) == builds[x] = "uploaded" /\ EndBuild(x, "done") /\ UNCHANGED spent
BuildFails(x) ==
  /\ builds[x] # "none" /\ Fault
  /\ EndBuild(x, IF exports[x].tries < WorkTries THEN "pending" ELSE "failed")

\* runDbJobRetentionSweep: the file before the row of a finished export, and
\* the row alone of a failed one.
RetentionSweep(x) ==
  /\ exports[x].status \in {"done", "failed"}
  /\ objects' = IF exports[x].status = "done" THEN objects \ {Artifact(x)} ELSE objects
  /\ exports' = [exports EXCEPT ![x].status = "gone"]
  /\ UNCHANGED <<account, job, runs, docs, project, cleanup, uploads, builds, people, spent, history>>

exportStep(x) ==
  \/ RequestExport(x) \/ StartBuild(x) \/ UploadArtifact(x) \/ BuildEnds(x) \/ BuildFails(x)
  \/ RetentionSweep(x)

---------------------------------------------------------------------------
(* The other people of the organisation *)

Unmoved == UNCHANGED <<account, job, runs, data, work, org, creator, history>>

AcceptInvitation(m) ==
  /\ role[m] = "invited" /\ Change
  /\ \E as \in {"member", "admin"} : role' = [role EXCEPT ![m] = as]
  /\ Unmoved /\ UNCHANGED owners

\* updateMember, by an admin.
ChangeRole(m) ==
  /\ In(m) /\ \E a \in Member : role[a] = "admin"
  /\ ~LastAdmin(m) /\ Change
  /\ \/ role[m] = "admin" /\ role' = [role EXCEPT ![m] = "member"] /\ UNCHANGED owners
     \/ role[m] = "member" /\ Promoted(m)
  /\ Unmoved

\* removeMember, by an admin or by oneself.
RemoveMember(m) ==
  /\ In(m) /\ (m \in Member \/ \E a \in Member : role[a] = "admin")
  /\ ~LastAdmin(m) /\ ~SoleOwner(m) /\ Change
  /\ Removed(m)
  /\ Unmoved

\* POST and DELETE /projects/:projectId/access, by an owner: a plain member
\* other than the creator is made an owner or is one no longer, whoever is left.
AssignOwner(m) ==
  /\ org = "projects" /\ \E o \in Member : Owner(o)
  /\ role[m] = "member" /\ m # creator /\ Change
  /\ owners' = IF m \in owners THEN owners \ {m} ELSE owners \cup {m}
  /\ Unmoved /\ UNCHANGED role

---------------------------------------------------------------------------

\* The leaver is the admin of an organisation, alone or not, or a member of
\* it; uploads that are to come have been handed in.  An export may have failed
\* in its last attempt after its artifact was stored.
Init ==
  /\ account = "open"
  /\ job = [status |-> "none", attempts |-> 0]
  /\ runs = [r \in Runner |-> NoRun]
  /\ org \in Holdings
  /\ docs = [d \in Doc |->
               [state |-> IF d \in Late \/ (Place[d] = "org" /\ org # "projects") THEN "absent" ELSE "ready",
                owner |-> Uploader(d)]]
  /\ project = TRUE
  /\ cleanup = {}
  /\ uploads = [d \in Late |-> [pc |-> IF Place[d] = "org" /\ org # "projects" THEN "over" ELSE "queued",
                                tries |-> 0]]
  /\ \E old \in SUBSET Export :
       /\ exports = [x \in Export |-> IF x \in old THEN [status |-> "failed", tries |-> WorkTries]
                                                   ELSE [status |-> "none", tries |-> 0]]
       /\ objects = (UNION {Keys(d) : d \in {e \in Doc : Present(e)}}) \cup {Artifact(x) : x \in old}
  /\ builds = [x \in Export |-> "none"]
  /\ role \in {f \in [Person -> {"none", "invited", "member", "admin"}] :
                 f[Leaver] \in {"member", "admin"} /\ \E m \in Person : f[m] = "admin"}
  /\ creator \in IF org = "projects" THEN Person \cup {Nobody} ELSE {Nobody}
  /\ owners \in SUBSET {m \in Person : org = "projects" /\ role[m] = "member" /\ m # creator}
  /\ spent = [events |-> 0, faulty |-> FALSE]
  /\ missed = {}
  /\ finished = {}

Next ==
  \/ DeleteAccount
  \/ \E r \in Runner : ClaimErasure(r) \/ erasureStep(r) \/ ErasureFails(r)
  \/ \E d \in Late : uploadStep(d)
  \/ StorageCleanup
  \/ \E x \in Export : exportStep(x)
  \/ \E m \in Member : AcceptInvitation(m)
  \/ \E m \in Person : ChangeRole(m) \/ RemoveMember(m) \/ AssignOwner(m)

Spec == Init /\ [][Next]_vars

\* The queue finds a process for the job, and a handler that lives goes on.
Fairness ==
  /\ WF_vars(\E r \in Runner : ClaimErasure(r))
  /\ \A r \in Runner : WF_vars(erasureStep(r))

FairSpec == Spec /\ Fairness

---------------------------------------------------------------------------
(* Properties *)

\* What the organisation owns stays, its rows and the bytes that lie under the
\* leaver's prefix: for every document that was published before.
OrgContentSurvives ==
  org = "projects" =>
    \A d \in Doc \ Late : Place[d] = "org" => docs[d].state = "ready" /\ Keys(d) \subseteq objects

\* Once the auth user is gone, so are the rows of the documents to go; and
\* their bytes, if nothing failed.  A crash between rows and bytes loses the
\* paths, and the sweep of the retry still finds every file under the leaver's
\* prefix unless storage refused to delete it.  An export that was over when the
\* deletion was asked for, done or failed, leaves no copy of the account's data.
ErasureIsThorough ==
  account = "gone" =>
    /\ \A d \in Doc \ Late : Place[d] # "org" =>
         /\ ~Present(d)
         /\ ~spent.faulty => Keys(d) \cap objects = {}
         /\ Place[d] = "own" /\ <<d, "source">> \in objects => <<d, "source">> \in missed
    /\ \A x \in finished : Artifact(x) \notin objects

\* Whoever leaves, is removed, demoted or erased at the same time: while the
\* leaver's account is there the organisation has an admin, and when it goes the
\* organisation's project has an owner among those who stay, though not always
\* an admin.
OrganisationIsHandedOver ==
  [][\/ org' = "gone"
     \/ account' # "gone" /\ \E m \in Person : role'[m] = "admin"
     \/ account' = "gone" /\ (account = "gone" \/ org' # "projects" \/ \E m \in Member : Owner(m)')]_vars

\* The deletion that was promised completes, through a crash, a failing call
\* and a change of the organisation; the exception is an organisation with
\* projects and nobody else in it.
Alone == account = "closing" /\ SoleOwner(Leaver) /\ \A m \in Member : ~In(m)
DeletionCompletes ==
  <>(account = "closing") => <>(job.status = "done" \/ Alone)

\* The membership of a sole admin is left to the cascade, so that the deletion
\* completes (userDataCleanup.ts:709).
CascadeRemovesMembership ==
  account = "closing" ~> account = "gone"
=============================================================================
