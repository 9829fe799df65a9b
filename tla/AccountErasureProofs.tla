------------------------ MODULE AccountErasureProofs ------------------------
(***************************************************************************)
(* What the erasure of an account keeps and what it removes, for every     *)
(* instance of AccountErasure.                                             *)
(*                                                                         *)
(* The organisation. While the account is there it has an admin            *)
(* (AdminInv), so that the guard of ownership, asked about the last one,   *)
(* knows another owner; and no execution or row of the durable cleanup     *)
(* names a published document of it or one of that document's files        *)
(* (ContentInv).                                                           *)
(*                                                                         *)
(* The leaver. By the place it has reached, an execution knows the rows    *)
(* that are to go, or has them gone, and likewise the files under the      *)
(* leaver's prefix and the exports' artifacts (Progress in ErasureInv); it *)
(* may count on what others did, because nothing that is to go comes back  *)
(* (Shrinking).                                                            *)
(*                                                                         *)
(* Bytes. Without a fault one execution at a time is under way, and it     *)
(* owns the job; so files whose row it has deleted are in its memory until *)
(* it has deleted them too (BytesInv).                                     *)
(***************************************************************************)
EXTENDS AccountErasure, TLAPS

Run == [pc : RunPc, attempt : 0..MaxAttempts, docs : SUBSET Doc,
        paths : SUBSET Key, heir : Person \cup {Nobody}]
DocRow == [state : {"absent", "created", "versioned", "ready"}, owner : {Leaver, Nobody}]
UploadRow == [pc : {"queued", "creating", "copying", "versioning", "publishing", "over"},
              tries : 0..WorkTries]
ExportRow == [status : {"none", "pending", "running", "done", "failed", "gone"},
              tries : 0..WorkTries]

Job == [status : {"none", "pending", "running", "done", "failed"}, attempts : 0..MaxAttempts]
Events == [events : 0..MaxEvents, faulty : BOOLEAN]

\* TypeOK, and that what waits for an attempt has one left.
TypeInv ==
  /\ account \in {"open", "closing", "gone"}
  /\ job \in Job
  /\ runs \in [Runner -> Run]
  /\ docs \in [Doc -> DocRow]
  /\ project \in BOOLEAN
  /\ objects \subseteq Key /\ cleanup \subseteq Key /\ missed \subseteq Key
  /\ uploads \in [Late -> UploadRow]
  /\ exports \in [Export -> ExportRow]
  /\ builds \in [Export -> {"none", "building", "uploaded"}]
  /\ role \in [Person -> {"none", "invited", "member", "admin"}]
  /\ org \in {"gone", "nothing", "documents", "projects"}
  /\ creator \in Person \cup {Nobody}
  /\ owners \subseteq {m \in Person : role[m] = "member" /\ m # creator}
  /\ spent \in Events
  /\ finished \subseteq Export
  /\ \A d \in Late : uploads[d].pc = "queued" => uploads[d].tries < WorkTries
  /\ \A x \in Export : exports[x].status \in {"none", "pending"} => exports[x].tries < WorkTries

---------------------------------------------------------------------------
(* Type correctness *)

LEMMA KeyTypes ==
  /\ \A d \in Doc : Keys(d) \subseteq Key /\ Uploader(d) \in {Leaver, Nobody}
  /\ \A x \in Export : Artifact(x) \in Key
  BY DEF Keys, Key, Artifact, Uploader

LEMMA TypeInvTypes == TypeInv => TypeOK
  BY DEF TypeInv, TypeOK, Run, DocRow, UploadRow, ExportRow, Job, Events

LEMMA InitTypes == Init => TypeInv
<1> SUFFICES ASSUME Init PROVE TypeInv
  OBVIOUS
<1>1. runs \in [Runner -> Run]
  BY ErasureAssumption DEF Init, Run, RunPc, NoRun, ErasureAssumption
<1>2. docs \in [Doc -> DocRow]
  <2> DEFINE row(d) == [state |-> IF d \in Late \/ (Place[d] = "org" /\ org # "projects")
                                 THEN "absent" ELSE "ready",
                       owner |-> Uploader(d)]
  <2>1. \A d \in Doc : row(d) \in DocRow
    <3>1. \A s \in {"absent", "ready"}, u \in {Leaver, Nobody} :
            [state |-> s, owner |-> u] \in DocRow
      BY DEF DocRow
    <3>. QED BY <3>1, KeyTypes
  <2>2. docs = [d \in Doc |-> row(d)]
    BY DEF Init
  <2>. HIDE DEF row
  <2>. QED BY <2>1, <2>2
<1>3. uploads \in [Late -> UploadRow] /\ exports \in [Export -> ExportRow]
  BY ErasureAssumption DEF Init, UploadRow, ExportRow, ErasureAssumption
<1>4. objects \subseteq Key
  <2>1. \A k \in objects : (\E d \in Doc : k \in Keys(d)) \/ (\E x \in Export : k = Artifact(x))
    BY DEF Init, Keys, Artifact
  <2>. QED BY <2>1, KeyTypes
<1>5. org \in {"gone", "nothing", "documents", "projects"}
  BY ErasureAssumption DEF Init, ErasureAssumption
<1>6. job \in Job /\ spent \in Events
  BY ErasureAssumption DEF Init, ErasureAssumption, Job, Events
<1>7. \A d \in Late : uploads[d].tries < WorkTries
  BY ErasureAssumption DEF Init, ErasureAssumption
<1>8. \A x \in Export : exports[x].status \in {"none", "pending"} => exports[x].tries < WorkTries
  BY ErasureAssumption DEF Init, ErasureAssumption
<1>. QED
  BY <1>1, <1>2, <1>3, <1>4, <1>5, <1>6, <1>7, <1>8 DEF Init, TypeInv

\* The fields of an execution, and the steps that move one.
LEMMA RunTypes ==
  ASSUME TypeInv, NEW r \in Runner
  PROVE  /\ runs \in [Runner -> Run] /\ runs[r] \in Run
         /\ \A pc \in RunPc : GoTo(r, pc) => runs' \in [Runner -> Run]
         /\ \A x \in Run : [runs EXCEPT ![r] = x] \in [Runner -> Run]
         /\ NoRun \in Run
<1>1. runs \in [Runner -> Run]
  BY DEF TypeInv, Run
<1>2. \A x \in Run : [runs EXCEPT ![r] = x] \in [Runner -> Run]
  BY <1>1
<1>3. ASSUME NEW pc \in RunPc, GoTo(r, pc)
      PROVE  runs' \in [Runner -> Run]
  <2>1. [runs[r] EXCEPT !.pc = pc] \in Run
    BY <1>1 DEF Run
  <2>2. runs' = [runs EXCEPT ![r] = [runs[r] EXCEPT !.pc = pc]]
    BY <1>3 DEF GoTo
  <2>. QED BY <2>1, <2>2, <1>2
<1>4. NoRun \in Run
  BY ErasureAssumption DEF Run, NoRun, RunPc, ErasureAssumption
<1>. QED BY <1>1, <1>2, <1>3, <1>4

LEMMA OverTypes ==
  ASSUME TypeInv, NEW r \in Runner, NEW outcome \in {"pending", "failed", "done"},
         Over(r, outcome)
  PROVE  /\ runs' \in [Runner -> Run]
         /\ job' \in Job
<1>1. runs' \in [Runner -> Run]
  BY RunTypes DEF Over
<1>2. job' \in Job
  BY DEF Over, TypeInv, Job
<1>. QED BY <1>1, <1>2

LEMMA ThrowsTypes ==
  ASSUME TypeInv, NEW r \in Runner, Throws(r)
  PROVE  /\ runs' \in [Runner -> Run]
         /\ job' \in Job
  BY OverTypes DEF Throws

LEMMA SpentTypes ==
  ASSUME TypeInv, Fault \/ Change
  PROVE  spent' \in Events
<1>1. /\ spent \in Events
      /\ MaxEvents \in Nat
  BY ErasureAssumption DEF TypeInv, ErasureAssumption
<1>. USE DEF Events
<1>2. /\ spent.events \in 0..MaxEvents
      /\ spent.events < MaxEvents => spent.events + 1 \in 0..MaxEvents
  BY <1>1
<1>3. CASE Fault
  <2>1. spent' = [events |-> spent.events + 1, faulty |-> TRUE]
    BY <1>3 DEF Fault
  <2>2. spent.events + 1 \in 0..MaxEvents
    BY <1>2, <1>3 DEF Fault
  <2>. QED BY <2>1, <2>2
<1>4. CASE Change
  BY <1>1, <1>2, <1>4 DEF Change
<1>. QED BY <1>3, <1>4

\* Deleting objects leaves objects, and notes those it failed on.
LEMMA DeletedTypes ==
  ASSUME TypeInv, NEW S, Deleted(S)
  PROVE  /\ objects' \subseteq Key /\ missed' \subseteq Key
         /\ spent' \in Events
  BY SpentTypes DEF Deleted, TypeInv

LEMMA EraseOrThrowTypes ==
  ASSUME TypeInv, NEW r \in Runner, NEW S, NEW next \in RunPc, EraseOrThrow(r, S, next)
  PROVE  /\ objects' \subseteq Key
         /\ spent' \in Events
         /\ runs' \in [Runner -> Run]
         /\ job' \in Job
<1>1. CASE objects' = objects \ S /\ GoTo(r, next) /\ UNCHANGED <<job, spent>>
  BY <1>1, RunTypes DEF TypeInv
<1>2. ASSUME NEW failing \in SUBSET (S \cap objects),
             objects' = (objects \ S) \cup failing, Fault, Throws(r)
      PROVE  /\ objects' \subseteq Key
             /\ spent' \in Events
             /\ runs' \in [Runner -> Run]
             /\ job' \in Job
  BY <1>2, SpentTypes, ThrowsTypes DEF TypeInv
<1>. QED BY <1>1, <1>2 DEF EraseOrThrow

\* Documents whose rows or owners go are documents.
LEMMA DocTypes ==
  ASSUME TypeInv, NEW S
  PROVE  /\ WithoutRows(S) \in [Doc -> DocRow]
         /\ WithoutOwner(S) \in [Doc -> DocRow]
  BY DEF TypeInv, DocRow, WithoutRows, WithoutOwner

\* Whose membership goes or who becomes an admin is named by no override; and
\* nobody becomes a creator.
LEMMA MoveTypes ==
  ASSUME TypeInv, NEW m \in Person, Removed(m) \/ Promoted(m)
  PROVE  /\ role' \in [Person -> {"none", "invited", "member", "admin"}]
         /\ owners' \subseteq {o \in Person : role'[o] = "member" /\ o # creator}
  BY DEF TypeInv, Removed, Promoted

LEMMA CreatorTypes ==
  ASSUME TypeInv
  PROVE  /\ WithoutCreator \in Person \cup {Nobody}
         /\ \A m \in Person : m # creator => m # WithoutCreator
  BY ErasureAssumption DEF TypeInv, WithoutCreator, ErasureAssumption

LEMMA NextTypes ==
  ASSUME TypeInv, [Next]_vars
  PROVE  TypeInv'
<1>. USE DEF TypeInv, Job
<1>1. MaxAttempts \in Nat \ {0} /\ WorkTries \in Nat \ {0} /\ MaxEvents \in Nat
  BY ErasureAssumption DEF ErasureAssumption
<1>2. CASE UNCHANGED vars
  BY <1>2 DEF vars, data, work, people, history
<1>3. CASE DeleteAccount
  BY <1>1, <1>3 DEF DeleteAccount, data, work, people
<1>4. ASSUME NEW r \in Runner, ClaimErasure(r)
      PROVE  TypeInv'
  <2>1. spent' \in Events
    BY <1>4, SpentTypes DEF ClaimErasure
  <2>2. job' \in Job /\ runs' \in [Runner -> Run]
    <3>1. job.attempts \in 0..MaxAttempts
      OBVIOUS
    <3>2. CASE job.attempts < MaxAttempts
      <4>1. job.attempts + 1 \in 0..MaxAttempts
        BY <1>1, <3>1, <3>2
      <4>2. [NoRun EXCEPT !.pc = "collect", !.attempt = job.attempts + 1] \in Run
        BY <4>1, RunTypes, <1>4 DEF Run, RunPc
      <4>. QED
        BY <1>4, <3>2, <4>1, <4>2, RunTypes DEF ClaimErasure
    <3>3. CASE ~(job.attempts < MaxAttempts)
      BY <1>4, <3>3 DEF ClaimErasure
    <3>. QED BY <3>2, <3>3
  <2>. QED
    BY <1>4, <2>1, <2>2 DEF ClaimErasure, data, work, people, history
<1>5. ASSUME NEW r \in Runner, erasureStep(r)
      PROVE  TypeInv'
  <2>. USE DEF At, data, work, people, history
  <2>1. /\ NoRun \in Run /\ runs[r] \in Run
        /\ \A pc \in RunPc : GoTo(r, pc) => runs' \in [Runner -> Run]
    BY RunTypes
  <2>2. ASSUME NEW x \in Run, runs' = [runs EXCEPT ![r] = x]
        PROVE  runs' \in [Runner -> Run]
    BY <2>2
  <2>3. CASE CollectDocuments(r)
    <3>. DEFINE doomed == {d \in Candidates : Place[d] # "org"}
                paths == UNION {Keys(d) : d \in {e \in doomed : HasVersion(e)}}
    <3>1. doomed \in SUBSET Doc /\ paths \in SUBSET Key
      BY KeyTypes DEF Candidates
    <3>2. runs' = [runs EXCEPT ![r] = [runs[r] EXCEPT !.pc = "artifacts", !.docs = doomed, !.paths = paths]]
      BY <2>3 DEF CollectDocuments
    <3>. HIDE DEF doomed, paths
    <3>3. [runs[r] EXCEPT !.pc = "artifacts", !.docs = doomed, !.paths = paths] \in Run
      BY <2>1, <3>1 DEF Run, RunPc
    <3>. QED
      BY <2>3, <2>2, <3>2, <3>3 DEF CollectDocuments
  <2>4. CASE deleteUserExportArtifacts(r)
    BY <2>4, EraseOrThrowTypes DEF deleteUserExportArtifacts, RunPc
  <2>5. CASE detachOrgProjectContent(r)
    BY <2>1, <2>5, DocTypes, CreatorTypes DEF detachOrgProjectContent, RunPc
  <2>6. CASE DeleteRows(r)
    BY <2>1, <2>6, DocTypes DEF DeleteRows, RunPc, Run
  <2>7. CASE deleteProjectsByIds(r)
    BY <2>1, <2>7, DocTypes DEF deleteProjectsByIds, RunPc, Run
  <2>8. CASE enqueueStorageCleanup(r)
    <3>1. cleanup' \subseteq Key
      BY <2>1, <2>8, KeyTypes DEF enqueueStorageCleanup, Run
    <3>. QED
      BY <2>1, <2>8, <3>1 DEF enqueueStorageCleanup, RunPc, Run
  <2>9. CASE deleteStorageFiles(r)
    BY <2>1, <2>9, DeletedTypes DEF deleteStorageFiles, RunPc, Run
  <2>10. CASE ListOrphans(r)
    BY <2>1, <2>10 DEF ListOrphans, RunPc, Run
  <2>11. CASE SweepOrphans(r)
    BY <2>1, <2>11, DeletedTypes DEF SweepOrphans, RunPc, Run
  <2>12. CASE ReadOrganisation(r)
    <3>1. runs' \in [Runner -> Run]
      <4>1. CASE \E pc \in {"files", "leave", "settle"} : GoTo(r, pc)
        BY <2>1, <4>1 DEF RunPc
      <4>2. ASSUME NEW h \in Member, runs' = [runs EXCEPT ![r].pc = "settle", ![r].heir = h]
            PROVE  runs' \in [Runner -> Run]
        <5>1. [runs[r] EXCEPT !.pc = "settle", !.heir = h] \in Run
          BY <2>1 DEF Run, RunPc, Person
        <5>. QED BY <2>2, <4>2, <5>1
      <4>. QED BY <2>12, <4>1, <4>2 DEF ReadOrganisation
    <3>. QED BY <2>12, <3>1 DEF ReadOrganisation
  <2>13. CASE SettleOrganisation(r)
    <3>1. runs' \in [Runner -> Run]
      BY <2>1, <2>13 DEF SettleOrganisation, RunPc, Run
    <3>2. CASE runs[r].heir = Nobody
      BY <2>13, <3>1, <3>2 DEF SettleOrganisation
    <3>3. CASE runs[r].heir # Nobody
      <4>1. runs[r].heir \in Person
        BY <2>1, <3>3 DEF Run
      <4>. QED BY <2>13, <3>1, <3>3, <4>1, MoveTypes DEF SettleOrganisation
    <3>. QED BY <3>2, <3>3
  <2>14. CASE LeaveOrganisation(r)
    BY <2>1, <2>14, ThrowsTypes, MoveTypes DEF LeaveOrganisation, RunPc, Person
  <2>15. CASE DeleteExportFiles(r)
    BY <2>15, EraseOrThrowTypes DEF DeleteExportFiles, RunPc
  <2>16. CASE PurgeRows(r)
    BY <2>1, <2>16 DEF PurgeRows, RunPc, ExportRow
  <2>17. CASE DeleteUser(r)
    <3>1. runs' \in [Runner -> Run] /\ job' \in Job /\ docs' \in [Doc -> DocRow]
      BY <2>1, <2>17, ThrowsTypes, DocTypes DEF DeleteUser, RunPc
    <3>2. CASE UNCHANGED <<role, owners, creator>>
      BY <2>17, <3>1, <3>2 DEF DeleteUser
    <3>3. CASE Removed(Leaver) /\ creator' = WithoutCreator
      <4>1. /\ role' \in [Person -> {"none", "invited", "member", "admin"}]
            /\ owners' \subseteq {m \in Person : role'[m] = "member" /\ m # creator}
        BY <3>3, MoveTypes DEF Person
      <4>2. creator' \in Person \cup {Nobody} /\ \A m \in Person : m # creator => m # creator'
        BY <3>3, CreatorTypes
      <4>. QED BY <2>17, <3>1, <4>1, <4>2 DEF DeleteUser
    <3>. QED BY <2>17, <3>2, <3>3 DEF DeleteUser
  <2>18. CASE Report(r)
    BY <2>18, OverTypes DEF Report
  <2>. QED
    BY <1>5, <2>3, <2>4, <2>5, <2>6, <2>7, <2>8, <2>9, <2>10, <2>11, <2>12, <2>13, <2>14, <2>15,
       <2>16, <2>17, <2>18 DEF erasureStep
<1>6. ASSUME NEW r \in Runner, ErasureFails(r)
      PROVE  TypeInv'
  <2>1. spent' \in Events
    BY <1>6, SpentTypes DEF ErasureFails
  <2>2. job' \in Job /\ runs' \in [Runner -> Run]
    BY <1>6, ThrowsTypes, RunTypes DEF ErasureFails
  <2>. QED
    BY <1>6, <2>1, <2>2 DEF ErasureFails, data, work, people, history
<1>7. ASSUME NEW d \in Late, uploadStep(d)
      PROVE  TypeInv'
  <2>. USE <1>1, KeyTypes DEF UploadAt, UploadTo, UploadRow, work, people, data, history
  <2>1. d \in Doc
    BY ErasureAssumption DEF ErasureAssumption
  <2>2. CASE StartUpload(d)
    BY <2>2 DEF StartUpload
  <2>3. CASE CreateDocument(d)
    BY <2>1, <2>3 DEF CreateDocument, DocRow
  <2>4. CASE CopyFile(d)
    BY <2>1, <2>4 DEF CopyFile
  <2>5. CASE InsertVersion(d)
    BY <2>1, <2>5 DEF InsertVersion, DocRow
  <2>6. CASE Publish(d)
    BY <2>1, <2>6 DEF Publish, DocRow
  <2>7. CASE UploadFails(d)
    <3>1. spent' \in Events
      BY <2>7, SpentTypes DEF UploadFails
    <3>2. docs' \in [Doc -> DocRow] /\ objects' \subseteq Key
      BY <2>7, DocTypes DEF UploadFails
    <3>. QED
      BY <2>7, <3>1, <3>2 DEF UploadFails
  <2>. QED
    BY <1>7, <2>2, <2>3, <2>4, <2>5, <2>6, <2>7 DEF uploadStep
<1>8. CASE StorageCleanup
  BY <1>8 DEF StorageCleanup, work, people, history
<1>9. ASSUME NEW x \in Export, exportStep(x)
      PROVE  TypeInv'
  <2>. USE <1>1, KeyTypes DEF ExportRow, work, people, data, history
  <2>1. CASE RequestExport(x)
    BY <2>1 DEF RequestExport
  <2>2. CASE StartBuild(x)
    BY <2>2 DEF StartBuild
  <2>3. CASE UploadArtifact(x)
    BY <2>3 DEF UploadArtifact
  <2>4. CASE BuildEnds(x)
    BY <2>4 DEF BuildEnds, EndBuild
  <2>5. CASE BuildFails(x)
    <3>1. spent' \in Events
      BY <2>5, SpentTypes DEF BuildFails
    <3>. QED
      BY <2>5, <3>1 DEF BuildFails, EndBuild
  <2>6. CASE RetentionSweep(x)
    BY <2>6 DEF RetentionSweep
  <2>. QED
    BY <1>9, <2>1, <2>2, <2>3, <2>4, <2>5, <2>6 DEF exportStep
<1>10. ASSUME NEW m \in Person,
              AcceptInvitation(m) \/ ChangeRole(m) \/ RemoveMember(m) \/ AssignOwner(m)
      PROVE  TypeInv'
  <2>1. spent' \in Events
    BY <1>10, SpentTypes DEF AcceptInvitation, ChangeRole, RemoveMember, AssignOwner
  <2>2. /\ role' \in [Person -> {"none", "invited", "member", "admin"}]
        /\ owners' \subseteq {o \in Person : role'[o] = "member" /\ o # creator}
    <3>1. CASE AcceptInvitation(m)
      BY <3>1 DEF AcceptInvitation
    <3>2. CASE ChangeRole(m)
      BY <3>2, MoveTypes DEF ChangeRole
    <3>3. CASE RemoveMember(m)
      BY <3>3, MoveTypes DEF RemoveMember
    <3>4. CASE AssignOwner(m)
      BY <3>4 DEF AssignOwner
    <3>. QED BY <1>10, <3>1, <3>2, <3>3, <3>4
  <2>3. UNCHANGED creator
    BY <1>10 DEF AcceptInvitation, ChangeRole, RemoveMember, AssignOwner, Unmoved
  <2>. QED
    BY <1>10, <2>1, <2>2, <2>3 DEF AcceptInvitation, ChangeRole, RemoveMember, AssignOwner, Unmoved,
       data, work, history
<1>. QED
  BY <1>2, <1>3, <1>4, <1>5, <1>6, <1>7, <1>8, <1>9, <1>10 DEF Next, Person

\* In every state, whatever fails and whoever runs at the same time, the rows,
\* the executions and the objects are of their types: attempts stay within
\* what the job allows, and an execution knows documents and paths only.
THEOREM TypeCorrect == Spec => []TypeOK
<1>1. Init => TypeInv
  BY InitTypes
<1>2. TypeInv /\ [Next]_vars => TypeInv'
  BY NextTypes
<1>3. TypeInv => TypeOK
  BY TypeInvTypes
<1>. QED
  BY <1>1, <1>2, <1>3, PTL DEF Spec

\* An execution moves itself only.
LEMMA RunFrame ==
  ASSUME TypeInv, NEW r \in Runner, ClaimErasure(r) \/ erasureStep(r) \/ ErasureFails(r)
  PROVE  /\ runs' \in [Runner -> Run]
         /\ \A q \in Runner \ {r} : runs'[q] = runs[q]
<1>1. runs' \in [Runner -> Run]
  BY NextTypes DEF Next, TypeInv
<1>2. runs \in [Runner -> Run]
  BY RunTypes
<1>3. (\E x : runs' = [runs EXCEPT ![r] = x]) \/ UNCHANGED runs
  <2>1. \A pc : GoTo(r, pc) => runs' = [runs EXCEPT ![r] = [runs[r] EXCEPT !.pc = pc]]
    BY DEF GoTo
  <2>2. Throws(r) => runs' = [runs EXCEPT ![r] = NoRun]
    BY DEF Throws, Over
  <2>3. CASE ClaimErasure(r)
    BY <2>3 DEF ClaimErasure
  <2>4. CASE ErasureFails(r)
    BY <2>2, <2>4 DEF ErasureFails
  <2>5. CASE deleteUserExportArtifacts(r) \/ DeleteExportFiles(r)
    BY <2>1, <2>2, <2>5 DEF deleteUserExportArtifacts, DeleteExportFiles, EraseOrThrow
  <2>6. CASE detachOrgProjectContent(r) \/ PurgeRows(r)
    BY <2>1, <2>6 DEF detachOrgProjectContent, PurgeRows
  <2>7. CASE LeaveOrganisation(r) \/ DeleteUser(r)
    BY <2>1, <2>2, <2>7 DEF LeaveOrganisation, DeleteUser
  <2>8. CASE ReadOrganisation(r)
    BY <2>1, <2>8 DEF ReadOrganisation
  <2>9. CASE SettleOrganisation(r)
    BY <2>1, <2>9 DEF SettleOrganisation
  <2>10. CASE Report(r)
    BY <2>10 DEF Report, Over
  <2>11. CASE CollectDocuments(r) \/ DeleteRows(r) \/ deleteProjectsByIds(r) \/ enqueueStorageCleanup(r)
    BY <2>11 DEF CollectDocuments, DeleteRows, deleteProjectsByIds, enqueueStorageCleanup
  <2>12. CASE deleteStorageFiles(r) \/ ListOrphans(r) \/ SweepOrphans(r)
    BY <2>12 DEF deleteStorageFiles, ListOrphans, SweepOrphans
  <2>. QED
    BY <2>3, <2>4, <2>5, <2>6, <2>7, <2>8, <2>9, <2>10, <2>11, <2>12 DEF erasureStep
<1>. QED BY <1>1, <1>2, <1>3

---------------------------------------------------------------------------
(* The organisation is handed over *)

AdminInv == account # "gone" /\ org # "gone" => \E m \in Person : role[m] = "admin"

\* The steps that touch the organisation and its people, or the account.
LEMMA PeopleFrame ==
  ASSUME [Next]_vars
  PROVE  \/ UNCHANGED <<role, org, owners>> /\ (account' = "gone" <=> account = "gone")
         \/ \E r \in Runner : SettleOrganisation(r) \/ LeaveOrganisation(r) \/ DeleteUser(r)
         \/ \E m \in Member : AcceptInvitation(m)
         \/ \E m \in Person : ChangeRole(m) \/ RemoveMember(m) \/ AssignOwner(m)
<1>. USE DEF people
<1>. DEFINE Calm == UNCHANGED <<role, org, owners>> /\ (account' = "gone" <=> account = "gone")
<1>1. ASSUME NEW r \in Runner, erasureStep(r)
      PROVE  SettleOrganisation(r) \/ LeaveOrganisation(r) \/ DeleteUser(r) \/ Calm
  BY <1>1 DEF erasureStep, CollectDocuments, deleteUserExportArtifacts, detachOrgProjectContent,
     DeleteRows, deleteProjectsByIds, enqueueStorageCleanup, deleteStorageFiles, ListOrphans,
     SweepOrphans, ReadOrganisation, DeleteExportFiles, PurgeRows, Report
<1>2. ASSUME NEW d \in Late, uploadStep(d)
      PROVE  Calm
  BY <1>2 DEF uploadStep, StartUpload, CreateDocument, CopyFile, InsertVersion, Publish, UploadFails
<1>3. ASSUME NEW x \in Export, exportStep(x)
      PROVE  Calm
  BY <1>3 DEF exportStep, RequestExport, StartBuild, UploadArtifact, BuildEnds, BuildFails,
     EndBuild, RetentionSweep
<1>4. ASSUME DeleteAccount \/ StorageCleanup \/ UNCHANGED vars
      PROVE  Calm
  BY <1>4 DEF DeleteAccount, StorageCleanup, vars
<1>5. ASSUME NEW r \in Runner, ClaimErasure(r) \/ ErasureFails(r)
      PROVE  Calm
  BY <1>5 DEF ClaimErasure, ErasureFails
<1>. QED
  BY <1>1, <1>2, <1>3, <1>4, <1>5 DEF Next

\* What holds projects held them before.
LEMMA ProjectsStay ==
  ASSUME [Next]_vars, org' = "projects"
  PROVE  org = "projects"
  BY PeopleFrame DEF SettleOrganisation, LeaveOrganisation, DeleteUser, AcceptInvitation,
     ChangeRole, RemoveMember, AssignOwner, Unmoved, people

\* Where the account stays, one admin of two remains: the last one is stopped
\* by the guard of the last admin.  Where it goes, the guard of ownership stops
\* a leaver who is the project's only owner, and an admin is one.
LEMMA Handover ==
  ASSUME TypeInv, AdminInv, [Next]_vars, org' # "gone"
  PROVE  /\ account' # "gone" => \E m \in Person : role'[m] = "admin"
         /\ account # "gone" /\ account' = "gone" /\ org' = "projects" => \E m \in Member : Owner(m)'
<1>. USE DEF TypeInv, people
<1>1. Leaver \in Person /\ Leaver \notin Member /\ Nobody \notin Person
      /\ \A r \in Runner : runs[r].heir # Nobody => runs[r].heir \in Person
  BY ErasureAssumption DEF Person, Run, ErasureAssumption
<1>2. CASE UNCHANGED <<role, org, owners>> /\ (account' = "gone" <=> account = "gone")
  BY <1>2 DEF AdminInv
<1>3. ASSUME NEW r \in Runner, SettleOrganisation(r)
      PROVE  UNCHANGED account /\ (account' # "gone" => \E m \in Person : role'[m] = "admin")
  BY <1>1, <1>3 DEF SettleOrganisation, AdminInv, Promoted
<1>4. ASSUME NEW r \in Runner, LeaveOrganisation(r)
      PROVE  UNCHANGED account /\ (account' # "gone" => \E m \in Person : role'[m] = "admin")
  BY <1>1, <1>4 DEF LeaveOrganisation, AdminInv, Removed, In, LastAdmin, OtherAdmin
<1>5. ASSUME NEW r \in Runner, DeleteUser(r)
      PROVE  /\ account' # "gone" => \E m \in Person : role'[m] = "admin"
             /\ account # "gone" /\ account' = "gone" /\ org' = "projects" =>
                  \E m \in Member : Owner(m)'
  <2>1. CASE UNCHANGED <<account, role, org>>
    BY <2>1 DEF AdminInv
  <2>2. CASE /\ account' = "gone" /\ Removed(Leaver) /\ creator' = WithoutCreator
             /\ UNCHANGED org /\ ~(In(Leaver) /\ SoleOwner(Leaver))
    <3>. SUFFICES ASSUME account # "gone", org = "projects"
                  PROVE  \E m \in Member : Owner(m)'
      BY <2>2
    <3>1. PICK m \in Person : role[m] = "admin"
      BY DEF AdminInv
    <3>2. \E o \in Member : Owner(o)
      <4>1. CASE m = Leaver
        <5>1. In(Leaver) /\ Owner(Leaver)
          BY <3>1, <4>1 DEF In, Owner
        <5>. QED BY <1>1, <2>2, <5>1 DEF SoleOwner, Person
      <4>2. CASE m # Leaver
        BY <3>1, <4>2 DEF In, Owner, Person
      <4>. QED BY <4>1, <4>2
    <3>3. PICK o \in Member : Owner(o)
      BY <3>2
    <3>4. role'[o] = role[o] /\ (o \in owners => o \in owners') /\ (o = creator => o = creator')
      BY <1>1, <2>2 DEF Removed, WithoutCreator, Person
    <3>5. Owner(o)'
      BY <3>3, <3>4 DEF Owner, In
    <3>. QED BY <3>5
  <2>. QED BY <1>5, <2>1, <2>2 DEF DeleteUser
<1>6. ASSUME NEW m \in Member, AcceptInvitation(m)
      PROVE  UNCHANGED account /\ (account' # "gone" => \E p \in Person : role'[p] = "admin")
  BY <1>6 DEF AcceptInvitation, Unmoved, AdminInv, Person
<1>7. ASSUME NEW m \in Person, ChangeRole(m) \/ RemoveMember(m) \/ AssignOwner(m)
      PROVE  UNCHANGED account /\ (account' # "gone" => \E p \in Person : role'[p] = "admin")
  BY <1>7 DEF ChangeRole, RemoveMember, AssignOwner, Unmoved, AdminInv, LastAdmin, OtherAdmin,
     Removed, Promoted
<1>. QED
  BY <1>2, <1>3, <1>4, <1>5, <1>6, <1>7, PeopleFrame

\* Whoever leaves, is removed, demoted or erased at the same time: while the
\* leaver's account is there the organisation has an admin, and when it goes the
\* organisation's project has an owner among those who stay.
THEOREM HandoverCorrect == Spec => OrganisationIsHandedOver
<1>. DEFINE A == \/ org' = "gone"
                 \/ account' # "gone" /\ \E m \in Person : role'[m] = "admin"
                 \/ account' = "gone" /\ (account = "gone" \/ org' # "projects" \/ \E m \in Member : Owner(m)')
<1>1. Init => TypeInv /\ AdminInv
  BY InitTypes DEF Init, AdminInv
<1>2. TypeInv /\ AdminInv /\ [Next]_vars => (TypeInv /\ AdminInv)'
  BY NextTypes, Handover DEF AdminInv
<1>3. TypeInv /\ AdminInv /\ [Next]_vars => [A]_vars
  BY Handover
<1>. QED
  BY <1>1, <1>2, <1>3, PTL DEF Spec, OrganisationIsHandedOver

---------------------------------------------------------------------------
(* What the organisation owns stays *)

\* The organisation's documents that were published before.
Published == {d \in Doc \ Late : Place[d] = "org"}

\* No execution, and no row of the durable cleanup, names it.
Kept(d) ==
  /\ docs[d].state = "ready"
  /\ Keys(d) \subseteq objects
  /\ Keys(d) \cap cleanup = {}
  /\ \A r \in Runner : d \notin runs[r].docs /\ Keys(d) \cap runs[r].paths = {}

ContentInv ==
  org = "projects" =>
    \A d \in Published : Kept(d)

Source(d) == <<d, "source">>

\* The files of a document are its own, and no export's.
LEMMA KeysApart ==
  /\ \A d \in Doc : \A e \in Doc \ {d} : Keys(d) \cap Keys(e) = {}
  /\ \A d \in Doc, x \in Export : Artifact(x) \notin Keys(d)
  BY DEF Keys, Artifact

\* What one execution does, with d not among its documents or paths before.
LEMMA StepKeeps ==
  ASSUME TypeInv, NEW d \in Published, Kept(d), NEW r \in Runner, erasureStep(r)
  PROVE  Kept(d)'
<1>1. /\ d \in Doc /\ Place[d] = "org"
      /\ runs \in [Runner -> Run] /\ docs \in [Doc -> DocRow] /\ runs[r] \in Run
  BY RunTypes DEF Published, TypeInv
<1>2. /\ docs[d].state = "ready" /\ Keys(d) \subseteq objects /\ Keys(d) \cap cleanup = {}
      /\ \A q \in Runner : d \notin runs[q].docs /\ Keys(d) \cap runs[q].paths = {}
  BY DEF Kept
<1>. DEFINE Free(x) == d \notin x.docs /\ Keys(d) \cap x.paths = {}
<1>3. ASSUME Free(runs'[r]), docs'[d].state = "ready", Keys(d) \subseteq objects',
             Keys(d) \cap cleanup' = {}
      PROVE  Kept(d)'
  BY <1>2, <1>3, RunFrame DEF Kept
<1>4. ASSUME NEW S \in SUBSET Doc, d \notin S
      PROVE  WithoutRows(S)[d].state = "ready" /\ Keys(d) \cap UNION {Keys(e) : e \in S} = {}
  BY <1>1, <1>2, <1>4, KeysApart DEF WithoutRows
<1>5. ASSUME NEW S \in SUBSET Doc
      PROVE  WithoutOwner(S)[d].state = "ready"
  BY <1>1, <1>2 DEF WithoutOwner, DocRow
<1>6. ASSUME NEW pc, GoTo(r, pc)
      PROVE  Free(runs'[r])
  BY <1>1, <1>2, <1>6 DEF GoTo, Run
<1>7. ASSUME Throws(r) \/ Over(r, "done")
      PROVE  Free(runs'[r])
  BY <1>1, <1>7 DEF Throws, Over, NoRun
<1>8. ASSUME NEW S, Keys(d) \cap S = {}, Deleted(S)
      PROVE  Keys(d) \subseteq objects'
  BY <1>2, <1>8 DEF Deleted
<1>9. ASSUME NEW S \in SUBSET {Artifact(x) : x \in Export}, NEW pc, EraseOrThrow(r, S, pc)
      PROVE  Keys(d) \subseteq objects' /\ Free(runs'[r])
  BY <1>1, <1>2, <1>6, <1>7, <1>9, KeysApart DEF EraseOrThrow
<1>. USE DEF At, data, work, people, history
<1>10. CASE CollectDocuments(r)
  <2>. DEFINE doomed == {e \in Candidates : Place[e] # "org"}
              known == {e \in doomed : HasVersion(e)}
  <2>1. known \in SUBSET Doc /\ d \notin known /\ d \notin doomed
    BY <1>1 DEF Candidates
  <2>2. runs'[r].docs = doomed /\ runs'[r].paths = UNION {Keys(e) : e \in known}
    BY <1>1, <1>10 DEF CollectDocuments, Run
  <2>. HIDE DEF doomed, known
  <2>3. Free(runs'[r])
    BY <1>4, <2>1, <2>2
  <2>. QED
    BY <1>2, <1>3, <1>10, <2>3 DEF CollectDocuments
<1>11. CASE deleteUserExportArtifacts(r)
  BY <1>2, <1>3, <1>9, <1>11 DEF deleteUserExportArtifacts
<1>12. CASE detachOrgProjectContent(r)
  BY <1>2, <1>3, <1>5, <1>6, <1>12 DEF detachOrgProjectContent
<1>13. CASE DeleteRows(r)
  <2>1. Free(runs'[r])
    BY <1>1, <1>2, <1>13 DEF DeleteRows, Run
  <2>2. docs'[d].state = "ready"
    BY <1>1, <1>2, <1>4, <1>13 DEF DeleteRows, Run
  <2>. QED
    BY <1>2, <1>3, <1>13, <2>1, <2>2 DEF DeleteRows
<1>14. CASE deleteProjectsByIds(r)
  <2>. DEFINE late == {e \in Doc : Place[e] = "guest" /\ Present(e)}
  <2>1. late \in SUBSET Doc /\ d \notin late
    BY <1>1
  <2>2. docs' = WithoutRows(late) /\ runs'[r].docs \subseteq late /\ runs'[r].paths = runs[r].paths
    BY <1>1, <1>14 DEF deleteProjectsByIds, Run
  <2>. HIDE DEF late
  <2>3. Free(runs'[r]) /\ docs'[d].state = "ready"
    BY <1>2, <1>4, <2>1, <2>2
  <2>. QED
    BY <1>2, <1>3, <1>14, <2>3 DEF deleteProjectsByIds
<1>15. CASE enqueueStorageCleanup(r)
  <2>1. Free(runs'[r])
    BY <1>1, <1>2, <1>15 DEF enqueueStorageCleanup, Run
  <2>2. Keys(d) \cap cleanup' = {}
    BY <1>1, <1>2, <1>4, <1>15 DEF enqueueStorageCleanup, Run
  <2>. QED
    BY <1>2, <1>3, <1>15, <2>1, <2>2 DEF enqueueStorageCleanup
<1>16. CASE deleteStorageFiles(r) \/ SweepOrphans(r)
  <2>1. Free(runs'[r])
    BY <1>1, <1>2, <1>16 DEF deleteStorageFiles, SweepOrphans, Run
  <2>2. Keys(d) \subseteq objects'
    BY <1>2, <1>8, <1>16 DEF deleteStorageFiles, SweepOrphans
  <2>. QED
    BY <1>2, <1>3, <1>16, <2>1, <2>2 DEF deleteStorageFiles, SweepOrphans
<1>17. CASE ListOrphans(r)
  <2>. DEFINE unclaimed == {e \in Doc : Uploader(e) = Leaver /\ ~HasVersion(e)}
  <2>1. d \notin unclaimed
    BY <1>2 DEF HasVersion
  <2>2. runs'[r].docs = runs[r].docs
        /\ runs'[r].paths = {Source(e) : e \in unclaimed} \cap objects
    BY <1>1, <1>17 DEF ListOrphans, Run, Source
  <2>3. \A e \in Doc : Source(e) \in Keys(d) => e = d
    BY DEF Source, Keys
  <2>4. Free(runs'[r])
    BY <1>2, <2>1, <2>2, <2>3
  <2>. QED
    BY <1>2, <1>3, <1>17, <2>4 DEF ListOrphans
<1>18. CASE ReadOrganisation(r) \/ SettleOrganisation(r)
  <2>1. Free(runs'[r])
    BY <1>1, <1>2, <1>6, <1>18 DEF ReadOrganisation, SettleOrganisation, Run
  <2>. QED
    BY <1>2, <1>3, <1>18, <2>1 DEF ReadOrganisation, SettleOrganisation
<1>19. CASE LeaveOrganisation(r)
  BY <1>2, <1>3, <1>6, <1>7, <1>19 DEF LeaveOrganisation
<1>20. CASE DeleteExportFiles(r)
  BY <1>2, <1>3, <1>9, <1>20 DEF DeleteExportFiles
<1>21. CASE PurgeRows(r)
  BY <1>2, <1>3, <1>6, <1>21 DEF PurgeRows
<1>22. CASE DeleteUser(r)
  BY <1>2, <1>3, <1>5, <1>6, <1>7, <1>22 DEF DeleteUser
<1>23. CASE Report(r)
  BY <1>2, <1>3, <1>7, <1>23 DEF Report
<1>. QED
  BY <1>10, <1>11, <1>12, <1>13, <1>14, <1>15, <1>16, <1>17, <1>18, <1>19, <1>20, <1>21, <1>22, <1>23
  DEF erasureStep

LEMMA NextContent ==
  ASSUME TypeInv, ContentInv, [Next]_vars
  PROVE  ContentInv'
<1>. SUFFICES ASSUME NEW d \in Published, Kept(d), org' = "projects"
              PROVE  Kept(d)'
  BY ProjectsStay DEF ContentInv
<1>1. /\ d \in Doc /\ d \notin Late
      /\ runs \in [Runner -> Run] /\ docs \in [Doc -> DocRow]
  BY DEF Published, TypeInv
<1>2. /\ docs[d].state = "ready" /\ Keys(d) \subseteq objects /\ Keys(d) \cap cleanup = {}
      /\ \A q \in Runner : d \notin runs[q].docs /\ Keys(d) \cap runs[q].paths = {}
  BY DEF Kept
<1>. USE DEF data, work, people, history
<1>3. CASE UNCHANGED vars \/ DeleteAccount
  BY <1>2, <1>3 DEF vars, DeleteAccount, Kept
<1>4. ASSUME NEW r \in Runner, ClaimErasure(r) \/ ErasureFails(r)
      PROVE  Kept(d)'
  <2>1. d \notin runs'[r].docs /\ Keys(d) \cap runs'[r].paths = {}
    <3>1. CASE UNCHANGED runs
      BY <1>2, <3>1
    <3>2. CASE runs' = [runs EXCEPT ![r] = NoRun]
      BY <1>1, <3>2 DEF NoRun
    <3>3. CASE runs' = [runs EXCEPT ![r] = [NoRun EXCEPT !.pc = "collect", !.attempt = job.attempts + 1]]
      BY <1>1, <3>3 DEF NoRun
    <3>. QED
      BY <1>4, <3>1, <3>2, <3>3 DEF ClaimErasure, ErasureFails, Throws, Over
  <2>. QED
    BY <1>2, <1>4, <2>1, RunFrame DEF ClaimErasure, ErasureFails, Kept
<1>5. ASSUME NEW e \in Late, uploadStep(e)
      PROVE  Kept(d)'
  <2>1. e \in Doc /\ e # d /\ Keys(d) \cap Keys(e) = {}
    BY <1>1, KeysApart, ErasureAssumption DEF ErasureAssumption
  <2>2. docs'[d] = docs[d] /\ Keys(d) \subseteq objects' /\ UNCHANGED <<runs, cleanup>>
    BY <1>1, <1>2, <1>5, <2>1 DEF uploadStep, StartUpload, CreateDocument, CopyFile, InsertVersion,
       Publish, UploadFails, WithoutRows
  <2>. QED BY <1>2, <2>2 DEF Kept
<1>6. CASE StorageCleanup
  BY <1>2, <1>6 DEF StorageCleanup, Kept
<1>7. ASSUME NEW x \in Export, exportStep(x)
      PROVE  Kept(d)'
  <2>1. UNCHANGED <<runs, docs, cleanup>> /\ objects \ {Artifact(x)} \subseteq objects'
    BY <1>7 DEF exportStep, RequestExport, StartBuild, UploadArtifact, BuildEnds, BuildFails,
       EndBuild, RetentionSweep
  <2>. QED BY <1>1, <1>2, <2>1, KeysApart DEF Kept
<1>8. ASSUME NEW m \in Person, AcceptInvitation(m) \/ ChangeRole(m) \/ RemoveMember(m) \/ AssignOwner(m)
      PROVE  Kept(d)'
  BY <1>2, <1>8 DEF AcceptInvitation, ChangeRole, RemoveMember, AssignOwner, Unmoved, Kept
<1>. QED
  BY <1>3, <1>4, <1>5, <1>6, <1>7, <1>8, StepKeeps DEF Next, Person

\* Whatever of the leaver's is erased, and whatever fails meanwhile: the
\* organisation's documents keep their rows and the files under the leaver's prefix.
THEOREM ContentCorrect == Spec => []OrgContentSurvives
<1>1. Init => TypeInv /\ ContentInv
  <2>. SUFFICES ASSUME Init, org = "projects", NEW d \in Published
                PROVE  Kept(d)
    BY InitTypes DEF ContentInv
  <2>1. d \in Doc /\ docs[d].state = "ready" /\ cleanup = {}
    BY DEF Init, Published
  <2>2. \A r \in Runner : runs[r].docs = {} /\ runs[r].paths = {}
    BY DEF Init, NoRun
  <2>3. Keys(d) \subseteq objects
    BY <2>1 DEF Init, Present
  <2>. QED BY <2>1, <2>2, <2>3 DEF Kept
<1>2. TypeInv /\ ContentInv /\ [Next]_vars => (TypeInv /\ ContentInv)'
  BY NextTypes, NextContent
<1>3. ContentInv => OrgContentSurvives
  BY DEF ContentInv, Kept, OrgContentSurvives, Published
<1>. QED
  BY <1>1, <1>2, <1>3, PTL DEF Spec

---------------------------------------------------------------------------
(* What is to go, goes *)

Doomed == {d \in Doc \ Late : Place[d] # "org"}

RowsGone == \A d \in Doomed : ~Present(d)
FilesGone ==
  \A d \in Doomed : Place[d] = "own" /\ Source(d) \in objects => Source(d) \in missed
ArtifactsGone == \A x \in finished : Artifact(x) \notin objects

AfterSweep == {"org", "settle", "leave", "files", "purge", "auth", "report"}
AfterRows == {"projects", "enqueue", "bytes", "list", "sweep"} \cup AfterSweep
AfterArtifacts == {"detach", "rows"} \cup AfterRows

\* How far an execution has come, whatever the others do meanwhile.
Progress(x) ==
  /\ x.pc \in {"artifacts", "detach", "rows"} =>
       \A d \in Doomed : /\ Present(d) => d \in x.docs
                         /\ d \in x.docs => Keys(d) \subseteq x.paths
  /\ x.pc \in AfterRows => RowsGone
  /\ x.pc = "sweep" =>
       \A d \in Doomed : Place[d] = "own" /\ Source(d) \in objects => Source(d) \in x.paths
  /\ x.pc \in AfterSweep => FilesGone
  /\ x.pc \in AfterArtifacts => ArtifactsGone

ErasureInv ==
  /\ account = "open" => /\ job.status = "none" /\ finished = {}
                         /\ \A r \in Runner : runs[r].pc = "idle"
  /\ \A d \in Doomed : /\ docs[d].state \in {"ready", "absent"}
                       /\ Place[d] = "own" /\ Present(d) => docs[d].owner = Leaver
  /\ \A x \in finished : exports[x].status \notin {"pending", "running"} /\ builds[x] = "none"
  /\ \A r \in Runner : Progress(runs[r])
  /\ account = "gone" => RowsGone /\ FilesGone /\ ArtifactsGone

\* Of what is to go, nothing comes back.
Shrinking ==
  /\ UNCHANGED finished /\ missed \subseteq missed'
  /\ \A d \in Doomed : /\ docs'[d].state \in {docs[d].state, "absent"}
                       /\ Keys(d) \cap objects' \subseteq objects
  /\ \A x \in finished : Artifact(x) \in objects' => Artifact(x) \in objects

LEMMA DoomedTypes ==
  ASSUME NEW d \in Doomed
  PROVE  /\ d \in Doc /\ Source(d) \in Keys(d)
         /\ Place[d] \in {"own", "guest"}
         /\ Place[d] = "own" => Uploader(d) = Leaver
  BY ErasureAssumption DEF Doomed, Keys, Source, Uploader, ErasureAssumption

LEMMA DeletedShrinks ==
  ASSUME NEW S, Deleted(S)
  PROVE  /\ objects' \subseteq objects /\ missed \subseteq missed'
         /\ \A k \in S : k \in objects' => k \in missed'
  BY DEF Deleted

LEMMA EraseOrThrowShrinks ==
  ASSUME NEW r, NEW S, NEW pc, EraseOrThrow(r, S, pc)
  PROVE  /\ objects' \subseteq objects
         /\ (GoTo(r, pc) /\ S \cap objects' = {}) \/ Throws(r)
  BY DEF EraseOrThrow

LEMMA RunShrinks ==
  ASSUME TypeInv, NEW r \in Runner, ClaimErasure(r) \/ erasureStep(r) \/ ErasureFails(r)
  PROVE  Shrinking
<1>. SUFFICES /\ UNCHANGED finished /\ missed \subseteq missed' /\ objects' \subseteq objects
              /\ \A d \in Doomed : docs'[d].state \in {docs[d].state, "absent"}
  BY DEF Shrinking
<1>. USE DEF data, work, people, history
<1>1. \A S \in SUBSET Doc, d \in Doomed : /\ WithoutRows(S)[d].state \in {docs[d].state, "absent"}
                                          /\ WithoutOwner(S)[d].state = docs[d].state
  <2>. SUFFICES ASSUME NEW S \in SUBSET Doc, NEW d \in Doomed
                PROVE  /\ WithoutRows(S)[d].state \in {docs[d].state, "absent"}
                       /\ WithoutOwner(S)[d].state = docs[d].state
    OBVIOUS
  <2>1. d \in Doc /\ docs[d] \in DocRow
    BY DEF TypeInv, Doomed
  <2>2. /\ WithoutRows(S)[d] = IF d \in S THEN [docs[d] EXCEPT !.state = "absent"] ELSE docs[d]
        /\ WithoutOwner(S)[d] = IF d \in S THEN [docs[d] EXCEPT !.owner = Nobody] ELSE docs[d]
    BY <2>1 DEF WithoutRows, WithoutOwner
  <2>. QED BY <2>1, <2>2 DEF DocRow
<1>2. runs[r].docs \in SUBSET Doc /\ Doc \in SUBSET Doc
  BY RunTypes DEF Run
<1>3. CASE ClaimErasure(r) \/ ErasureFails(r)
  BY <1>3 DEF ClaimErasure, ErasureFails
<1>4. CASE CollectDocuments(r) \/ ListOrphans(r) \/ enqueueStorageCleanup(r)
  BY <1>4 DEF CollectDocuments, ListOrphans, enqueueStorageCleanup
<1>5. CASE deleteUserExportArtifacts(r) \/ DeleteExportFiles(r)
  BY <1>5, EraseOrThrowShrinks DEF deleteUserExportArtifacts, DeleteExportFiles
<1>6. CASE deleteStorageFiles(r) \/ SweepOrphans(r)
  BY <1>6, DeletedShrinks DEF deleteStorageFiles, SweepOrphans
<1>7. CASE detachOrgProjectContent(r)
  BY <1>1, <1>7 DEF detachOrgProjectContent
<1>8. CASE DeleteRows(r)
  BY <1>1, <1>2, <1>8 DEF DeleteRows
<1>9. CASE deleteProjectsByIds(r)
  BY <1>1, <1>9 DEF deleteProjectsByIds
<1>10. CASE DeleteUser(r)
  BY <1>1, <1>2, <1>10 DEF DeleteUser
<1>11. CASE ReadOrganisation(r) \/ SettleOrganisation(r) \/ LeaveOrganisation(r) \/ PurgeRows(r) \/ Report(r)
  BY <1>11 DEF ReadOrganisation, SettleOrganisation, LeaveOrganisation, PurgeRows, Report
<1>. QED
  BY <1>3, <1>4, <1>5, <1>6, <1>7, <1>8, <1>9, <1>10, <1>11 DEF erasureStep

\* The workers, the cleanup and the people of the organisation.
Bystander ==
  \/ \E d \in Late : uploadStep(d)
  \/ StorageCleanup
  \/ \E x \in Export : exportStep(x)
  \/ \E m \in Person : AcceptInvitation(m) \/ ChangeRole(m) \/ RemoveMember(m) \/ AssignOwner(m)
  \/ UNCHANGED vars

LEMMA BystanderShrinks ==
  ASSUME TypeInv, ErasureInv, Bystander
  PROVE  /\ Shrinking /\ UNCHANGED <<account, job, runs>>
         /\ \A d \in Doomed : docs'[d] = docs[d]
         /\ \A x \in finished : exports'[x].status \notin {"pending", "running"} /\ builds'[x] = "none"
<1>. USE DEF data, work, people, history
<1>1. \A x \in finished : exports[x].status \notin {"pending", "running"} /\ builds[x] = "none"
  BY DEF ErasureInv
<1>2. /\ docs \in [Doc -> DocRow] /\ exports \in [Export -> ExportRow] /\ finished \subseteq Export
      /\ builds \in [Export -> {"none", "building", "uploaded"}]
  BY DEF TypeInv
<1>3. ASSUME NEW e \in Late, uploadStep(e)
      PROVE  /\ UNCHANGED <<account, job, runs, missed, finished, exports, builds>>
             /\ \A d \in Doomed : docs'[d] = docs[d] /\ Keys(d) \cap objects' \subseteq objects
             /\ \A x \in finished : Artifact(x) \in objects' => Artifact(x) \in objects
  <2>1. UNCHANGED <<account, job, runs, missed, finished, exports, builds>>
    BY <1>3 DEF uploadStep, StartUpload, CreateDocument, CopyFile, InsertVersion, Publish, UploadFails
  <2>2. e \in Doc /\ objects' \subseteq objects \cup Keys(e) /\ \A d \in Doc \ {e} : docs'[d] = docs[d]
    BY <1>2, <1>3, ErasureAssumption DEF uploadStep, StartUpload, CreateDocument, CopyFile, InsertVersion,
       Publish, UploadFails, WithoutRows, ErasureAssumption
  <2>. QED
    BY <1>2, <2>1, <2>2, KeysApart DEF Doomed
<1>4. CASE StorageCleanup
  BY <1>1, <1>4 DEF StorageCleanup, Shrinking
<1>5. ASSUME NEW y \in Export, exportStep(y)
      PROVE  /\ UNCHANGED <<account, job, runs, missed, finished, docs>>
             /\ \A d \in Doomed : Keys(d) \cap objects' \subseteq objects
             /\ \A x \in finished : Artifact(x) \in objects' => Artifact(x) \in objects
             /\ \A x \in finished : exports'[x].status \notin {"pending", "running"} /\ builds'[x] = "none"
  <2>1. /\ \A d \in Doomed : Artifact(y) \notin Keys(d)
        /\ \A x \in finished : Artifact(x) = Artifact(y) => x = y
    BY KeysApart DEF Artifact, Doomed
  <2>2. CASE RequestExport(y)
    BY <1>1, <2>2 DEF RequestExport, ErasureInv
  <2>3. CASE StartBuild(y)
    BY <1>1, <1>2, <2>3 DEF StartBuild
  <2>4. CASE UploadArtifact(y)
    BY <1>1, <1>2, <2>1, <2>4 DEF UploadArtifact
  <2>5. CASE BuildEnds(y) \/ BuildFails(y)
    BY <1>1, <1>2, <2>5 DEF BuildEnds, BuildFails, EndBuild
  <2>6. CASE RetentionSweep(y)
    BY <1>1, <1>2, <2>6 DEF RetentionSweep, ExportRow
  <2>. QED
    BY <1>5, <2>2, <2>3, <2>4, <2>5, <2>6 DEF exportStep
<1>6. ASSUME NEW m \in Person, AcceptInvitation(m) \/ ChangeRole(m) \/ RemoveMember(m) \/ AssignOwner(m)
      PROVE  UNCHANGED <<account, job, runs, data, work, history>>
  BY <1>6 DEF AcceptInvitation, ChangeRole, RemoveMember, AssignOwner, Unmoved
<1>. QED
  BY <1>1, <1>3, <1>4, <1>5, <1>6 DEF Bystander, Shrinking, vars

LEMMA ShrinkingKeeps ==
  ASSUME Shrinking
  PROVE  /\ RowsGone => RowsGone'
         /\ FilesGone => FilesGone'
         /\ ArtifactsGone => ArtifactsGone'
         /\ \A r \in Runner : Progress(runs[r]) /\ runs'[r] = runs[r] => Progress(runs[r])'
<1>1. /\ \A d \in Doomed : Present(d)' => Present(d)
      /\ \A d \in Doomed : Source(d) \in objects' => Source(d) \in objects
      /\ missed \subseteq missed' /\ finished' = finished
      /\ \A x \in finished : Artifact(x) \in objects' => Artifact(x) \in objects
  BY DoomedTypes DEF Shrinking, Present
<1>2. /\ RowsGone => RowsGone'
      /\ FilesGone => FilesGone'
      /\ ArtifactsGone => ArtifactsGone'
  BY <1>1 DEF RowsGone, FilesGone, ArtifactsGone
<1>3. ASSUME NEW r \in Runner, Progress(runs[r]), runs'[r] = runs[r]
      PROVE  Progress(runs[r])'
  BY <1>1, <1>2, <1>3 DEF Progress
<1>. QED BY <1>2, <1>3

\* The step that takes an execution to pc leaves what pc stands for.
LEMMA StepProgress ==
  ASSUME TypeInv, ErasureInv, NEW r \in Runner, erasureStep(r)
  PROVE  Progress(runs[r])'
<1>. DEFINE x == runs[r]
            y == runs'[r]
<1>1. x \in Run /\ y \in Run /\ runs \in [Runner -> Run] /\ Progress(x) /\ Shrinking
  BY RunTypes, RunFrame, RunShrinks DEF ErasureInv
<1>2. /\ RowsGone => RowsGone'
      /\ FilesGone => FilesGone'
      /\ ArtifactsGone => ArtifactsGone'
      /\ \A d \in Doomed : Present(d)' => Present(d)
      /\ \A d \in Doomed : Source(d) \in objects' => Source(d) \in objects
  BY <1>1, ShrinkingKeeps, DoomedTypes DEF Shrinking, Present
<1>3. ASSUME y.pc \in {"idle", "collect"}
      PROVE  Progress(runs[r])'
  BY <1>3 DEF Progress, AfterRows, AfterSweep, AfterArtifacts
<1>4. \A pc \in RunPc : GoTo(r, pc) => y = [x EXCEPT !.pc = pc]
  BY <1>1 DEF GoTo
<1>5. ASSUME Throws(r) \/ Over(r, "done")
      PROVE  Progress(runs[r])'
  BY <1>1, <1>3, <1>5 DEF Throws, Over, NoRun
\* Between the last rows and the report nothing is left to lose.
<1>6. ASSUME x.pc \in AfterSweep, y.pc \in AfterSweep
      PROVE  Progress(runs[r])'
  BY <1>1, <1>2, <1>6 DEF Progress, AfterRows, AfterSweep, AfterArtifacts
<1>7. ASSUME x.pc \in AfterRows, y.pc \in AfterRows \ ({"sweep"} \cup AfterSweep)
      PROVE  Progress(runs[r])'
  BY <1>1, <1>2, <1>7 DEF Progress, AfterRows, AfterSweep, AfterArtifacts
<1>. USE DEF At
<1>8. CASE CollectDocuments(r)
  <2>. DEFINE doomed == {d \in Candidates : Place[d] # "org"}
              known == {e \in doomed : HasVersion(e)}
  <2>1. y.pc = "artifacts" /\ y.docs = doomed /\ y.paths = UNION {Keys(d) : d \in known}
    BY <1>1, <1>8 DEF CollectDocuments, Run
  <2>2. UNCHANGED docs
    BY <1>8 DEF CollectDocuments, data
  <2>3. ASSUME NEW d \in Doomed
        PROVE  (Present(d) => d \in doomed) /\ (d \in doomed => d \in known)
    BY DoomedTypes, <2>3 DEF ErasureInv, Candidates, Present, HasVersion, Doomed
  <2>. HIDE DEF doomed, known
  <2>4. \A d \in Doomed : (Present(d)' => d \in y.docs) /\ (d \in y.docs => Keys(d) \subseteq y.paths)
    BY <2>1, <2>2, <2>3 DEF Present
  <2>. QED
    BY <2>1, <2>4 DEF Progress, AfterRows, AfterSweep, AfterArtifacts
<1>9. CASE deleteUserExportArtifacts(r)
  <2>1. CASE Throws(r)
    BY <1>5, <2>1
  <2>2. CASE GoTo(r, "detach") /\ {Artifact(e) : e \in Export} \cap objects' = {}
    <3>1. x.pc = "artifacts" /\ y.pc = "detach" /\ y.docs = x.docs /\ y.paths = x.paths
      BY <1>1, <1>4, <1>9, <2>2 DEF deleteUserExportArtifacts, Run, RunPc
    <3>2. ArtifactsGone'
      BY <1>1, <2>2 DEF ArtifactsGone, TypeInv, Shrinking
    <3>. QED
      BY <1>1, <1>2, <3>1, <3>2 DEF Progress, AfterRows, AfterSweep, AfterArtifacts
  <2>. QED
    BY <1>9, <2>1, <2>2, EraseOrThrowShrinks DEF deleteUserExportArtifacts
<1>10. CASE detachOrgProjectContent(r)
  <2>1. x.pc = "detach" /\ y.pc = "rows" /\ y.docs = x.docs /\ y.paths = x.paths
    BY <1>1, <1>4, <1>10 DEF detachOrgProjectContent, Run, RunPc
  <2>. QED
    BY <1>1, <1>2, <2>1 DEF Progress, AfterRows, AfterSweep, AfterArtifacts
<1>11. CASE DeleteRows(r)
  <2>1. x.pc = "rows" /\ y.pc = "projects" /\ docs' = WithoutRows(x.docs)
    BY <1>1, <1>11 DEF DeleteRows, Run
  <2>2. ASSUME NEW d \in Doomed, Present(d)'
        PROVE  FALSE
    <3>1. d \in x.docs
      BY <1>1, <1>2, <2>1, <2>2 DEF Progress
    <3>2. docs'[d].state = "absent"
      BY <2>1, <3>1, DoomedTypes DEF WithoutRows, TypeInv, DocRow
    <3>. QED BY <2>2, <3>2 DEF Present
  <2>3. RowsGone'
    BY <2>2 DEF RowsGone
  <2>. QED
    BY <1>1, <1>2, <2>1, <2>3 DEF Progress, AfterRows, AfterSweep, AfterArtifacts
<1>12. CASE deleteProjectsByIds(r) \/ enqueueStorageCleanup(r) \/ deleteStorageFiles(r)
  <2>1. x.pc \in {"projects", "enqueue", "bytes"} /\ y.pc \in {"enqueue", "bytes", "list"}
    BY <1>1, <1>12 DEF deleteProjectsByIds, enqueueStorageCleanup, deleteStorageFiles, Run
  <2>. QED
    BY <1>7, <2>1 DEF AfterRows, AfterSweep
<1>13. CASE ListOrphans(r)
  <2>. DEFINE unclaimed == {e \in Doc : Uploader(e) = Leaver /\ ~HasVersion(e)}
  <2>1. x.pc = "list" /\ y.pc = "sweep" /\ y.paths = {Source(e) : e \in unclaimed} \cap objects
        /\ UNCHANGED objects
    BY <1>1, <1>13 DEF ListOrphans, Run, Source, data
  <2>2. RowsGone /\ ArtifactsGone
    BY <1>1, <2>1 DEF Progress, AfterRows, AfterArtifacts
  <2>3. \A d \in Doomed : Place[d] = "own" => d \in unclaimed
    BY <2>2, DoomedTypes DEF RowsGone, Present, HasVersion
  <2>. HIDE DEF unclaimed
  <2>4. \A d \in Doomed : Place[d] = "own" /\ Source(d) \in objects' => Source(d) \in y.paths
    BY <2>1, <2>3
  <2>. QED
    BY <1>2, <2>1, <2>2, <2>4 DEF Progress, AfterRows, AfterSweep, AfterArtifacts
<1>14. CASE SweepOrphans(r)
  <2>1. x.pc = "sweep" /\ y.pc = "org" /\ Deleted(x.paths)
    BY <1>1, <1>14 DEF SweepOrphans, Run
  <2>2. \A k \in x.paths : k \in objects' => k \in missed'
    BY <2>1, DeletedShrinks
  <2>3. \A d \in Doomed : Place[d] = "own" /\ Source(d) \in objects => Source(d) \in x.paths
    BY <1>1, <2>1 DEF Progress
  <2>4. FilesGone'
    BY <1>2, <2>2, <2>3 DEF FilesGone
  <2>5. RowsGone /\ ArtifactsGone
    BY <1>1, <2>1 DEF Progress, AfterRows, AfterArtifacts
  <2>. QED
    BY <1>2, <2>1, <2>4, <2>5 DEF Progress, AfterRows, AfterSweep, AfterArtifacts
<1>15. CASE ReadOrganisation(r) \/ SettleOrganisation(r) \/ PurgeRows(r)
  <2>1. x.pc \in {"org", "settle", "purge"} /\ y.pc \in {"settle", "leave", "files", "auth"}
    BY <1>1, <1>4, <1>15 DEF ReadOrganisation, SettleOrganisation, PurgeRows, Run, RunPc
  <2>. QED BY <1>6, <2>1 DEF AfterSweep
<1>16. CASE LeaveOrganisation(r) \/ DeleteUser(r)
  <2>1. CASE Throws(r)
    BY <1>5, <2>1
  <2>2. CASE GoTo(r, "files") \/ GoTo(r, "report")
    <3>1. x.pc \in {"leave", "auth"} /\ y.pc \in {"files", "report"}
      BY <1>1, <1>4, <1>16, <2>2 DEF LeaveOrganisation, DeleteUser, Run, RunPc
    <3>. QED BY <1>6, <3>1 DEF AfterSweep
  <2>. QED BY <1>16, <2>1, <2>2 DEF LeaveOrganisation, DeleteUser
<1>17. CASE DeleteExportFiles(r)
  <2>1. CASE Throws(r)
    BY <1>5, <2>1
  <2>2. CASE GoTo(r, "purge")
    <3>1. x.pc = "files" /\ y.pc = "purge"
      BY <1>1, <1>4, <1>17, <2>2 DEF DeleteExportFiles, Run, RunPc
    <3>. QED BY <1>6, <3>1 DEF AfterSweep
  <2>. QED BY <1>17, <2>1, <2>2, EraseOrThrowShrinks DEF DeleteExportFiles
<1>18. CASE Report(r)
  BY <1>5, <1>18 DEF Report
<1>. QED
  BY <1>8, <1>9, <1>10, <1>11, <1>12, <1>13, <1>14, <1>15, <1>16, <1>17, <1>18 DEF erasureStep

\* An execution keeps the leaver's name on what is to go until the rows are
\* gone, and the exports that were over as they were.
LEMMA RunDocs ==
  ASSUME TypeInv, ErasureInv, NEW r \in Runner,
         ClaimErasure(r) \/ erasureStep(r) \/ ErasureFails(r)
  PROVE  /\ \A d \in Doomed : Present(d)' => docs'[d].owner = docs[d].owner
         /\ \A e \in finished : exports'[e].status \notin {"pending", "running"} /\ builds'[e] = "none"
<1>. USE DEF data, work, people, history, At
<1>1. /\ docs \in [Doc -> DocRow] /\ exports \in [Export -> ExportRow] /\ finished \subseteq Export
      /\ \A e \in finished : exports[e].status \notin {"pending", "running"} /\ builds[e] = "none"
  BY DEF TypeInv, ErasureInv
<1>2. UNCHANGED docs \/ DeleteRows(r) \/ deleteProjectsByIds(r) \/ detachOrgProjectContent(r) \/ DeleteUser(r)
  BY DEF erasureStep, ClaimErasure, ErasureFails, CollectDocuments, deleteUserExportArtifacts,
     enqueueStorageCleanup, deleteStorageFiles, ListOrphans, SweepOrphans, ReadOrganisation,
     SettleOrganisation, LeaveOrganisation, DeleteExportFiles, PurgeRows, Report
<1>3. ASSUME NEW d \in Doomed, Present(d)'
      PROVE  docs'[d].owner = docs[d].owner
  <2>1. d \in Doc /\ Place[d] # "org" /\ docs[d] \in DocRow
    BY <1>1 DEF Doomed
  <2>2. \A S : WithoutRows(S)[d].owner = docs[d].owner
    BY <2>1 DEF WithoutRows, DocRow
  <2>3. CASE detachOrgProjectContent(r)
    BY <2>1, <2>3 DEF detachOrgProjectContent, WithoutOwner
  <2>4. CASE DeleteUser(r)
    <3>1. ~Present(d)
      BY <2>4 DEF DeleteUser, ErasureInv, Progress, AfterRows, AfterSweep, RowsGone
    <3>2. docs'[d].state = docs[d].state
      BY <2>1, <2>4 DEF DeleteUser, WithoutOwner, DocRow
    <3>. QED BY <1>3, <3>1, <3>2 DEF Present
  <2>. QED
    BY <1>2, <2>2, <2>3, <2>4 DEF DeleteRows, deleteProjectsByIds
<1>4. UNCHANGED builds /\ (UNCHANGED exports \/ PurgeRows(r))
  BY DEF erasureStep, ClaimErasure, ErasureFails, CollectDocuments, deleteUserExportArtifacts,
     detachOrgProjectContent, DeleteRows, deleteProjectsByIds, enqueueStorageCleanup,
     deleteStorageFiles, ListOrphans, SweepOrphans, ReadOrganisation, SettleOrganisation,
     LeaveOrganisation, DeleteExportFiles, PurgeRows, DeleteUser, Report
<1>5. ASSUME NEW e \in finished, PurgeRows(r)
      PROVE  exports'[e].status \notin {"pending", "running"}
  BY <1>1, <1>5 DEF PurgeRows, ExportRow
<1>. QED BY <1>1, <1>3, <1>4, <1>5

LEMMA NextErasure ==
  ASSUME TypeInv, ErasureInv, [Next]_vars
  PROVE  ErasureInv'
<1>1. /\ account = "open" => /\ job.status = "none" /\ finished = {}
                             /\ \A r \in Runner : runs[r].pc = "idle"
      /\ \A d \in Doomed : /\ docs[d].state \in {"ready", "absent"}
                           /\ Place[d] = "own" /\ Present(d) => docs[d].owner = Leaver
      /\ \A x \in finished : exports[x].status \notin {"pending", "running"} /\ builds[x] = "none"
      /\ \A r \in Runner : Progress(runs[r])
      /\ account = "gone" => RowsGone /\ FilesGone /\ ArtifactsGone
  BY DEF ErasureInv
<1>2. CASE DeleteAccount
  <2>1. /\ account = "open" /\ account' = "closing" /\ UNCHANGED <<runs, docs, exports, builds>>
        /\ \A x \in finished' : exports[x].status \notin {"pending", "running"} /\ builds[x] = "none"
    BY <1>2 DEF DeleteAccount, data, work
  <2>2. \A r \in Runner : Progress(runs[r])'
    BY <1>1, <2>1 DEF Progress, AfterRows, AfterSweep, AfterArtifacts
  <2>. QED BY <1>1, <2>1, <2>2 DEF ErasureInv, Present
<1>3. ASSUME NEW r \in Runner, ClaimErasure(r) \/ erasureStep(r) \/ ErasureFails(r)
      PROVE  ErasureInv'
  <2>. USE DEF At, data, work, people, history
  <2>1. account # "open"
    BY <1>1, <1>3 DEF ClaimErasure, ErasureFails, erasureStep, CollectDocuments,
       deleteUserExportArtifacts, detachOrgProjectContent, DeleteRows, deleteProjectsByIds,
       enqueueStorageCleanup, deleteStorageFiles, ListOrphans, SweepOrphans, ReadOrganisation,
       SettleOrganisation, LeaveOrganisation, DeleteExportFiles, PurgeRows, DeleteUser, Report
  <2>2. UNCHANGED account \/ (DeleteUser(r) /\ account' = "gone")
    BY <1>3 DEF ClaimErasure, ErasureFails, erasureStep, CollectDocuments,
       deleteUserExportArtifacts, detachOrgProjectContent, DeleteRows, deleteProjectsByIds,
       enqueueStorageCleanup, deleteStorageFiles, ListOrphans, SweepOrphans, ReadOrganisation,
       SettleOrganisation, LeaveOrganisation, DeleteExportFiles, PurgeRows, DeleteUser, Report
  <2>3. /\ Shrinking /\ finished' = finished
        /\ RowsGone => RowsGone'
        /\ FilesGone => FilesGone'
        /\ ArtifactsGone => ArtifactsGone'
    BY <1>3, RunShrinks, ShrinkingKeeps DEF Shrinking
  <2>4. \A q \in Runner \ {r} : Progress(runs[q])'
    BY <1>1, <1>3, <2>3, RunFrame, ShrinkingKeeps
  <2>5. Progress(runs[r])'
    <3>1. CASE erasureStep(r)
      BY <3>1, StepProgress
    <3>2. CASE runs'[r].pc \in {"idle", "collect"}
      BY <3>2 DEF Progress, AfterRows, AfterSweep, AfterArtifacts
    <3>3. CASE UNCHANGED runs
      BY <1>1, <2>3, <3>3, ShrinkingKeeps
    <3>4. ASSUME ClaimErasure(r) \/ ErasureFails(r)
          PROVE  UNCHANGED runs \/ runs'[r].pc \in {"idle", "collect"}
      <4>1. \A z : runs' = [runs EXCEPT ![r] = z] => runs'[r] = z
        BY DEF TypeInv
      <4>2. NoRun.pc = "idle" /\ [NoRun EXCEPT !.pc = "collect", !.attempt = job.attempts + 1].pc = "collect"
        BY DEF NoRun
      <4>. QED
        BY <3>4, <4>1, <4>2 DEF ClaimErasure, ErasureFails, Throws, Over
    <3>. QED BY <1>3, <3>1, <3>2, <3>3, <3>4
  <2>6. \A d \in Doomed : /\ docs'[d].state \in {"ready", "absent"}
                          /\ Place[d] = "own" /\ Present(d)' => docs'[d].owner = Leaver
    BY <1>1, <1>3, <2>3, RunDocs DEF Shrinking, Present
  <2>7. \A x \in finished' : exports'[x].status \notin {"pending", "running"} /\ builds'[x] = "none"
    BY <1>3, <2>3, RunDocs
  <2>8. account' = "gone" => RowsGone' /\ FilesGone' /\ ArtifactsGone'
    BY <1>1, <2>2, <2>3 DEF DeleteUser, Progress, AfterRows, AfterSweep, AfterArtifacts
  <2>9. account' # "open" /\ \A q \in Runner : Progress(runs[q])'
    BY <2>1, <2>2, <2>4, <2>5
  <2>. QED
    BY <2>6, <2>7, <2>8, <2>9 DEF ErasureInv
<1>4. CASE Bystander
  <2>1. /\ Shrinking /\ finished' = finished /\ UNCHANGED <<account, job, runs>>
        /\ \A d \in Doomed : docs'[d] = docs[d]
        /\ \A x \in finished : exports'[x].status \notin {"pending", "running"} /\ builds'[x] = "none"
    BY <1>4, BystanderShrinks DEF Shrinking
  <2>. QED BY <1>1, <2>1, ShrinkingKeeps DEF ErasureInv, Present
<1>. QED
  BY <1>2, <1>3, <1>4 DEF Next, Bystander, Person

LEMMA InitErasure == Init => ErasureInv
<1>. SUFFICES ASSUME Init PROVE ErasureInv
  OBVIOUS
<1>1. \A r \in Runner : Progress(runs[r])
  BY DEF Init, NoRun, Progress, AfterRows, AfterSweep, AfterArtifacts
<1>2. \A d \in Doomed : /\ docs[d].state \in {"ready", "absent"}
                        /\ Place[d] = "own" /\ Present(d) => docs[d].owner = Leaver
  BY DoomedTypes DEF Init, Doomed
<1>3. /\ account = "open" /\ job.status = "none" /\ finished = {}
      /\ \A r \in Runner : runs[r].pc = "idle"
  BY DEF Init, NoRun
<1>. QED BY <1>1, <1>2, <1>3 DEF ErasureInv

---------------------------------------------------------------------------
(* Without a fault the bytes go too *)

Holding == {"artifacts", "detach", "rows", "projects", "enqueue", "bytes"}
BytesGone == \A d \in Doomed : Keys(d) \cap objects = {}

\* There is then one execution at a time, the owner of the job; and what has
\* lost its row is in the memory of the execution that is to delete it.
BytesInv ==
  spent.faulty = FALSE =>
    /\ \A r \in Runner : runs[r].pc # "idle" => Owns(r)
    /\ \A r, s \in Runner : runs[r].pc # "idle" /\ runs[s].pc # "idle" => r = s
    /\ \A d \in Doomed :
         \/ Present(d)
         \/ Keys(d) \cap objects = {}
         \/ \E r \in Runner : runs[r].pc \in Holding /\ Keys(d) \subseteq runs[r].paths
    /\ account = "gone" => BytesGone

\* A fault is not forgotten, and a step that spends nothing is none.
LEMMA FaultStays ==
  ASSUME TypeInv, [Next]_vars, spent'.faulty = FALSE
  PROVE  spent.faulty = FALSE /\ ~Fault
<1>1. ~Fault
  BY DEF Fault
<1>2. UNCHANGED spent \/ Change \/ Fault
  <2>. USE DEF data, work, people, history
  <2>1. ASSUME NEW r \in Runner, ClaimErasure(r) \/ erasureStep(r) \/ ErasureFails(r)
        PROVE  UNCHANGED spent \/ Fault
    BY <2>1 DEF ClaimErasure, ErasureFails, erasureStep, CollectDocuments, EraseOrThrow, Deleted,
       deleteUserExportArtifacts, detachOrgProjectContent, DeleteRows, deleteProjectsByIds,
       enqueueStorageCleanup, deleteStorageFiles, ListOrphans, SweepOrphans, ReadOrganisation,
       SettleOrganisation, LeaveOrganisation, DeleteExportFiles, PurgeRows, DeleteUser, Report
  <2>2. ASSUME NEW d \in Late, uploadStep(d)
        PROVE  UNCHANGED spent \/ Fault
    BY <2>2 DEF uploadStep, StartUpload, CreateDocument, CopyFile, InsertVersion, Publish, UploadFails
  <2>3. ASSUME NEW x \in Export, exportStep(x)
        PROVE  UNCHANGED spent \/ Fault
    BY <2>3 DEF exportStep, RequestExport, StartBuild, UploadArtifact, BuildEnds, BuildFails,
       EndBuild, RetentionSweep
  <2>4. ASSUME NEW m \in Person, AcceptInvitation(m) \/ ChangeRole(m) \/ RemoveMember(m) \/ AssignOwner(m)
        PROVE  Change
    BY <2>4 DEF AcceptInvitation, ChangeRole, RemoveMember, AssignOwner
  <2>5. CASE DeleteAccount \/ StorageCleanup \/ UNCHANGED vars
    BY <2>5 DEF DeleteAccount, StorageCleanup, vars
  <2>. QED
    BY <2>1, <2>2, <2>3, <2>4, <2>5 DEF Next, Person
<1>. QED
  BY <1>1, <1>2 DEF Change, TypeInv, Events

\* Where a step of an execution that meets no fault leaves it: at its end, or
\* still the owner of the job, with its paths until it has deleted them.
LEMMA StepMoves ==
  ASSUME TypeInv, NEW r \in Runner, erasureStep(r), ~Fault
  PROVE  /\ runs[r].pc # "idle"
         /\ runs'[r].pc = "idle" \/ (UNCHANGED job /\ runs'[r].attempt = runs[r].attempt)
         /\ runs[r].pc \in Holding =>
              \/ runs'[r].pc \in Holding /\ runs'[r].paths = runs[r].paths
              \/ objects' = objects \ runs[r].paths
<1>. DEFINE x == runs[r]
            y == runs'[r]
<1>. USE DEF At, data, work, people, history
<1>1. runs \in [Runner -> Run] /\ x \in Run
  BY RunTypes
<1>2. ASSUME NEW pc \in RunPc, GoTo(r, pc)
      PROVE  y.pc = pc /\ y.attempt = x.attempt /\ y.paths = x.paths
  BY <1>1, <1>2 DEF GoTo, Run
<1>3. Throws(r) \/ Over(r, "done") => y.pc = "idle"
  BY <1>1 DEF Throws, Over, NoRun
<1>4. CASE CollectDocuments(r)
  BY <1>1, <1>4 DEF CollectDocuments, Run, Holding
<1>5. CASE deleteUserExportArtifacts(r)
  BY <1>2, <1>5 DEF deleteUserExportArtifacts, EraseOrThrow, Holding, RunPc
<1>6. CASE detachOrgProjectContent(r)
  BY <1>2, <1>6 DEF detachOrgProjectContent, Holding, RunPc
<1>7. CASE DeleteRows(r) \/ deleteProjectsByIds(r) \/ enqueueStorageCleanup(r)
  BY <1>1, <1>7 DEF DeleteRows, deleteProjectsByIds, enqueueStorageCleanup, Run, Holding
<1>8. CASE deleteStorageFiles(r)
  BY <1>1, <1>8 DEF deleteStorageFiles, Deleted, Run, Holding
<1>9. CASE ListOrphans(r) \/ SweepOrphans(r)
  BY <1>1, <1>9 DEF ListOrphans, SweepOrphans, Run, Holding
<1>10. CASE ReadOrganisation(r)
  BY <1>1, <1>2, <1>10 DEF ReadOrganisation, Run, RunPc, Holding
<1>11. CASE SettleOrganisation(r)
  BY <1>1, <1>2, <1>11 DEF SettleOrganisation, Run, RunPc, Holding
<1>12. CASE LeaveOrganisation(r) \/ DeleteUser(r)
  BY <1>2, <1>3, <1>12 DEF LeaveOrganisation, DeleteUser, RunPc, Holding
<1>13. CASE DeleteExportFiles(r)
  BY <1>2, <1>13 DEF DeleteExportFiles, EraseOrThrow, RunPc, Holding
<1>14. CASE PurgeRows(r)
  BY <1>2, <1>14 DEF PurgeRows, RunPc, Holding
<1>15. CASE Report(r)
  BY <1>3, <1>15 DEF Report, Holding
<1>. QED
  BY <1>4, <1>5, <1>6, <1>7, <1>8, <1>9, <1>10, <1>11, <1>12, <1>13, <1>14, <1>15 DEF erasureStep

\* Rows of what is to go are deleted by the execution that has their paths.
LEMMA StepDrops ==
  ASSUME TypeInv, ErasureInv, NEW r \in Runner, erasureStep(r),
         NEW d \in Doomed, Present(d), ~Present(d)'
  PROVE  runs'[r].pc \in Holding /\ Keys(d) \subseteq runs'[r].paths
<1>. USE DEF At, data, work, people, history
<1>1. d \in Doc /\ docs \in [Doc -> DocRow] /\ runs \in [Runner -> Run] /\ runs[r] \in Run
      /\ Progress(runs[r])
  BY RunTypes, DoomedTypes DEF TypeInv, ErasureInv
<1>2. UNCHANGED docs \/ DeleteRows(r) \/ deleteProjectsByIds(r) \/ (\E S : docs' = WithoutOwner(S))
  BY DEF erasureStep, CollectDocuments, deleteUserExportArtifacts, detachOrgProjectContent,
     enqueueStorageCleanup, deleteStorageFiles, ListOrphans, SweepOrphans, ReadOrganisation,
     SettleOrganisation, LeaveOrganisation, DeleteExportFiles, PurgeRows, DeleteUser, Report
<1>3. \A S : WithoutOwner(S)[d].state = docs[d].state
  BY <1>1 DEF WithoutOwner, DocRow
<1>4. CASE DeleteRows(r)
  <2>1. runs[r].pc = "rows" /\ runs'[r].pc = "projects" /\ runs'[r].paths = runs[r].paths
    BY <1>1, <1>4 DEF DeleteRows, Run
  <2>. QED BY <1>1, <2>1 DEF Progress, Holding
<1>5. CASE deleteProjectsByIds(r)
  BY <1>1, <1>5 DEF deleteProjectsByIds, Progress, AfterRows, RowsGone
<1>. QED
  BY <1>2, <1>3, <1>4, <1>5 DEF Present

LEMMA NextBytes ==
  ASSUME TypeInv, ErasureInv, BytesInv, [Next]_vars
  PROVE  BytesInv'
<1>. SUFFICES ASSUME spent'.faulty = FALSE
              PROVE  /\ \A r \in Runner : runs'[r].pc # "idle" => Owns(r)'
                     /\ \A r, s \in Runner : runs'[r].pc # "idle" /\ runs'[s].pc # "idle" => r = s
                     /\ \A d \in Doomed :
                          \/ Present(d)'
                          \/ Keys(d) \cap objects' = {}
                          \/ \E r \in Runner : runs'[r].pc \in Holding /\ Keys(d) \subseteq runs'[r].paths
                     /\ account' = "gone" => BytesGone'
  BY DEF BytesInv
<1>1. /\ ~Fault
      /\ \A r \in Runner : runs[r].pc # "idle" => Owns(r)
      /\ \A r, s \in Runner : runs[r].pc # "idle" /\ runs[s].pc # "idle" => r = s
      /\ \A d \in Doomed :
           \/ Present(d)
           \/ Keys(d) \cap objects = {}
           \/ \E r \in Runner : runs[r].pc \in Holding /\ Keys(d) \subseteq runs[r].paths
      /\ account = "gone" => BytesGone
  BY FaultStays DEF BytesInv
<1>2. runs \in [Runner -> Run] /\ "idle" \notin Holding
  BY DEF TypeInv, Holding
<1>3. ASSUME \A r \in Runner : runs[r].pc = "idle"
      PROVE  \A d \in Doomed : Present(d) \/ Keys(d) \cap objects = {}
  BY <1>1, <1>2, <1>3
<1>4. CASE DeleteAccount
  <2>1. /\ \A r \in Runner : runs[r].pc = "idle"
        /\ account' = "closing" /\ UNCHANGED <<runs, docs, objects>>
    BY <1>4 DEF DeleteAccount, ErasureInv, data
  <2>. QED BY <1>3, <2>1 DEF Present
<1>5. CASE Bystander
  <2>1. /\ UNCHANGED <<account, job, runs>>
        /\ \A d \in Doomed : docs'[d] = docs[d] /\ Keys(d) \cap objects' \subseteq objects
    BY <1>5, BystanderShrinks DEF Shrinking
  <2>. QED BY <1>1, <2>1 DEF Present, BytesGone, Owns
<1>6. ASSUME NEW r \in Runner, ClaimErasure(r)
      PROVE  /\ \A q \in Runner : runs'[q].pc # "idle" => Owns(q)'
             /\ \A q, s \in Runner : runs'[q].pc # "idle" /\ runs'[s].pc # "idle" => q = s
             /\ \A d \in Doomed : Present(d)' \/ Keys(d) \cap objects' = {}
             /\ account' = "gone" => BytesGone'
  <2>1. UNCHANGED <<account, docs, objects>> /\ (job.status = "pending" \/ Lost)
    BY <1>1, <1>6 DEF ClaimErasure, data
  <2>2. \A q \in Runner : runs[q].pc = "idle"
    BY <1>1, <2>1 DEF Lost, Owns
  <2>3. /\ \A q \in Runner \ {r} : runs'[q].pc = "idle"
        /\ runs'[r].pc = "idle" \/ (job'.status = "running" /\ job'.attempts = runs'[r].attempt)
    <3>1. \A z : runs' = [runs EXCEPT ![r] = z] => runs'[r] = z
      BY <1>2
    <3>. DEFINE new == [NoRun EXCEPT !.pc = "collect", !.attempt = job.attempts + 1]
    <3>2. new.attempt = job.attempts + 1
      BY DEF NoRun
    <3>3. \/ UNCHANGED runs
          \/ job' = [status |-> "running", attempts |-> job.attempts + 1] /\ runs' = [runs EXCEPT ![r] = new]
      BY <1>6 DEF ClaimErasure
    <3>. HIDE DEF new
    <3>4. UNCHANGED runs \/ (job'.status = "running" /\ job'.attempts = runs'[r].attempt)
      BY <3>1, <3>2, <3>3
    <3>. QED BY <1>6, <2>2, <3>4, RunFrame
  <2>. QED BY <1>1, <1>3, <2>1, <2>2, <2>3 DEF Owns, Present, BytesGone
<1>7. ASSUME NEW r \in Runner, erasureStep(r)
      PROVE  /\ \A q \in Runner : runs'[q].pc # "idle" => Owns(q)'
             /\ \A q, s \in Runner : runs'[q].pc # "idle" /\ runs'[s].pc # "idle" => q = s
             /\ \A d \in Doomed :
                  \/ Present(d)'
                  \/ Keys(d) \cap objects' = {}
                  \/ \E q \in Runner : runs'[q].pc \in Holding /\ Keys(d) \subseteq runs'[q].paths
             /\ account' = "gone" => BytesGone'
  <2>1. /\ runs[r].pc # "idle"
        /\ runs'[r].pc = "idle" \/ (UNCHANGED job /\ runs'[r].attempt = runs[r].attempt)
        /\ runs[r].pc \in Holding =>
              \/ runs'[r].pc \in Holding /\ runs'[r].paths = runs[r].paths
              \/ objects' = objects \ runs[r].paths
    BY <1>1, <1>7, StepMoves
  <2>2. \A q \in Runner \ {r} : runs[q].pc = "idle" /\ runs'[q].pc = "idle"
    BY <1>1, <1>7, <2>1, RunFrame
  <2>3. Owns(r) /\ (runs'[r].pc # "idle" => Owns(r)')
    BY <1>1, <2>1 DEF Owns
  <2>4. \A d \in Doomed : Keys(d) \cap objects' \subseteq objects
    BY <1>7, RunShrinks DEF Shrinking
  <2>5. ASSUME NEW d \in Doomed
        PROVE  \/ Present(d)'
               \/ Keys(d) \cap objects' = {}
               \/ \E q \in Runner : runs'[q].pc \in Holding /\ Keys(d) \subseteq runs'[q].paths
    <3>1. CASE Present(d)
      BY <1>7, <3>1, StepDrops
    <3>2. CASE Keys(d) \cap objects = {}
      BY <2>4, <3>2
    <3>3. ASSUME NEW q \in Runner, runs[q].pc \in Holding, Keys(d) \subseteq runs[q].paths
          PROVE  \/ Keys(d) \cap objects' = {}
                 \/ runs'[r].pc \in Holding /\ Keys(d) \subseteq runs'[r].paths
      <4>1. q = r
        BY <1>2, <2>2, <3>3
      <4>. QED BY <2>1, <3>3, <4>1
    <3>. QED BY <1>1, <3>1, <3>2, <3>3
  <2>6. ASSUME account' = "gone"
        PROVE  BytesGone'
    <3>1. CASE account = "gone"
      BY <1>1, <2>4, <3>1 DEF BytesGone
    <3>2. CASE DeleteUser(r)
      <4>1. runs[r].pc = "auth" /\ UNCHANGED objects /\ RowsGone
        BY <3>2 DEF DeleteUser, At, ErasureInv, Progress, AfterRows, AfterSweep
      <4>2. \A q \in Runner : runs[q].pc \notin Holding
        BY <1>2, <2>2, <4>1 DEF Holding
      <4>. QED BY <1>1, <4>1, <4>2 DEF RowsGone, BytesGone
    <3>3. DeleteUser(r) \/ UNCHANGED account
      BY <1>7 DEF erasureStep, CollectDocuments, deleteUserExportArtifacts,
         detachOrgProjectContent, DeleteRows, deleteProjectsByIds, enqueueStorageCleanup,
         deleteStorageFiles, ListOrphans, SweepOrphans, ReadOrganisation, SettleOrganisation,
         LeaveOrganisation, DeleteExportFiles, PurgeRows, Report
    <3>. QED BY <2>6, <3>1, <3>2, <3>3
  <2>. QED BY <2>2, <2>3, <2>5, <2>6
<1>8. ASSUME NEW r \in Runner, ErasureFails(r)
      PROVE  FALSE
  BY <1>1, <1>8 DEF ErasureFails
<1>. QED
  BY <1>4, <1>5, <1>6, <1>7, <1>8 DEF Next, Bystander, Person

\* Once the auth user is gone, so is every row of what was to go, whatever
\* failed, crashed or ran twice; each file under the leaver's prefix has gone
\* too or is one storage refused to delete; and without a fault all bytes have.
\* Nor is an export's artifact left that was over when the deletion was asked
\* for: no later build stores it again, and the execution that deletes the auth
\* user has deleted it, whichever attempt it is.
THEOREM ErasureCorrect == Spec => []ErasureIsThorough
<1>1. Init => TypeInv /\ ErasureInv /\ BytesInv
  <2>1. Init => BytesInv
    <3>. SUFFICES ASSUME Init PROVE BytesInv
      OBVIOUS
    <3>1. /\ \A r \in Runner : runs[r].pc = "idle"
          /\ account # "gone"
      BY DEF Init, NoRun
    <3>2. \A d \in Doomed : Present(d)
      BY DEF Init, Present, Doomed
    <3>. QED BY <3>1, <3>2 DEF BytesInv
  <2>. QED BY <2>1, InitTypes, InitErasure
<1>2. TypeInv /\ ErasureInv /\ BytesInv /\ [Next]_vars => (TypeInv /\ ErasureInv /\ BytesInv)'
  BY NextTypes, NextErasure, NextBytes
<1>3. TypeInv /\ ErasureInv /\ BytesInv => ErasureIsThorough
  <2>. SUFFICES ASSUME TypeInv, ErasureInv, BytesInv, account = "gone"
                PROVE  /\ \A d \in Doc \ Late : Place[d] # "org" =>
                            /\ ~Present(d)
                            /\ ~spent.faulty => Keys(d) \cap objects = {}
                            /\ Place[d] = "own" /\ Source(d) \in objects => Source(d) \in missed
                       /\ ArtifactsGone
    BY DEF ErasureIsThorough, Source, ArtifactsGone
  <2>1. ASSUME NEW d \in Doc \ Late, Place[d] # "org"
        PROVE  /\ ~Present(d)
               /\ ~spent.faulty => Keys(d) \cap objects = {}
               /\ Place[d] = "own" /\ Source(d) \in objects => Source(d) \in missed
    <3>1. d \in Doomed
      BY <2>1 DEF Doomed
    <3>2. ~Present(d) /\ (Place[d] = "own" /\ Source(d) \in objects => Source(d) \in missed)
      BY <3>1 DEF ErasureInv, RowsGone, FilesGone
    <3>3. ~spent.faulty => Keys(d) \cap objects = {}
      BY <3>1 DEF BytesInv, BytesGone, TypeInv, Events
    <3>. QED BY <3>2, <3>3
  <2>2. ArtifactsGone
    BY DEF ErasureInv
  <2>. QED BY <2>1, <2>2
<1>. QED
  BY <1>1, <1>2, <1>3, PTL DEF Spec
=============================================================================
