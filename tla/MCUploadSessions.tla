-------------------------- MODULE MCUploadSessions --------------------------
(* Instances of UploadSessions for TLC. *)
EXTENDS UploadSessions, TLC

CONSTANTS r1, r2, w1, w2

\* Requests differ only in their names, and so do workers: taking them in one
\* order loses nothing, and unlike a symmetry set it is sound for liveness.
\* New versions are uploaded with one completion request, and objects of the
\* wrong size or type come with new versions.  A request, which does not look
\* at running jobs, is not in the middle of things when the sweep fails one.
InOrder ==
  /\ \A f \in File : <<"misfit", f>> \in objects => PurposeOf(f) = "document_version_create"
  /\ sweep.pc \in {"fail job", "fail file"} => \A r \in Request : requests[r].pc \in {"idle", "over"}
  /\ requests[r2].pc # "idle" =>
       /\ requests[r1].pc # "idle"
       /\ \A s \in Session : sessions[s].purpose \in {"none", "document_create"}
  /\ workers[w2].pc # "idle" =>
       \E f \in File : jobs[f].attempts > 1 \/ workers[w1].f # Null

FileSpec == Init /\ [][Next /\ InOrder']_vars /\ Fairness
=============================================================================
