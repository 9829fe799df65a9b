-------------------------- MODULE MCAccountErasure --------------------------
(* Instances of AccountErasure for TLC. *)
EXTENDS AccountErasure, TLC

CONSTANTS d1, d2, d3, m1, x1, r1, r2

\* A document of each place; the colleague's is still being uploaded.
Places == (d1 :> "own") @@ (d2 :> "org") @@ (d3 :> "guest")

\* Processes differ only in their names: of two idle ones the first is taken.
FirstFirst ==
  runs[r1].pc = "idle" /\ runs[r2].pc = "idle" => runs'[r2].pc = "idle"

\* An export is built or an upload processed, not both: they share no row.
OneAtWork == exports[x1].status = "none" \/ uploads[d3].pc = "queued"

ErasureSpec == Init /\ [][Next /\ FirstFirst /\ OneAtWork']_vars /\ Fairness

\* One document, in a project of the organisation.
OrgPlace == d2 :> "org"
=============================================================================
