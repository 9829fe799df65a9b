------------------------ MODULE MCDocumentVersions ------------------------
(* Instances of DocumentVersions for TLC. *)
EXTENDS DocumentVersions, TLC

CONSTANTS v1, v2, v3, e1, e2, r1, r2

Symmetry == Permutations(Request) \cup Permutations(Edit) \cup Permutations(Version \ {First})

\* Of the behaviours in which requests run side by side, those with two edits
\* on two versions and those with one edit on three; of the others, all.
Together ==
  overlapped => \/ \E v \in Version : Unused(v)
                \/ \E e \in Edit : /\ edits[e].status = "none"
                                   /\ \A r \in Request : requests[r].edit # e

TogetherSpec == Init /\ [][Next /\ Together']_vars
=============================================================================
