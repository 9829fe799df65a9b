------------------------ MODULE MCTabularGeneration ------------------------
(* Instances of TabularGeneration for TLC. *)
EXTENDS TabularGeneration, TLC

CONSTANTS r1, r2, c1, c2, g1, g2, g3

\* Requests differ only in their names until they take the lease.
Symmetry == Permutations(Gen) \cup Permutations(Row) \cup Permutations(Col)
=============================================================================
