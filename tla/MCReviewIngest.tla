--------------------------- MODULE MCReviewIngest ---------------------------
(* Small instances of ReviewIngest for TLC. *)
EXTENDS ReviewIngest, TLC

Symmetry == Permutations(Retriers)
=============================================================================
