------------------------ MODULE MCAttentionPipeline ------------------------
(* Small instances of AttentionPipeline for TLC. *)
EXTENDS AttentionPipeline, TLC

Symmetry == Permutations(Rows) \cup Permutations(Reviewers)
=============================================================================
