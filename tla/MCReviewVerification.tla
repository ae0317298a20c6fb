------------------------- MODULE MCReviewVerification -------------------------
(* Small instances of ReviewVerification for TLC. *)
EXTENDS ReviewVerification, TLC
=============================================================================
