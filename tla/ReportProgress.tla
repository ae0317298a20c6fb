--------------------------- MODULE ReportProgress ---------------------------
(***************************************************************************)
(* What a client polling a review report may see: the stages of one review *)
(* in their order, an end in complete or error, and a new review of the    *)
(* report only after an error; unless somebody has reset a report that was *)
(* not in error: then two reviews write it, and anything may be seen.      *)
(***************************************************************************)
VARIABLES status, contested

Stages == {"pending", "fetching", "recalling", "reviewing", "storing"}

\* The stages in their order; a review may end in error at any of them.
Follows ==
  {<<"pending", "fetching">>, <<"fetching", "recalling">>, <<"recalling", "reviewing">>,
   <<"reviewing", "storing">>, <<"storing", "complete">>, <<"error", "pending">>}
  \cup (Stages \X {"error"})

Init == status = "pending" /\ contested = FALSE

Move == \E s \in Stages \cup {"complete", "error"} :
  <<status, s>> \in Follows /\ status' = s /\ contested' = contested

\* A retry resets what another retry has already handed to a review.
Contest == status # "error" /\ status' = "pending" /\ contested' = TRUE

Next == Move \/ Contest \/ (contested /\ contested' = TRUE)

Spec == Init /\ [][Next]_<<status, contested>>
=============================================================================
