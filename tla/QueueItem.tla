----------------------------- MODULE QueueItem -----------------------------
(***************************************************************************)
(* What the review queue promises of each item: it is opened once, held    *)
(* and given back any number of times, and closed once, for good.          *)
(***************************************************************************)
CONSTANT Rows

VARIABLE phase   \* row -> "absent", "open", "held" or "closed"

Init == phase = [q \in Rows |-> "absent"]

Becomes(q, from, to) == phase[q] = from /\ phase' = [phase EXCEPT ![q] = to]

Next ==
  \E q \in Rows :
    \/ Becomes(q, "absent", "open")
    \/ Becomes(q, "open", "held")
    \/ Becomes(q, "held", "open")
    \/ Becomes(q, "open", "closed")
    \/ Becomes(q, "held", "closed")

Spec == Init /\ [][Next]_phase
=============================================================================
