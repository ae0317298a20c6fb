------------------------- MODULE MCAttentionRouting -------------------------
(* A small instance of AttentionRouting for TLC. *)
EXTENDS AttentionRouting, TLC

Reports ==
  {r \in [overall : {"none", "FAILED", "PASSED"}, flaky : BOOLEAN, own : BOOLEAN] :
     r.overall = "none" => ~ r.flaky /\ ~ r.own}

\* A small and a large change.
Sizes ==
  {[files |-> 1, critical |-> 0, secrets |-> FALSE, lines |-> 1, steps |-> 0],
   [files |-> 10, critical |-> 10, secrets |-> TRUE, lines |-> 500, steps |-> 20]}

Histories ==
  {[retries |-> 0, seen |-> 0], [retries |-> 0, seen |-> 3], [retries |-> 3, seen |-> 3]}

SomeEvidence == {r @@ s @@ h : r \in Reports, s \in Sizes, h \in Histories}

\* No definition names a particular task.
Symmetry == Permutations(Tasks)
=============================================================================
