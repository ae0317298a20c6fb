-------------------------- MODULE MCTaskLifecycle --------------------------
(* Small instances of TaskLifecycle for TLC. *)
EXTENDS TaskLifecycle, TLC

\* The rework loop, with cancellation at every turn.
ReworkScope == {"PENDING", "QUEUED", "EXECUTING", "VERIFYING", "REWORK", "CANCELLED"}

Symmetry == Permutations(Callers)
=============================================================================
