-------------------------- MODULE TaskStateMachine --------------------------
(***************************************************************************)
(* The task transition table of packages/orchestrator.  The class holds no *)
(* state of its own: these operators are the only place where the legality *)
(* of a move, its terminality and its need of a rationale are decided.     *)
(***************************************************************************)

\* The thirteen values of TaskStatus (also the tasks_state_check constraint).
TaskStates ==
  {"PENDING", "QUEUED", "EXECUTING", "VERIFYING", "AWAITING_REVIEW", "APPROVED",
   "REJECTED", "REWORK", "COMPLETED", "FAILED", "AWAITING_HUMAN_INTERVENTION",
   "CANCELLED", "RETRYING"}

\* TRANSITIONS as the set of its pairs; COMPLETED, CANCELLED and RETRYING map
\* to the empty set, so they are the source of no pair.
TRANSITIONS ==
  ({"PENDING"} \X {"QUEUED", "CANCELLED"})
  \cup ({"QUEUED"} \X {"EXECUTING", "CANCELLED"})
  \cup ({"EXECUTING"} \X {"VERIFYING", "FAILED", "AWAITING_HUMAN_INTERVENTION"})
  \cup ({"VERIFYING"} \X {"AWAITING_REVIEW", "REWORK", "FAILED",
                          "AWAITING_HUMAN_INTERVENTION"})
  \cup ({"AWAITING_REVIEW"} \X {"APPROVED", "REJECTED"})
  \cup ({"APPROVED"} \X {"COMPLETED", "AWAITING_HUMAN_INTERVENTION"})
  \cup ({"REJECTED"} \X {"REWORK", "FAILED", "CANCELLED"})
  \cup ({"REWORK"} \X {"QUEUED", "CANCELLED", "FAILED"})
  \cup ({"FAILED", "AWAITING_HUMAN_INTERVENTION"} \X {"QUEUED", "CANCELLED"})

\* The human-driven moves, whose history row must carry a rationale.
RATIONALE_REQUIRED ==
  ({"PENDING", "QUEUED", "REWORK", "REJECTED"} \X {"CANCELLED"})
  \cup ({"AWAITING_REVIEW"} \X {"APPROVED", "REJECTED"})
  \cup ({"REJECTED"} \X {"REWORK"})
  \cup ({"AWAITING_HUMAN_INTERVENTION", "FAILED"} \X {"QUEUED", "CANCELLED"})

CanTransition(from, to) == <<from, to>> \in TRANSITIONS

RequiresRationale(from, to) == <<from, to>> \in RATIONALE_REQUIRED

IsTerminal(state) == state \in {"COMPLETED", "CANCELLED"}
=============================================================================
