----------------------------- MODULE TaskLedger -----------------------------
(***************************************************************************)
(* What TaskService promises its callers: a task is created once, in       *)
(* PENDING, and then takes one move of the transition table at a time,     *)
(* each recorded once.                                                     *)
(***************************************************************************)
EXTENDS Naturals, TaskStateMachine

CONSTANTS Tasks, MaxMoves

VARIABLES
  state,   \* task -> its state, or "ABSENT"
  moves    \* task -> how many moves its audit trail records

vars == <<state, moves>>

Init ==
  /\ state = [t \in Tasks |-> "ABSENT"]
  /\ moves = [t \in Tasks |-> 0]

Create(t) ==
  /\ state[t] = "ABSENT"
  /\ state' = [state EXCEPT ![t] = "PENDING"]
  /\ UNCHANGED moves

Move(t, to) ==
  /\ CanTransition(state[t], to)
  /\ state' = [state EXCEPT ![t] = to]
  /\ moves' = [moves EXCEPT ![t] = @ + 1]

Next == \E t \in Tasks : Create(t) \/ \E to \in TaskStates : Move(t, to)

Spec == Init /\ [][Next]_vars
=============================================================================
