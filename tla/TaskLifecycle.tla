--------------------------- MODULE TaskLifecycle ---------------------------
(***************************************************************************)
(* TaskService of packages/orchestrator: concurrent callers moving the     *)
(* rows of the tasks table through the transition table.  A call is three  *)
(* steps, because the code awaits between them: it reads the row and       *)
(* checks the move, then runs the transaction (guarded UPDATE + history    *)
(* INSERT), then publishes task.state_changed.  Any other caller, or the   *)
(* end of the process, may come between two steps.                         *)
(***************************************************************************)
EXTENDS Naturals, Sequences, FiniteSets, TaskStateMachine

CONSTANTS
  Tasks,     \* task ids
  Callers,   \* concurrent callers of transitionTask (requests, executors)
  Scope,     \* the states callers name (all of TaskStates in the program)
  MaxMoves,  \* bound on the history rows of one task
  MaxLost    \* bound on the commits of one task that die unannounced

ASSUME ScopeAssumption == Scope \subseteq TaskStates
ASSUME BoundsAssumption == MaxMoves \in Nat /\ MaxLost \in Nat

VARIABLES
  task,       \* the tasks table: task -> [state, attempt, key]
  history,    \* task_state_history: task -> sequence of rows, oldest first
  call,       \* caller -> the call in progress
  published,  \* task -> history positions whose event was published, in order
  lost        \* task -> history positions whose publisher died before publishing

vars == <<task, history, call, published, lost>>

Absent == "ABSENT"    \* the state of a task id that has no row yet

Row == [state : TaskStates \cup {Absent}, attempt : Nat, key : Nat]

Entry == [from : TaskStates, to : TaskStates, attempt : Nat, rationale : BOOLEAN]

Idle == [pc |-> "idle"]

Pending == [pc : {"checked"}, task : Tasks, from : TaskStates, to : TaskStates,
            attempt : Nat, key : Nat, rationale : BOOLEAN]

Committed == [pc : {"committed"}, task : Tasks, pos : Nat \ {0}]

Call == {Idle} \cup Pending \cup Committed
----------------------------------------------------------------------------
Init ==
  /\ task = [t \in Tasks |-> [state |-> Absent, attempt |-> 0, key |-> 0]]
  /\ history = [t \in Tasks |-> <<>>]
  /\ call = [c \in Callers |-> Idle]
  /\ published = [t \in Tasks |-> <<>>]
  /\ lost = [t \in Tasks |-> {}]

\* createTask: one INSERT, state PENDING, attempt 0, key id:0.
CreateTask(t) ==
  /\ task[t].state = Absent
  /\ task' = [task EXCEPT ![t] = [state |-> "PENDING", attempt |-> 0, key |-> 0]]
  /\ UNCHANGED <<history, call, published, lost>>

\* Mutant: every way back to QUEUED counts as a new attempt.
NextAttemptOnAnyQueue(read, from, to) ==
  IF to = "QUEUED" THEN read.attempt + 1 ELSE read.attempt

\* The attempt number a call will write: computed from the row it READ.
NextAttempt(read, from, to) ==
  IF from = "REWORK" /\ to = "QUEUED" THEN read.attempt + 1 ELSE read.attempt

\* The attempt its idempotency key will name: the new one when the call requeues,
\* or else the key is kept as it was read.
NextKey(read, from, to) ==
  IF from = "REWORK" /\ to = "QUEUED" THEN NextAttempt(read, from, to) ELSE read.key

\* The two checks of transitionTask that throw before anything is written.
MayMove(t, from, to, rationale) ==
  /\ CanTransition(from, to)
  /\ RequiresRationale(from, to) => rationale

\* transitionTask up to its transaction: load the row, take `from' from the
\* caller's expectedFrom or else from the row, check the table and the
\* rationale.  Nothing is awaited between the load and these checks.  A call
\* refused here (not found, terminal, illegal, no rationale) writes nothing.
BeginTransition(c, t, from, to, rationale) ==
  /\ call[c] = Idle
  /\ task[t].state # Absent
  /\ MayMove(t, from, to, rationale)
  /\ call' = [call EXCEPT ![c] =
       [pc |-> "checked", task |-> t, from |-> from, to |-> to,
        attempt |-> NextAttempt(task[t], from, to), key |-> NextKey(task[t], from, to),
        rationale |-> rationale]]
  /\ UNCHANGED <<task, history, published, lost>>

\* Mutant: the UPDATE is guarded by the id alone.
LockIgnored(p) == task[p.task].state # Absent

\* The WHERE clause of the optimistic UPDATE.
LockHolds(p) == task[p.task].state = p.from

\* The transaction commits: the row is updated and its history row inserted.
Commit(c) ==
  LET p == call[c] IN
  /\ p.pc = "checked"
  /\ LockHolds(p)
  /\ Len(history[p.task]) < MaxMoves
  /\ task' = [task EXCEPT ![p.task] =
       [state |-> p.to, attempt |-> p.attempt, key |-> p.key]]
  /\ history' = [history EXCEPT ![p.task] =
       Append(@, [from |-> p.from, to |-> p.to, attempt |-> p.attempt,
                  rationale |-> p.rationale])]
  /\ call' = [call EXCEPT ![c] =
       [pc |-> "committed", task |-> p.task, pos |-> Len(history[p.task]) + 1]]
  /\ UNCHANGED <<published, lost>>

\* The UPDATE matches no row: StateConflictError, the transaction rolls back.
Conflict(c) ==
  /\ call[c].pc = "checked"
  /\ ~ LockHolds(call[c])
  /\ call' = [call EXCEPT ![c] = Idle]
  /\ UNCHANGED <<task, history, published, lost>>

\* Mutant: the move to CANCELLED returns without announcing itself.
PublishSkipsCancel(c) ==
  LET p == call[c] IN
  /\ p.pc = "committed"
  /\ published' = IF history[p.task][p.pos].to = "CANCELLED" THEN published
                  ELSE [published EXCEPT ![p.task] = Append(@, p.pos)]
  /\ call' = [call EXCEPT ![c] = Idle]
  /\ UNCHANGED <<task, history, lost>>

\* Mutant: the event describes the history row before the committed one.
PublishPrevious(c) ==
  LET p == call[c] IN
  /\ p.pc = "committed"
  /\ published' = [published EXCEPT ![p.task] = Append(@, p.pos - 1)]
  /\ call' = [call EXCEPT ![c] = Idle]
  /\ UNCHANGED <<task, history, lost>>

\* After the commit: publish task.state_changed and return to the caller.
Publish(c) ==
  LET p == call[c] IN
  /\ p.pc = "committed"
  /\ published' = [published EXCEPT ![p.task] = Append(@, p.pos)]
  /\ call' = [call EXCEPT ![c] = Idle]
  /\ UNCHANGED <<task, history, lost>>

\* The process of the caller ends in the middle of a call: an open transaction
\* rolls back, a committed one stays without its event.
Crash(c) ==
  /\ \/ call[c].pc = "checked" /\ UNCHANGED lost
     \/ /\ call[c].pc = "committed"
        /\ Cardinality(lost[call[c].task]) < MaxLost
        /\ lost' = [lost EXCEPT ![call[c].task] = @ \cup {call[c].pos}]
  /\ call' = [call EXCEPT ![c] = Idle]
  /\ UNCHANGED <<task, history, published>>

\* `from' is the row's state when the caller passes no expectedFrom, and any
\* state when it does.
Begin(c) ==
  \E t \in Tasks, from \in Scope, to \in Scope, r \in BOOLEAN :
    BeginTransition(c, t, from, to, r)

Next ==
  \/ \E t \in Tasks : CreateTask(t)
  \/ \E c \in Callers : Begin(c) \/ Commit(c) \/ Conflict(c) \/ Publish(c) \/ Crash(c)

Spec == Init /\ [][Next]_vars
----------------------------------------------------------------------------
TypeOK ==
  /\ task \in [Tasks -> Row]
  /\ history \in [Tasks -> Seq(Entry)]
  /\ call \in [Callers -> Call]
  /\ published \in [Tasks -> Seq(Nat \ {0})]
  /\ lost \in [Tasks -> SUBSET (Nat \ {0})]

\* The audit trail replays the task: the first row starts at PENDING, each row
\* starts where the one before it ended, and the last one ends in the row's
\* state, however the calls of concurrent writers interleave or die.
HistoryIsPath ==
  \A t \in Tasks :
    LET h == history[t] IN
    /\ h = <<>> => task[t].state \in {Absent, "PENDING"}
    /\ h # <<>> => h[1].from = "PENDING" /\ h[Len(h)].to = task[t].state
    /\ \A i \in 1..(Len(h) - 1) : h[i + 1].from = h[i].to

\* Every row of the audit trail is a move of the table, and the human-driven
\* moves carry their rationale: the checks made on what a call read still hold
\* for what it later wrote.
HistoryIsLegal ==
  \A t \in Tasks : \A i \in DOMAIN history[t] :
    LET e == history[t][i] IN
    CanTransition(e.from, e.to) /\ (RequiresRationale(e.from, e.to) => e.rationale)

Requeues(t) ==
  {i \in DOMAIN history[t] : history[t][i].from = "REWORK" /\ history[t][i].to = "QUEUED"}

\* The attempt counter and the idempotency key never run ahead of the REWORK ->
\* QUEUED moves in the audit trail: a stale call may hide an attempt, never
\* invent one.
AttemptsAreRequeues ==
  \A t \in Tasks :
    task[t].attempt <= Cardinality(Requeues(t)) /\ task[t].key = task[t].attempt

Announced(t) == {published[t][n] : n \in DOMAIN published[t]}

InFlight(t) == {call[c].pos : c \in {d \in Callers : call[d].pc = "committed" /\ call[d].task = t}}

\* Each committed move is announced once, or is still owed by the one call that
\* made it, or was lost with that call's process; nothing uncommitted is ever
\* announced.
MovesAccountedFor ==
  \A t \in Tasks :
    /\ Announced(t) \cup InFlight(t) \cup lost[t] = DOMAIN history[t]
    /\ Announced(t) \cap InFlight(t) = {}
    /\ lost[t] \cap (Announced(t) \cup InFlight(t)) = {}
    /\ Cardinality(Announced(t)) = Len(published[t])
----------------------------------------------------------------------------
\* The abstract task: one atomic move at a time (see TaskLedger).
Ledger == INSTANCE TaskLedger WITH
  state <- [t \in Tasks |-> task[t].state],
  moves <- [t \in Tasks |-> Len(history[t])]

\* Concurrent callers over the guarded UPDATE are equivalent to a task that
\* takes one legal move at a time, each counted once by its audit trail.
ImplementsLedger == Ledger!Spec
=============================================================================
