------------------------ MODULE TaskLifecycleProofs ------------------------
(***************************************************************************)
(* What TLAPS proves of TaskLifecycle, for any number of tasks, callers,   *)
(* moves and crashes: the types, the integrity of the audit trail, that    *)
(* the concurrent service implements TaskLedger, that each committed move  *)
(* is announced once, owed or lost, and that the attempt number never runs *)
(* ahead of the requeues in the audit trail.                               *)
(***************************************************************************)
EXTENDS TaskLifecycle, FiniteSetTheorems, TLAPS

\* What a call that passed its checks carries to its transaction.
PendingIsLegal ==
  \A c \in Callers : call[c].pc = "checked" =>
    /\ CanTransition(call[c].from, call[c].to)
    /\ RequiresRationale(call[c].from, call[c].to) => call[c].rationale

\* The inductive invariant.  The audit trail cannot be shown legal from the
\* trail alone: the row a transaction appends was checked two steps earlier.
AuditInv == TypeOK /\ HistoryIsPath /\ HistoryIsLegal /\ PendingIsLegal
----------------------------------------------------------------------------
\* The table only relates declared states, and never leads into PENDING.
LEMMA TransitionTyped ==
  ASSUME NEW from, NEW to, CanTransition(from, to)
  PROVE  from \in TaskStates /\ to \in TaskStates /\ from # Absent /\ to # Absent
         /\ to # "PENDING"
BY DEF CanTransition, TRANSITIONS, TaskStates, Absent

\* COMPLETED and CANCELLED are the source of no move of the table.
LEMMA TerminalIsFinal ==
  ASSUME NEW from, NEW to, IsTerminal(from)
  PROVE  ~ CanTransition(from, to)
BY DEF IsTerminal, CanTransition, TRANSITIONS

\* A call in step "checked" is a Pending record, one in "committed" a Committed.
LEMMA CallShape ==
  ASSUME NEW x \in Call
  PROVE  /\ x.pc = "checked" => x \in Pending
         /\ x.pc = "committed" => x \in Committed
BY DEF Call, Pending, Committed, Idle

\* The attempt a call computes from a well-typed row is a number, and so is the
\* one its key names.
LEMMA NextAttemptTyped ==
  ASSUME NEW r \in Row, NEW from, NEW to
  PROVE  NextAttempt(r, from, to) \in Nat /\ NextKey(r, from, to) \in Nat
BY DEF NextAttempt, NextKey, Row

----------------------------------------------------------------------------
LEMMA TypeInit == Init => TypeOK
BY DEF Init, TypeOK, Row, Entry, Call, Idle, Absent, TaskStates

LEMMA TypeStep == TypeOK /\ [Next]_vars => TypeOK'
<1> SUFFICES ASSUME TypeOK, [Next]_vars PROVE TypeOK'
  OBVIOUS
<1> USE DEF TypeOK
<1>1. ASSUME NEW t \in Tasks, CreateTask(t) PROVE TypeOK'
  BY <1>1 DEF CreateTask, Row, TaskStates
<1>2. ASSUME NEW c \in Callers, NEW t \in Tasks, NEW from \in Scope, NEW to \in Scope,
             NEW r \in BOOLEAN, BeginTransition(c, t, from, to, r)
      PROVE TypeOK'
  <2>1. from \in TaskStates /\ to \in TaskStates
    BY ScopeAssumption
  <2>2. NextAttempt(task[t], from, to) \in Nat /\ NextKey(task[t], from, to) \in Nat
    BY NextAttemptTyped
  <2>3. [pc |-> "checked", task |-> t, from |-> from, to |-> to,
         attempt |-> NextAttempt(task[t], from, to), key |-> NextKey(task[t], from, to),
         rationale |-> r] \in Pending
    BY <2>1, <2>2 DEF Pending
  <2>4. QED
    BY <1>2, <2>3 DEF BeginTransition, Call
<1>3. ASSUME NEW c \in Callers, Commit(c) PROVE TypeOK'
  <2>1. call[c] \in Pending
    BY <1>3, CallShape DEF Commit
  <2>2. [state |-> call[c].to, attempt |-> call[c].attempt, key |-> call[c].key] \in Row
    BY <2>1 DEF Pending, Row
  <2>3. [from |-> call[c].from, to |-> call[c].to, attempt |-> call[c].attempt,
         rationale |-> call[c].rationale] \in Entry
    BY <2>1 DEF Pending, Entry
  <2>4. call[c].task \in Tasks
    BY <2>1 DEF Pending
  <2>5. [pc |-> "committed", task |-> call[c].task, pos |-> Len(history[call[c].task]) + 1]
          \in Committed
    BY <2>4 DEF Committed
  <2>6. task' \in [Tasks -> Row]
    BY <1>3, <2>2 DEF Commit
  <2>7. history' \in [Tasks -> Seq(Entry)]
    BY <1>3, <2>3, <2>4 DEF Commit
  <2>8. call' \in [Callers -> Call]
    BY <1>3, <2>5 DEF Commit, Call
  <2>9. QED
    BY <1>3, <2>6, <2>7, <2>8 DEF Commit
<1>4. ASSUME NEW c \in Callers, Conflict(c) PROVE TypeOK'
  BY <1>4 DEF Conflict, Call
<1>5. ASSUME NEW c \in Callers, Publish(c) PROVE TypeOK'
  <2>1. call[c] \in Committed
    BY <1>5, CallShape DEF Publish
  <2>2. QED
    BY <1>5, <2>1 DEF Publish, Committed, Call
<1>6. ASSUME NEW c \in Callers, Crash(c) PROVE TypeOK'
  <2>1. call' \in [Callers -> Call]
    BY <1>6 DEF Crash, Call
  <2>2. CASE call[c].pc = "checked"
    BY <1>6, <2>1, <2>2 DEF Crash
  <2>3. CASE call[c].pc = "committed"
    <3>1. call[c] \in Committed
      BY <2>3, CallShape
    <3>2. call[c].task \in Tasks /\ call[c].pos \in Nat \ {0}
      BY <3>1 DEF Committed
    <3>3. lost' = [lost EXCEPT ![call[c].task] = @ \cup {call[c].pos}]
      BY <1>6, <2>3 DEF Crash
    <3>4. lost' \in [Tasks -> SUBSET (Nat \ {0})]
      BY <3>2, <3>3
    <3>5. QED
      BY <1>6, <2>1, <3>4 DEF Crash
  <2>4. QED
    BY <1>6, <2>2, <2>3 DEF Crash
<1>7. CASE UNCHANGED vars
  BY <1>7 DEF vars
<1>8. QED
  BY <1>1, <1>2, <1>3, <1>4, <1>5, <1>6, <1>7 DEF Next, Begin

\* Every reachable state is well typed, whatever the constants.
THEOREM TypeCorrect == Spec => []TypeOK
BY TypeInit, TypeStep, PTL DEF Spec
----------------------------------------------------------------------------
LEMMA AuditInit == Init => AuditInv
BY TypeInit DEF Init, AuditInv, HistoryIsPath, HistoryIsLegal, PendingIsLegal, Idle, Absent

\* What the transaction of a checked call does to the two tables.
LEMMA CommitShape ==
  ASSUME AuditInv, NEW c \in Callers, Commit(c)
  PROVE  LET p == call[c] IN
         /\ p \in Pending
         /\ task[p.task].state = p.from
         /\ CanTransition(p.from, p.to)
         /\ RequiresRationale(p.from, p.to) => p.rationale
         /\ task'[p.task].state = p.to
         /\ \A t \in Tasks \ {p.task} : task'[t] = task[t] /\ history'[t] = history[t]
         /\ history'[p.task] = Append(history[p.task],
              [from |-> p.from, to |-> p.to, attempt |-> p.attempt, rationale |-> p.rationale])
<1>1. call[c] \in Pending
  BY CallShape DEF Commit, AuditInv, TypeOK
<1>2. call[c].task \in Tasks
  BY <1>1 DEF Pending
<1>3. QED
  BY <1>1, <1>2 DEF Commit, LockHolds, AuditInv, PendingIsLegal, TypeOK

LEMMA AuditStep == AuditInv /\ [Next]_vars => AuditInv'
<1> SUFFICES ASSUME AuditInv, [Next]_vars PROVE AuditInv'
  OBVIOUS
<1>0. TypeOK'
  BY TypeStep DEF AuditInv
<1>1. ASSUME NEW t \in Tasks, CreateTask(t) PROVE AuditInv'
  <2>1. history[t] = <<>>
    <3>1. ASSUME history[t] # <<>> PROVE FALSE
      <4>1. history[t] \in Seq(Entry) /\ Len(history[t]) \in 1..Len(history[t])
        BY <3>1 DEF AuditInv, TypeOK
      <4>2. history[t][Len(history[t])] \in Entry
        BY <4>1
      <4>3. task[t].state \in TaskStates
        BY <3>1, <4>2 DEF AuditInv, HistoryIsPath, Entry
      <4>4. QED
        BY <1>1, <4>3 DEF CreateTask, TaskStates, Absent
    <3>2. QED
      BY <3>1
  <2>2. HistoryIsPath'
    BY <1>1, <2>1 DEF CreateTask, HistoryIsPath, AuditInv, TypeOK
  <2>3. HistoryIsLegal' /\ PendingIsLegal'
    BY <1>1 DEF CreateTask, HistoryIsLegal, PendingIsLegal, AuditInv
  <2>4. QED
    BY <1>0, <2>2, <2>3 DEF AuditInv
<1>2. ASSUME NEW c \in Callers, NEW t \in Tasks, NEW from \in Scope, NEW to \in Scope,
             NEW r \in BOOLEAN, BeginTransition(c, t, from, to, r)
      PROVE AuditInv'
  <2>1. HistoryIsPath' /\ HistoryIsLegal'
    BY <1>2 DEF BeginTransition, HistoryIsPath, HistoryIsLegal, AuditInv
  <2>2. PendingIsLegal'
    BY <1>2 DEF BeginTransition, MayMove, PendingIsLegal, AuditInv, TypeOK
  <2>3. QED
    BY <1>0, <2>1, <2>2 DEF AuditInv
<1>3. ASSUME NEW c \in Callers, Commit(c) PROVE AuditInv'
  <2> DEFINE p == call[c]
             e == [from |-> p.from, to |-> p.to, attempt |-> p.attempt, rationale |-> p.rationale]
             h == history[p.task]
  <2>1. /\ p \in Pending /\ task[p.task].state = p.from /\ CanTransition(p.from, p.to)
        /\ RequiresRationale(p.from, p.to) => p.rationale
        /\ task'[p.task].state = p.to
        /\ \A t \in Tasks \ {p.task} : task'[t] = task[t] /\ history'[t] = history[t]
        /\ history'[p.task] = Append(h, e)
    BY <1>3, CommitShape
  <2>2. p.task \in Tasks /\ h \in Seq(Entry) /\ e \in Entry
    BY <2>1 DEF Pending, Entry, AuditInv, TypeOK
  <2>3. /\ Len(Append(h, e)) = Len(h) + 1
        /\ Append(h, e)[Len(h) + 1] = e
        /\ \A i \in 1..Len(h) : Append(h, e)[i] = h[i]
        /\ DOMAIN Append(h, e) = 1..(Len(h) + 1) /\ DOMAIN h = 1..Len(h) /\ Len(h) \in Nat
    BY <2>2
  <2> HIDE DEF p, e, h
  <2>4. ASSUME NEW t \in Tasks PROVE
          LET g == history'[t] IN
          /\ g = <<>> => task'[t].state \in {Absent, "PENDING"}
          /\ g # <<>> => g[1].from = "PENDING" /\ g[Len(g)].to = task'[t].state
          /\ \A i \in 1..(Len(g) - 1) : g[i + 1].from = g[i].to
    <3>1. CASE t # p.task
      <4>1. history'[t] = history[t] /\ task'[t] = task[t]
        BY <3>1, <2>1
      <4>2. QED
        BY <4>1 DEF AuditInv, HistoryIsPath
    <3>2. CASE t = p.task
      <4>1. e.to = task'[t].state /\ e.from = task[t].state
        BY <3>2, <2>1 DEF e
      <4>2. h = <<>> => e.from = "PENDING"
        <5>1. h = <<>> => task[t].state \in {Absent, "PENDING"}
          BY <3>2 DEF h, AuditInv, HistoryIsPath
        <5>2. task[t].state # Absent
          BY <3>2, <2>1, TransitionTyped
        <5>3. QED
          BY <5>1, <5>2, <4>1
      <4>3. h # <<>> => h[1].from = "PENDING" /\ h[Len(h)].to = e.from
        BY <3>2, <4>1, <2>2 DEF h, AuditInv, HistoryIsPath
      <4>4. \A i \in 1..(Len(h) - 1) : h[i + 1].from = h[i].to
        BY <3>2 DEF h, AuditInv, HistoryIsPath
      <4>5. h # <<>> => Len(h) \in Nat \ {0}
        BY <2>2
      <4>6. h = <<>> => Len(h) = 0
        BY <2>2
      <4>7. Append(h, e)[1].from = "PENDING"
        BY <4>2, <4>3, <4>5, <4>6, <2>3
      <4>8. ASSUME NEW i \in 1..Len(h)
            PROVE Append(h, e)[i + 1].from = Append(h, e)[i].to
        <5>1. CASE i = Len(h)
          BY <5>1, <4>3, <4>6, <2>3
        <5>2. CASE i # Len(h)
          BY <5>2, <4>4, <2>3
        <5>3. QED
          BY <5>1, <5>2
      <4>9. QED
        BY <3>2, <2>1, <2>3, <4>1, <4>7, <4>8
    <3>3. QED
      BY <3>1, <3>2
  <2>5. HistoryIsPath'
    BY <2>4 DEF HistoryIsPath
  <2>6. ASSUME NEW t \in Tasks, NEW i \in DOMAIN history'[t] PROVE
          LET x == history'[t][i] IN
          CanTransition(x.from, x.to) /\ (RequiresRationale(x.from, x.to) => x.rationale)
    <3>1. CASE t # p.task
      BY <3>1, <2>1 DEF AuditInv, HistoryIsLegal
    <3>2. CASE t = p.task
      <4>1. CASE i = Len(h) + 1
        BY <4>1, <3>2, <2>1, <2>3 DEF e
      <4>2. CASE i \in 1..Len(h)
        BY <4>2, <3>2, <2>1, <2>3 DEF h, AuditInv, HistoryIsLegal
      <4>3. QED
        BY <4>1, <4>2, <3>2, <2>1, <2>3
    <3>3. QED
      BY <3>1, <3>2
  <2>7. HistoryIsLegal'
    BY <2>6 DEF HistoryIsLegal
  <2>8. PendingIsLegal'
    BY <1>3 DEF Commit, PendingIsLegal, AuditInv, TypeOK
  <2>9. QED
    BY <1>0, <2>5, <2>7, <2>8 DEF AuditInv
<1>4. ASSUME NEW c \in Callers, Conflict(c) \/ Publish(c) \/ Crash(c) PROVE AuditInv'
  <2>1. UNCHANGED <<task, history>> /\ call' = [call EXCEPT ![c] = Idle]
    BY <1>4 DEF Conflict, Publish, Crash
  <2>2. HistoryIsPath' /\ HistoryIsLegal'
    BY <2>1 DEF HistoryIsPath, HistoryIsLegal, AuditInv
  <2>3. PendingIsLegal'
    BY <2>1 DEF PendingIsLegal, AuditInv, TypeOK, Idle
  <2>4. QED
    BY <1>0, <2>2, <2>3 DEF AuditInv
<1>5. CASE UNCHANGED vars
  BY <1>5, <1>0 DEF vars, AuditInv, HistoryIsPath, HistoryIsLegal, PendingIsLegal
<1>6. QED
  BY <1>1, <1>2, <1>3, <1>4, <1>5 DEF Next, Begin

LEMMA AuditCorrect == Spec => []AuditInv
BY AuditInit, AuditStep, PTL DEF Spec

\* For any number of tasks and concurrent callers, the audit trail replays the
\* task's state from PENDING.
THEOREM TrailReplaysState == Spec => []HistoryIsPath
<1>1. AuditInv => HistoryIsPath
  BY DEF AuditInv
<1>2. QED
  BY <1>1, AuditCorrect, PTL

\* For any number of tasks and concurrent callers, the audit trail only holds
\* moves of the table, with a rationale where the table wants one.
THEOREM TrailIsLegal == Spec => []HistoryIsLegal
<1>1. AuditInv => HistoryIsLegal
  BY DEF AuditInv
<1>2. QED
  BY <1>1, AuditCorrect, PTL
----------------------------------------------------------------------------
LEMMA LedgerInit == Init => Ledger!Init
BY DEF Init, Ledger!Init, Absent

\* Every step of the service is one step of the abstract task, or none: only
\* creation and the transaction are visible to it.
LEMMA LedgerStep == AuditInv /\ [Next]_vars => [Ledger!Next]_(Ledger!vars)
<1> SUFFICES ASSUME AuditInv, [Next]_vars PROVE [Ledger!Next]_(Ledger!vars)
  OBVIOUS
<1> DEFINE St == [t \in Tasks |-> task[t].state]
           Mv == [t \in Tasks |-> Len(history[t])]
<1>1. ASSUME NEW t \in Tasks, CreateTask(t) PROVE Ledger!Next
  <2>1. St[t] = Absent /\ St' = [St EXCEPT ![t] = "PENDING"] /\ Mv' = Mv
    BY <1>1 DEF CreateTask, AuditInv, TypeOK
  <2>2. Ledger!Create(t)
    BY <2>1 DEF Ledger!Create, Absent
  <2>3. QED
    BY <2>2 DEF Ledger!Next
<1>2. ASSUME NEW c \in Callers, Commit(c) PROVE Ledger!Next
  <2> DEFINE p == call[c]
             e == [from |-> p.from, to |-> p.to, attempt |-> p.attempt, rationale |-> p.rationale]
  <2>1. /\ p \in Pending /\ task[p.task].state = p.from /\ CanTransition(p.from, p.to)
        /\ task'[p.task].state = p.to
        /\ \A t \in Tasks \ {p.task} : task'[t] = task[t] /\ history'[t] = history[t]
        /\ history'[p.task] = Append(history[p.task], e)
    BY <1>2, CommitShape
  <2>2. p.task \in Tasks /\ p.to \in TaskStates /\ history[p.task] \in Seq(Entry) /\ e \in Entry
    BY <2>1 DEF Pending, Entry, AuditInv, TypeOK
  <2>3. Len(history'[p.task]) = Len(history[p.task]) + 1
    BY <2>1, <2>2
  <2> HIDE DEF p, e
  <2>4. CanTransition(St[p.task], p.to)
    BY <2>1, <2>2
  <2>5. St' = [St EXCEPT ![p.task] = p.to]
    <3>1. \A t \in Tasks : task'[t].state = IF t = p.task THEN p.to ELSE task[t].state
      BY <2>1
    <3>2. QED
      BY <3>1
  <2>6. Mv' = [Mv EXCEPT ![p.task] = @ + 1]
    <3>1. \A t \in Tasks :
            Len(history'[t]) = IF t = p.task THEN Len(history[p.task]) + 1 ELSE Len(history[t])
      BY <2>1, <2>3
    <3>2. QED
      BY <3>1
  <2> HIDE DEF St, Mv
  <2>7. Ledger!CanTransition(St[p.task], p.to)
    BY <2>4 DEF Ledger!CanTransition, Ledger!TRANSITIONS, CanTransition, TRANSITIONS
  <2>8. p.to \in Ledger!TaskStates
    BY <2>2 DEF TaskStates, Ledger!TaskStates
  <2>9. \E t \in Tasks, to \in Ledger!TaskStates :
          /\ Ledger!CanTransition(St[t], to)
          /\ St' = [St EXCEPT ![t] = to]
          /\ Mv' = [Mv EXCEPT ![t] = @ + 1]
    BY <2>2, <2>5, <2>6, <2>7, <2>8
  <2>10. QED
    BY <2>9 DEF Ledger!Next, Ledger!Move, St, Mv
<1>3. ASSUME UNCHANGED <<task, history>> PROVE UNCHANGED Ledger!vars
  BY <1>3 DEF Ledger!vars
<1>4. ASSUME NEW c \in Callers, Begin(c) \/ Conflict(c) \/ Publish(c) \/ Crash(c)
      PROVE UNCHANGED <<task, history>>
  BY <1>4 DEF Begin, BeginTransition, Conflict, Publish, Crash
<1>5. QED
  BY <1>1, <1>2, <1>3, <1>4 DEF Next, vars

\* TaskService implements the one-move-at-a-time task, for any number of tasks
\* and concurrent callers, crashes included.
THEOREM ServiceImplementsLedger == Spec => ImplementsLedger
<1>1. Init => Ledger!Init
  BY LedgerInit
<1>2. AuditInv /\ [Next]_vars => [Ledger!Next]_(Ledger!vars)
  BY LedgerStep
<1>3. QED
  BY <1>1, <1>2, AuditCorrect, PTL DEF Spec, ImplementsLedger, Ledger!Spec
----------------------------------------------------------------------------
\* Two calls never owe the event of the same history row.
RowsHaveOneOwner ==
  \A c, d \in Callers :
    call[c].pc = "committed" /\ call[d].pc = "committed"
      /\ call[c].task = call[d].task /\ call[c].pos = call[d].pos => c = d

\* The inductive invariant: a row's event leaves the debts of its one owner when
\* it joins what was announced or lost.
AccountInv == TypeOK /\ MovesAccountedFor /\ RowsHaveOneOwner
----------------------------------------------------------------------------
LEMMA AccountInit == Init => AccountInv
<1> SUFFICES ASSUME Init PROVE AccountInv
  OBVIOUS
<1>1. TypeOK
  BY TypeInit
<1>2. ASSUME NEW t \in Tasks
      PROVE  Announced(t) = {} /\ InFlight(t) = {} /\ lost[t] = {} /\ DOMAIN history[t] = {}
             /\ Len(published[t]) = 0
  BY DEF Init, Announced, InFlight, Idle
<1>3. MovesAccountedFor
  BY <1>2, FS_EmptySet DEF MovesAccountedFor
<1>4. RowsHaveOneOwner
  BY DEF Init, RowsHaveOneOwner, Idle
<1>5. QED
  BY <1>1, <1>3, <1>4 DEF AccountInv

\* A call that owes no event before a step nor after it does not change what is owed.
LEMMA NothingOwed ==
  ASSUME TypeOK, NEW c \in Callers, NEW x, call' = [call EXCEPT ![c] = x],
         call[c].pc # "committed", x.pc # "committed"
  PROVE  /\ \A t \in Tasks : InFlight(t)' = InFlight(t)
         /\ RowsHaveOneOwner => RowsHaveOneOwner'
<1>1. call'[c] = x /\ \A d \in Callers \ {c} : call'[d] = call[d]
  BY DEF TypeOK
<1>2. ASSUME NEW t \in Tasks PROVE InFlight(t)' = InFlight(t)
  BY <1>1 DEF InFlight
<1>3. RowsHaveOneOwner => RowsHaveOneOwner'
  BY <1>1 DEF RowsHaveOneOwner
<1>4. QED
  BY <1>2, <1>3

\* A call that ends, announcing its row or dying, owes it no longer.
LEMMA DebtEnds ==
  ASSUME AccountInv, NEW c \in Callers, call[c].pc = "committed",
         call' = [call EXCEPT ![c] = Idle]
  PROVE  /\ call[c].task \in Tasks /\ call[c].pos \in Nat \ {0}
         /\ call[c].pos \in InFlight(call[c].task)
         /\ \A t \in Tasks :
              InFlight(t)' = IF t = call[c].task THEN InFlight(t) \ {call[c].pos} ELSE InFlight(t)
         /\ RowsHaveOneOwner'
<1>1. call'[c].pc = "idle" /\ \A d \in Callers \ {c} : call'[d] = call[d]
  BY DEF AccountInv, TypeOK, Idle
<1>2. call[c] \in Committed
  BY CallShape DEF AccountInv, TypeOK
<1>3. call[c].task \in Tasks /\ call[c].pos \in Nat \ {0}
  BY <1>2 DEF Committed
<1>4. call[c].pos \in InFlight(call[c].task)
  BY DEF InFlight
<1>5. ASSUME NEW t \in Tasks
      PROVE  InFlight(t)' = IF t = call[c].task THEN InFlight(t) \ {call[c].pos} ELSE InFlight(t)
  BY <1>1 DEF InFlight, AccountInv, RowsHaveOneOwner
<1>6. RowsHaveOneOwner'
  BY <1>1 DEF AccountInv, RowsHaveOneOwner
<1>7. QED
  BY <1>3, <1>4, <1>5, <1>6

\* What was announced is finite: it is part of the trail.
LEMMA AnnouncedFinite ==
  ASSUME AccountInv, NEW t \in Tasks
  PROVE  IsFiniteSet(Announced(t)) /\ Len(published[t]) \in Nat
<1>1. history[t] \in Seq(Entry) /\ published[t] \in Seq(Nat \ {0})
  BY DEF AccountInv, TypeOK
<1>2. DOMAIN history[t] = 1..Len(history[t]) /\ Len(history[t]) \in Int
      /\ Len(published[t]) \in Nat
  BY <1>1
<1>3. Announced(t) \in SUBSET (1..Len(history[t]))
  BY <1>2 DEF AccountInv, MovesAccountedFor
<1>4. IsFiniteSet(1..Len(history[t]))
  BY <1>2, FS_Interval
<1>5. QED
  BY <1>2, <1>3, <1>4, FS_Subset

LEMMA CommitAccount ==
  ASSUME AccountInv, NEW c \in Callers, Commit(c)
  PROVE  MovesAccountedFor' /\ RowsHaveOneOwner'
<1> DEFINE p == call[c]
           n == Len(history[p.task]) + 1
<1>1. p \in Pending /\ p.task \in Tasks /\ p.pc = "checked"
  BY CallShape DEF Commit, AccountInv, TypeOK, Pending
<1>2. /\ call'[c] = [pc |-> "committed", task |-> p.task, pos |-> n]
      /\ \A d \in Callers \ {c} : call'[d] = call[d]
      /\ UNCHANGED <<published, lost>>
  BY DEF Commit, AccountInv, TypeOK
<1>3. /\ DOMAIN history'[p.task] = DOMAIN history[p.task] \cup {n}
      /\ n \notin DOMAIN history[p.task]
      /\ \A t \in Tasks \ {p.task} : history'[t] = history[t]
  <2>1. history[p.task] \in Seq(Entry) /\ history \in [Tasks -> Seq(Entry)]
    BY <1>1 DEF AccountInv, TypeOK
  <2>2. PICK e : history' = [history EXCEPT ![p.task] = Append(history[p.task], e)]
    BY DEF Commit
  <2>3. DOMAIN Append(history[p.task], e) = 1..n /\ DOMAIN history[p.task] = 1..(n - 1)
        /\ n \in Nat \ {0}
    BY <2>1
  <2> HIDE DEF p, n
  <2>4. QED
    BY <1>1, <2>1, <2>2, <2>3
<1>4. /\ call'[c].pc = "committed" /\ call'[c].task = p.task /\ call'[c].pos = n
  BY <1>2
<1> HIDE DEF n
<1>5. ASSUME NEW t \in Tasks
      PROVE  InFlight(t)' = IF t = p.task THEN InFlight(t) \cup {n} ELSE InFlight(t)
  BY <1>1, <1>2, <1>4 DEF InFlight
<1>6. \A t \in Tasks : Announced(t)' = Announced(t)
  BY <1>2 DEF Announced
<1>7. ASSUME NEW t \in Tasks
      PROVE  /\ (Announced(t) \cup InFlight(t) \cup lost[t] = DOMAIN history[t])'
             /\ (Announced(t) \cap InFlight(t) = {})'
             /\ (lost[t] \cap (Announced(t) \cup InFlight(t)) = {})'
             /\ (Cardinality(Announced(t)) = Len(published[t]))'
  <2>1. /\ Announced(t) \cup InFlight(t) \cup lost[t] = DOMAIN history[t]
        /\ Announced(t) \cap InFlight(t) = {}
        /\ lost[t] \cap (Announced(t) \cup InFlight(t)) = {}
        /\ Cardinality(Announced(t)) = Len(published[t])
    BY DEF AccountInv, MovesAccountedFor
  <2>2. CASE t = p.task
    BY <1>2, <1>3, <1>5, <1>6, <2>1, <2>2
  <2>3. CASE t # p.task
    BY <1>2, <1>3, <1>5, <1>6, <2>1, <2>3
  <2>4. QED
    BY <2>2, <2>3
<1>8. MovesAccountedFor'
  BY <1>7 DEF MovesAccountedFor
<1>9. n \notin InFlight(p.task)
  BY <1>1, <1>3 DEF AccountInv, MovesAccountedFor
<1>10. RowsHaveOneOwner'
  BY <1>2, <1>4, <1>9 DEF AccountInv, RowsHaveOneOwner, InFlight
<1>11. QED
  BY <1>8, <1>10

LEMMA PublishAccount ==
  ASSUME AccountInv, NEW c \in Callers, Publish(c)
  PROVE  MovesAccountedFor' /\ RowsHaveOneOwner'
<1>0. PICK u \in Tasks, n \in Nat \ {0} : u = call[c].task /\ n = call[c].pos
  <2>1. call[c].pc = "committed" /\ call' = [call EXCEPT ![c] = Idle]
    BY DEF Publish
  <2>2. QED
    BY <2>1, DebtEnds
<1>1. /\ call[c].pc = "committed" /\ call' = [call EXCEPT ![c] = Idle]
      /\ published' = [published EXCEPT ![u] = Append(@, n)]
      /\ UNCHANGED <<task, history, lost>>
  BY <1>0 DEF Publish
<1>2. /\ u \in Tasks /\ n \in Nat \ {0} /\ n \in InFlight(u) /\ RowsHaveOneOwner'
      /\ \A t \in Tasks : InFlight(t)' = IF t = u THEN InFlight(t) \ {n} ELSE InFlight(t)
  BY <1>0, <1>1, DebtEnds
<1>3. /\ Announced(u)' = Announced(u) \cup {n}
      /\ Len(published'[u]) = Len(published[u]) + 1
      /\ \A t \in Tasks \ {u} : published'[t] = published[t] /\ Announced(t)' = Announced(t)
  <2>1. published[u] \in Seq(Nat \ {0}) /\ published \in [Tasks -> Seq(Nat \ {0})]
    BY <1>2 DEF AccountInv, TypeOK
  <2>2. published'[u] = Append(published[u], n)
        /\ \A t \in Tasks \ {u} : published'[t] = published[t]
    BY <1>1, <1>2, <2>1
  <2>3. /\ Len(Append(published[u], n)) = Len(published[u]) + 1 /\ Len(published[u]) \in Nat
        /\ DOMAIN Append(published[u], n) = 1..(Len(published[u]) + 1)
        /\ DOMAIN published[u] = 1..Len(published[u])
        /\ Append(published[u], n)[Len(published[u]) + 1] = n
        /\ \A i \in 1..Len(published[u]) : Append(published[u], n)[i] = published[u][i]
    BY <1>2, <2>1
  <2>4. Announced(u)' = {Append(published[u], n)[i] : i \in 1..(Len(published[u]) + 1)}
        /\ Announced(u) = {published[u][i] : i \in 1..Len(published[u])}
    BY <2>2, <2>3 DEF Announced
  <2>5. 1..(Len(published[u]) + 1) = 1..Len(published[u]) \cup {Len(published[u]) + 1}
    BY <2>3
  <2>6. Announced(u)' = Announced(u) \cup {n}
    BY <2>3, <2>4, <2>5
  <2>7. QED
    BY <2>2, <2>3, <2>6 DEF Announced
<1>4. ASSUME NEW t \in Tasks
      PROVE  /\ (Announced(t) \cup InFlight(t) \cup lost[t] = DOMAIN history[t])'
             /\ (Announced(t) \cap InFlight(t) = {})'
             /\ (lost[t] \cap (Announced(t) \cup InFlight(t)) = {})'
             /\ (Cardinality(Announced(t)) = Len(published[t]))'
  <2>1. /\ Announced(t) \cup InFlight(t) \cup lost[t] = DOMAIN history[t]
        /\ Announced(t) \cap InFlight(t) = {}
        /\ lost[t] \cap (Announced(t) \cup InFlight(t)) = {}
        /\ Cardinality(Announced(t)) = Len(published[t])
    BY DEF AccountInv, MovesAccountedFor
  <2>2. CASE t = u
    <3>1. n \notin Announced(t)
      BY <1>2, <2>1, <2>2
    <3>2. Cardinality(Announced(t) \cup {n}) = Cardinality(Announced(t)) + 1
      BY <3>1, AnnouncedFinite, FS_AddElement
    <3>3. /\ Announced(t)' = Announced(t) \cup {n} /\ InFlight(t)' = InFlight(t) \ {n}
          /\ n \in InFlight(t) /\ lost'[t] = lost[t] /\ history'[t] = history[t]
          /\ Len(published'[t]) = Len(published[t]) + 1
      BY <1>1, <1>2, <1>3, <2>2
    <3>4. (Cardinality(Announced(t)) = Len(published[t]))'
      BY <2>1, <3>2, <3>3
    <3>5. QED
      BY <2>1, <3>1, <3>3, <3>4
  <2>3. CASE t # u
    BY <1>1, <1>2, <1>3, <2>1, <2>3
  <2>4. QED
    BY <2>2, <2>3
<1>5. MovesAccountedFor'
  BY <1>4 DEF MovesAccountedFor
<1>6. QED
  BY <1>2, <1>5

\* The process of a call dies: the event of a committed row is lost with it.
LEMMA LossAccount ==
  ASSUME AccountInv, NEW c \in Callers, Crash(c), call[c].pc = "committed"
  PROVE  MovesAccountedFor' /\ RowsHaveOneOwner'
<1>0. PICK u \in Tasks, n \in Nat \ {0} : u = call[c].task /\ n = call[c].pos
  <2>1. call' = [call EXCEPT ![c] = Idle]
    BY DEF Crash
  <2>2. QED
    BY <2>1, DebtEnds
<1>1. /\ call' = [call EXCEPT ![c] = Idle] /\ lost' = [lost EXCEPT ![u] = @ \cup {n}]
      /\ UNCHANGED <<task, history, published>>
  BY <1>0 DEF Crash
<1>2. /\ u \in Tasks /\ n \in Nat \ {0} /\ n \in InFlight(u) /\ RowsHaveOneOwner'
      /\ \A t \in Tasks : InFlight(t)' = IF t = u THEN InFlight(t) \ {n} ELSE InFlight(t)
  BY <1>0, <1>1, DebtEnds
<1>3. \A t \in Tasks : /\ lost'[t] = IF t = u THEN lost[t] \cup {n} ELSE lost[t]
                       /\ Announced(t)' = Announced(t)
  BY <1>1 DEF AccountInv, TypeOK, Announced
<1>4. ASSUME NEW t \in Tasks
      PROVE  /\ (Announced(t) \cup InFlight(t) \cup lost[t] = DOMAIN history[t])'
             /\ (Announced(t) \cap InFlight(t) = {})'
             /\ (lost[t] \cap (Announced(t) \cup InFlight(t)) = {})'
             /\ (Cardinality(Announced(t)) = Len(published[t]))'
  <2>1. /\ Announced(t) \cup InFlight(t) \cup lost[t] = DOMAIN history[t]
        /\ Announced(t) \cap InFlight(t) = {}
        /\ lost[t] \cap (Announced(t) \cup InFlight(t)) = {}
        /\ Cardinality(Announced(t)) = Len(published[t])
    BY DEF AccountInv, MovesAccountedFor
  <2>2. /\ Announced(t)' = Announced(t)
        /\ UNCHANGED <<history, published>>
    BY <1>1, <1>3
  <2>3. CASE t = u
    <3>1. /\ n \in InFlight(t) /\ InFlight(t)' = InFlight(t) \ {n}
          /\ lost'[t] = lost[t] \cup {n}
      BY <1>2, <1>3, <2>3
    <3>2. (Cardinality(Announced(t)) = Len(published[t]))'
      BY <2>1, <2>2
    <3>3. QED
      BY <2>1, <2>2, <3>1, <3>2
  <2>4. CASE t # u
    BY <1>2, <1>3, <2>1, <2>2, <2>4
  <2>5. QED
    BY <2>3, <2>4
<1>5. QED
  BY <1>2, <1>4 DEF MovesAccountedFor

LEMMA AccountStep == AccountInv /\ [Next]_vars => AccountInv'
<1> SUFFICES ASSUME AccountInv, [Next]_vars PROVE AccountInv'
  OBVIOUS
<1>0. TypeOK'
  BY TypeStep DEF AccountInv
\* Steps that leave the trail, the events and the debts as they are.
<1>1. ASSUME UNCHANGED <<published, lost>>,
             \A t \in Tasks : DOMAIN history'[t] = DOMAIN history[t],
             \A t \in Tasks : InFlight(t)' = InFlight(t), RowsHaveOneOwner'
      PROVE  AccountInv'
  BY <1>0, <1>1 DEF AccountInv, MovesAccountedFor, Announced
<1>2. ASSUME NEW t \in Tasks, CreateTask(t) PROVE AccountInv'
  BY <1>1, <1>2 DEF CreateTask, InFlight, RowsHaveOneOwner, AccountInv
<1>3. ASSUME NEW c \in Callers, Begin(c) PROVE AccountInv'
  <2>1. PICK t \in Tasks, from \in Scope, to \in Scope, r \in BOOLEAN :
          BeginTransition(c, t, from, to, r)
    BY <1>3 DEF Begin
  <2> DEFINE x == [pc |-> "checked", task |-> t, from |-> from, to |-> to,
                   attempt |-> NextAttempt(task[t], from, to),
                   key |-> NextKey(task[t], from, to), rationale |-> r]
  <2>2. call[c].pc = "idle" /\ UNCHANGED <<history, published, lost>>
    BY <1>3 DEF Begin, BeginTransition, Idle
  <2>3. call' = [call EXCEPT ![c] = x] /\ x.pc # "committed" /\ call[c].pc # "committed"
    BY <2>1, <2>2 DEF BeginTransition
  <2> HIDE DEF x
  <2>4. (\A q \in Tasks : InFlight(q)' = InFlight(q)) /\ RowsHaveOneOwner'
    BY <2>3, NothingOwed DEF AccountInv
  <2>5. QED
    BY <1>1, <2>2, <2>4
<1>4. ASSUME NEW c \in Callers, Conflict(c) \/ (Crash(c) /\ call[c].pc = "checked")
      PROVE  AccountInv'
  <2>1. /\ call' = [call EXCEPT ![c] = Idle] /\ call[c].pc = "checked"
        /\ UNCHANGED <<history, published, lost>>
    BY <1>4 DEF Conflict, Crash
  <2>2. Idle.pc # "committed" /\ call[c].pc # "committed"
    BY <2>1 DEF Idle
  <2>3. (\A t \in Tasks : InFlight(t)' = InFlight(t)) /\ RowsHaveOneOwner'
    BY <2>1, <2>2, NothingOwed DEF AccountInv
  <2>4. QED
    BY <1>1, <2>1, <2>3
<1>5. ASSUME NEW c \in Callers, Commit(c) PROVE AccountInv'
  BY <1>0, <1>5, CommitAccount DEF AccountInv
<1>6. ASSUME NEW c \in Callers, Publish(c) PROVE AccountInv'
  BY <1>0, <1>6, PublishAccount DEF AccountInv
<1>7. ASSUME NEW c \in Callers, Crash(c), call[c].pc = "committed" PROVE AccountInv'
  BY <1>0, <1>7, LossAccount DEF AccountInv
<1>8. CASE UNCHANGED vars
  BY <1>1, <1>8 DEF vars, InFlight, RowsHaveOneOwner, AccountInv
<1>9. QED
  BY <1>2, <1>3, <1>4, <1>5, <1>6, <1>7, <1>8 DEF Next, Crash

\* For any number of tasks, callers and crashes, each committed move is announced
\* once, is owed by one call, or was lost with its process.
THEOREM EveryMoveAccountedFor == Spec => []MovesAccountedFor
<1>1. AccountInv => MovesAccountedFor
  BY DEF AccountInv
<1>2. QED
  BY <1>1, AccountInit, AccountStep, PTL DEF Spec
----------------------------------------------------------------------------
Owes(p) == IF p.from = "REWORK" /\ p.to = "QUEUED" THEN 1 ELSE 0

\* The number a call computed from the row it read is at most what the trail
\* counts now, and one more if the call itself is a requeue; its key names it.
PendingAttempts ==
  \A c \in Callers : call[c].pc = "checked" =>
    /\ call[c].attempt <= Cardinality(Requeues(call[c].task)) + Owes(call[c])
    /\ call[c].key = call[c].attempt

AttemptInv == TypeOK /\ AttemptsAreRequeues /\ PendingAttempts

LEMMA RequeuesFinite ==
  ASSUME TypeOK, NEW t \in Tasks
  PROVE  IsFiniteSet(Requeues(t)) /\ Cardinality(Requeues(t)) \in Nat
         /\ DOMAIN history[t] = 1..Len(history[t]) /\ Len(history[t]) \in Nat
<1>1. history[t] \in Seq(Entry)
  BY DEF TypeOK
<1>2. DOMAIN history[t] = 1..Len(history[t]) /\ Len(history[t]) \in Nat
  BY <1>1
<1>3. Requeues(t) \in SUBSET (1..Len(history[t]))
  BY <1>2 DEF Requeues
<1>4. IsFiniteSet(1..Len(history[t]))
  BY <1>2, FS_Interval
<1>5. IsFiniteSet(Requeues(t))
  BY <1>3, <1>4, FS_Subset
<1>6. QED
  BY <1>2, <1>5, FS_CardinalityType

LEMMA AttemptInit == Init => AttemptInv
<1> SUFFICES ASSUME Init PROVE AttemptInv
  OBVIOUS
<1>1. TypeOK
  BY TypeInit
<1>2. AttemptsAreRequeues
  BY <1>1, RequeuesFinite DEF Init, AttemptsAreRequeues
<1>3. PendingAttempts
  BY DEF Init, PendingAttempts, Idle
<1>4. QED
  BY <1>1, <1>2, <1>3 DEF AttemptInv

LEMMA CommitAttempts ==
  ASSUME AttemptInv, NEW c \in Callers, Commit(c)
  PROVE  AttemptsAreRequeues' /\ PendingAttempts'
<1>0. PICK u \in Tasks, p \in Pending : u = p.task /\ p = call[c]
  BY CallShape DEF Commit, AttemptInv, TypeOK, Pending
<1> DEFINE e == [from |-> p.from, to |-> p.to, attempt |-> p.attempt, rationale |-> p.rationale]
           n == Len(history[u]) + 1
<1>1. /\ p.attempt <= Cardinality(Requeues(u)) + Owes(p) /\ p.attempt \in Nat
      /\ task'[u].attempt = p.attempt /\ task'[u].key = p.key /\ p.key = p.attempt
      /\ history'[u] = Append(history[u], e)
      /\ call'[c].pc = "committed"
      /\ \A t \in Tasks \ {u} : task'[t] = task[t] /\ history'[t] = history[t]
      /\ \A d \in Callers \ {c} : call'[d] = call[d]
  BY <1>0 DEF Commit, AttemptInv, PendingAttempts, TypeOK, Pending
<1>2. \A t \in Tasks : Cardinality(Requeues(t)) \in Nat
  BY RequeuesFinite DEF AttemptInv
<1>3. /\ DOMAIN history'[u] = DOMAIN history[u] \cup {n} /\ n \notin DOMAIN history[u]
      /\ history'[u][n] = e
      /\ \A i \in DOMAIN history[u] : history'[u][i] = history[u][i]
  <2>1. history[u] \in Seq(Entry) /\ e \in Entry
    BY DEF AttemptInv, TypeOK, Pending, Entry
  <2>2. DOMAIN Append(history[u], e) = 1..n /\ DOMAIN history[u] = 1..(n - 1)
        /\ n \in Nat \ {0} /\ Append(history[u], e)[n] = e
        /\ \A i \in 1..(n - 1) : Append(history[u], e)[i] = history[u][i]
    BY <2>1
  <2> HIDE DEF e, n
  <2>3. QED
    BY <1>1, <2>2
<1>4. e.from = p.from /\ e.to = p.to
  OBVIOUS
<1> HIDE DEF e, n
<1>5. Requeues(u)' = IF Owes(p) = 1 THEN Requeues(u) \cup {n} ELSE Requeues(u)
  BY <1>3, <1>4 DEF Requeues, Owes
<1>6. Cardinality(Requeues(u)') = Cardinality(Requeues(u)) + Owes(p)
  <2>1. n \notin Requeues(u)
    BY <1>3 DEF Requeues
  <2>2. IsFiniteSet(Requeues(u))
    BY RequeuesFinite DEF AttemptInv
  <2>3. Cardinality(Requeues(u) \cup {n}) = Cardinality(Requeues(u)) + 1
    BY <2>1, <2>2, FS_AddElement
  <2>4. Owes(p) \in {0, 1}
    BY DEF Owes
  <2>5. QED
    BY <1>2, <1>5, <2>3, <2>4
<1>7. \A t \in Tasks \ {u} : Requeues(t)' = Requeues(t)
  BY <1>1 DEF Requeues
<1>8. AttemptsAreRequeues'
  <2>1. ASSUME NEW t \in Tasks
        PROVE  task'[t].attempt <= Cardinality(Requeues(t)') /\ task'[t].key = task'[t].attempt
    <3>1. CASE t = u
      BY <1>1, <1>6, <3>1
    <3>2. CASE t # u
      BY <1>1, <1>7, <3>2 DEF AttemptInv, AttemptsAreRequeues
    <3>3. QED
      BY <3>1, <3>2
  <2>2. QED
    BY <2>1 DEF AttemptsAreRequeues
<1>9. PendingAttempts'
  <2>1. ASSUME NEW d \in Callers, call'[d].pc = "checked"
        PROVE  /\ call'[d].attempt <= (Cardinality(Requeues(call[d].task)) + Owes(call[d]))'
               /\ call'[d].key = call'[d].attempt
    <3>1. d # c /\ call'[d] = call[d]
      BY <1>1, <2>1
    <3>2. PICK q \in Pending : q = call[d]
      BY <2>1, <3>1, CallShape DEF AttemptInv, TypeOK
    <3>3. q.attempt <= Cardinality(Requeues(q.task)) + Owes(q) /\ q.key = q.attempt
      BY <2>1, <3>1, <3>2 DEF AttemptInv, PendingAttempts
    <3>4. q.task \in Tasks /\ q.attempt \in Nat /\ Owes(q) \in {0, 1}
      BY DEF Pending, Owes
    <3>5. Cardinality(Requeues(q.task)') \in Nat
          /\ Cardinality(Requeues(q.task)') >= Cardinality(Requeues(q.task))
      <4>1. Owes(p) \in {0, 1}
        BY DEF Owes
      <4>2. CASE q.task = u
        BY <1>2, <1>6, <3>4, <4>1, <4>2
      <4>3. CASE q.task # u
        BY <1>2, <1>7, <3>4, <4>3
      <4>4. QED
        BY <4>2, <4>3
    <3>6. q.attempt <= Cardinality(Requeues(q.task)') + Owes(q)
      BY <1>2, <3>3, <3>4, <3>5
    <3>7. QED
      BY <3>1, <3>2, <3>3, <3>6
  <2>2. QED
    BY <2>1 DEF PendingAttempts
<1>10. QED
  BY <1>8, <1>9

LEMMA BeginAttempts ==
  ASSUME AttemptInv, NEW c \in Callers, Begin(c)
  PROVE  AttemptsAreRequeues' /\ PendingAttempts'
<1>1. PICK t \in Tasks, from \in Scope, to \in Scope, r \in BOOLEAN :
        BeginTransition(c, t, from, to, r)
  BY DEF Begin
<1> DEFINE x == [pc |-> "checked", task |-> t, from |-> from, to |-> to,
                 attempt |-> NextAttempt(task[t], from, to),
                 key |-> NextKey(task[t], from, to), rationale |-> r]
<1>2. call' = [call EXCEPT ![c] = x] /\ UNCHANGED <<task, history>>
  BY <1>1 DEF BeginTransition
<1>3. x.attempt <= Cardinality(Requeues(x.task)) + Owes(x) /\ x.key = x.attempt
  <2>1. task[t] \in Row
    BY DEF AttemptInv, TypeOK
  <2>2. /\ task[t].attempt \in Nat /\ task[t].attempt <= Cardinality(Requeues(t))
        /\ task[t].key = task[t].attempt
    BY <2>1 DEF AttemptInv, AttemptsAreRequeues, Row
  <2>3. Cardinality(Requeues(t)) \in Nat
    BY RequeuesFinite DEF AttemptInv
  <2>4. QED
    BY <2>2, <2>3 DEF NextAttempt, NextKey, Owes
<1> HIDE DEF x
<1>4. \A t1 \in Tasks : Requeues(t1)' = Requeues(t1)
  BY <1>2 DEF Requeues
<1>5. AttemptsAreRequeues'
  BY <1>2, <1>4 DEF AttemptInv, AttemptsAreRequeues
<1>6. PendingAttempts'
  BY <1>2, <1>3 DEF AttemptInv, PendingAttempts, TypeOK, Requeues
<1>7. QED
  BY <1>5, <1>6

LEMMA AttemptStep == AttemptInv /\ [Next]_vars => AttemptInv'
<1> SUFFICES ASSUME AttemptInv, [Next]_vars PROVE AttemptInv'
  OBVIOUS
<1>0. TypeOK'
  BY TypeStep DEF AttemptInv
<1>1. ASSUME NEW t \in Tasks, CreateTask(t) PROVE AttemptInv'
  <2>1. \A q \in Tasks : Requeues(q)' = Requeues(q) /\ Cardinality(Requeues(q)) \in Nat
    BY <1>1, RequeuesFinite DEF CreateTask, Requeues, AttemptInv
  <2>2. AttemptsAreRequeues'
    BY <1>1, <2>1 DEF CreateTask, AttemptInv, AttemptsAreRequeues, TypeOK
  <2>3. PendingAttempts'
    BY <1>1 DEF CreateTask, AttemptInv, PendingAttempts, Requeues
  <2>4. QED
    BY <1>0, <2>2, <2>3 DEF AttemptInv
<1>2. ASSUME NEW c \in Callers, Begin(c) PROVE AttemptInv'
  BY <1>0, <1>2, BeginAttempts DEF AttemptInv
<1>3. ASSUME NEW c \in Callers, Commit(c) PROVE AttemptInv'
  BY <1>0, <1>3, CommitAttempts DEF AttemptInv
<1>4. ASSUME NEW c \in Callers, Conflict(c) \/ Publish(c) \/ Crash(c) PROVE AttemptInv'
  <2>1. UNCHANGED <<task, history>> /\ call' = [call EXCEPT ![c] = Idle]
    BY <1>4 DEF Conflict, Publish, Crash
  <2>2. AttemptsAreRequeues'
    BY <2>1 DEF AttemptInv, AttemptsAreRequeues, Requeues
  <2>3. call'[c].pc = "idle" /\ \A d \in Callers \ {c} : call'[d] = call[d]
    BY <2>1 DEF AttemptInv, TypeOK, Idle
  <2>4. PendingAttempts'
    BY <2>1, <2>3 DEF AttemptInv, PendingAttempts, Requeues
  <2>5. QED
    BY <1>0, <2>2, <2>4 DEF AttemptInv
<1>5. CASE UNCHANGED vars
  BY <1>0, <1>5 DEF vars, AttemptInv, AttemptsAreRequeues, PendingAttempts, Requeues
<1>6. QED
  BY <1>1, <1>2, <1>3, <1>4, <1>5 DEF Next

\* For any number of tasks and callers, an attempt is never invented: the row's
\* number is at most the requeues the trail shows, and its key is that number.
THEOREM AttemptsNeverInvented == Spec => []AttemptsAreRequeues
<1>1. AttemptInv => AttemptsAreRequeues
  BY DEF AttemptInv
<1>2. QED
  BY <1>1, AttemptInit, AttemptStep, PTL DEF Spec
============================================================================
