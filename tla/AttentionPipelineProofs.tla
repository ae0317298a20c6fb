---------------------- MODULE AttentionPipelineProofs ----------------------
(***************************************************************************)
(* What TLAPS proves of AttentionPipeline, for any number of tasks, rows,  *)
(* reviewers, rounds and crashes, with and without sampling: the types,    *)
(* that each row's status tells the decisions about it, that a killed      *)
(* executor approves nothing new, that rows are the items of QueueItem,    *)
(* and that a task's outcome was decided on its own change, unless a       *)
(* control of an earlier round has overtaken it.                           *)
(***************************************************************************)
EXTENDS AttentionPipeline, TLAPS

Exists(q) == row[q] # NoRow

\* RowMatchesDecisions for one row, one implication per status.
Tells(q) ==
  /\ row[q].status \in {"NONE", "QUEUED", "CLAIMED"} => decisions[q] = <<>>
  /\ row[q].status = "DROPPED" => decisions[q] = <<"DEFERRED">>
  /\ row[q].status = "ESCALATED" => decisions[q] = <<"ESCALATED">>
  /\ row[q].status = "DECIDED" =>
       \/ decisions[q] = <<>> /\ exec[q] \in {"flipped", "failed"}
       \/ decisions[q] = <<"AUTO_APPROVED">>
          /\ exec[q] \in {"recorded", "sampling", "done", "failed"}
       \/ \E v \in Verdicts : decisions[q] = <<v>>
          /\ exec[q] \in {"none", "started", "loaded", "allowed", "denied", "failed"}

\* An execution is of a row that was enqueued, and is past its flip only on a
\* row it decided.
ExecFits ==
  \A q \in Rows :
    /\ exec[q] # "none" => Exists(q)
    /\ exec[q] \in {"flipped", "recorded", "sampling", "done"} => row[q].status = "DECIDED"

\* A decide request is about a row that was enqueued, and what it has recorded
\* is there.
RequestsFit ==
  \A r \in Reviewers : deciding[r] # Idle =>
    /\ Exists(deciding[r].row)
    /\ deciding[r].step = "recorded" =>
         /\ row[deciding[r].row].status = "DECIDED"
         /\ decisions[deciding[r].row] = <<deciding[r].verdict>>

\* A change to be routed is of a round that has begun.
RoundsBegun == \A run \in todo : run.do = "route" => run.of[2] <= task[run.of[1]].round

\* The switch stays off from the kill request on, and only executions that
\* read their row after it are late.
SwitchStaysOff ==
  /\ late # {} => killing # "no"
  /\ killing # "no" => ~ switch.enabled

\* The inductive invariant of the pipeline, with and without sampling.
PipeInv ==
  /\ PipeTypeOK
  /\ \A q \in Rows : Tells(q)
  /\ ExecFits /\ RequestsFit /\ RoundsBegun /\ SwitchStaysOff /\ LateExecutionsDenied
-----------------------------------------------------------------------------
Statuses == {"QUEUED", "CLAIMED", "DECIDED", "DROPPED", "ESCALATED"}

\* A row that was enqueued is a record; its status says that it was.
LEMMA RowShape ==
  ASSUME TypeOK, NEW q \in Rows
  PROVE  /\ Exists(q) <=> row[q] \in QueueRow
         /\ Exists(q) <=> row[q].status \in Statuses
         /\ Exists(q) <=> row[q].status # "NONE"
         /\ Exists(q) => row[q].of \in Changes /\ row[q].action \in Actions
                         /\ row[q].sampled \in BOOLEAN
         /\ row[q].status \in Statuses \cup {"NONE"}
<1>1. NoRow.status = "NONE"
  BY DEF NoRow
<1>2. \A x \in QueueRow : /\ x.status \in Statuses /\ x.of \in Changes
                          /\ x.action \in Actions /\ x.sampled \in BOOLEAN
  BY DEF QueueRow, Statuses
<1>3. row[q] \in QueueRow \cup {NoRow}
  BY DEF TypeOK
<1>4. "NONE" \notin Statuses
  BY DEF Statuses
<1>5. QED
  BY <1>1, <1>2, <1>3, <1>4 DEF Exists

\* RowMatchesDecisions is Tells of every row.
LEMMA TellsAll ==
  ASSUME TypeOK
  PROVE  RowMatchesDecisions <=> \A q \in Rows : Tells(q)
<1>1. ASSUME NEW q \in Rows
      PROVE (LET d == decisions[q] IN
             CASE row[q].status \in {"NONE", "QUEUED", "CLAIMED"} -> d = <<>>
               [] row[q].status = "DROPPED" -> d = <<"DEFERRED">>
               [] row[q].status = "ESCALATED" -> d = <<"ESCALATED">>
               [] row[q].status = "DECIDED" ->
                    \/ d = <<>> /\ exec[q] \in {"flipped", "failed"}
                    \/ d = <<"AUTO_APPROVED">>
                       /\ exec[q] \in {"recorded", "sampling", "done", "failed"}
                    \/ \E v \in Verdicts : d = <<v>>
                       /\ exec[q] \in {"none", "started", "loaded", "allowed", "denied", "failed"})
            <=> Tells(q)
  <2>1. row[q].status \in Statuses \cup {"NONE"}
    BY RowShape
  <2>2. QED
    BY <2>1 DEF Tells, Statuses
<1>2. QED
  BY <1>1 DEF RowMatchesDecisions

\* What a change of status does to the table.
LEMMA StatusSet ==
  ASSUME TypeOK, NEW q \in Rows, Exists(q), NEW s \in Statuses,
         row' = [row EXCEPT ![q].status = s]
  PROVE  /\ row' \in [Rows -> QueueRow \cup {NoRow}]
         /\ \A p \in Rows : p # q => row'[p] = row[p]
         /\ row'[q] \in QueueRow /\ row'[q].status = s
         /\ row'[q].of = row[q].of /\ row'[q].action = row[q].action
         /\ row'[q].sampled = row[q].sampled
         /\ \A p \in Rows : Exists(p)' <=> Exists(p)
<1>1. row[q] \in QueueRow
  BY RowShape
<1>2. /\ [row[q] EXCEPT !.status = s] \in QueueRow
      /\ [row[q] EXCEPT !.status = s].status = s
      /\ [row[q] EXCEPT !.status = s].of = row[q].of
      /\ [row[q] EXCEPT !.status = s].action = row[q].action
      /\ [row[q] EXCEPT !.status = s].sampled = row[q].sampled
  BY <1>1 DEF QueueRow, Statuses
<1>3. row \in [Rows -> QueueRow \cup {NoRow}]
  BY DEF TypeOK
<1>4. row' \in [Rows -> QueueRow \cup {NoRow}]
      /\ row'[q] = [row[q] EXCEPT !.status = s]
      /\ \A p \in Rows : p # q => row'[p] = row[p]
  BY <1>2, <1>3
<1>5. row'[q] # NoRow
  <2>1. NoRow.status = "NONE" /\ "NONE" \notin Statuses
    BY DEF NoRow, Statuses
  <2>2. QED
    BY <2>1, <1>2, <1>4
<1>6. QED
  BY <1>2, <1>4, <1>5 DEF Exists

\* What an insert does to the table.
LEMMA RowInserted ==
  ASSUME TypeOK, NEW q \in Rows, NEW ch \in Changes, NEW a \in Actions, NEW s \in BOOLEAN,
         Enqueued(q, ch, a, s)
  PROVE  /\ ~ Exists(q) /\ row' \in [Rows -> QueueRow \cup {NoRow}]
         /\ \A p \in Rows : p # q => row'[p] = row[p]
         /\ Exists(q)' /\ row'[q].status = "QUEUED" /\ row'[q].of = ch
         /\ row'[q].action = a /\ row'[q].sampled = s
         /\ \A p \in Rows : Exists(p) => Exists(p)' /\ row'[p] = row[p]
<1> DEFINE new == [status |-> "QUEUED", of |-> ch, action |-> a, sampled |-> s]
<1>1. new \in QueueRow /\ new.status = "QUEUED" /\ new.of = ch /\ new.action = a
      /\ new.sampled = s
  BY DEF QueueRow
<1>2. row \in [Rows -> QueueRow \cup {NoRow}] /\ row[q] = NoRow
      /\ row' = [row EXCEPT ![q] = new]
  BY DEF TypeOK, Enqueued
<1> HIDE DEF new
<1>3. row' \in [Rows -> QueueRow \cup {NoRow}] /\ row'[q] = new
      /\ \A p \in Rows : p # q => row'[p] = row[p]
  BY <1>1, <1>2
<1>4. new # NoRow
  BY <1>1 DEF NoRow
<1>5. QED
  BY <1>1, <1>2, <1>3, <1>4 DEF Exists

\* A row that nothing about its status, decisions and execution changes keeps
\* its story.
LEMMA TellsKept ==
  ASSUME NEW p \in Rows, Tells(p), row'[p].status = row[p].status,
         decisions'[p] = decisions[p], exec'[p] = exec[p]
  PROVE  Tells(p)'
BY DEF Tells
-----------------------------------------------------------------------------
LEMMA PipeInvInit == PipeInit => PipeInv
<1> SUFFICES ASSUME PipeInit PROVE PipeInv
  OBVIOUS
<1> USE DEF PipeInit, Init
<1>1. /\ task \in [Tasks -> [state : TaskPhases, round : 0..MaxRounds]]
      /\ change \in [Changes -> ChangeStatuses]
      /\ row \in [Rows -> QueueRow \cup {NoRow}]
      /\ decisions \in [Rows -> Seq(DecisionTypes)]
  BY RoundsAssumption DEF RoundsAssumption, TaskPhases, ChangeStatuses
<1>2. /\ deciding \in [Reviewers -> Request \cup {Idle}] /\ crashes \in 0..MaxCrashes
      /\ todo \subseteq [do : {"route", "reviewed", "leak"}, of : Changes]
  BY RoundsAssumption DEF RoundsAssumption
<1>3. PipeTypeOK
  BY <1>1, <1>2 DEF PipeTypeOK, TypeOK, ExecSteps
<1>4. \A q \in Rows : row[q].status = "NONE" /\ decisions[q] = <<>> /\ exec[q] = "none"
  BY DEF NoRow
<1>5. \A q \in Rows : Tells(q)
  BY <1>4 DEF Tells
<1>6. ExecFits /\ RequestsFit /\ RoundsBegun
  BY <1>4 DEF ExecFits, RequestsFit, RoundsBegun
<1>7. SwitchStaysOff /\ LateExecutionsDenied
  BY DEF SwitchStaysOff, LateExecutionsDenied
<1>8. QED
  BY <1>3, <1>5, <1>6, <1>7 DEF PipeInv

\* A step that leaves rows, decisions, executions and the switch alone, and
\* only brings requests nearer to their end, keeps the invariant if its types
\* and rounds are right.
LEMMA RequestStep ==
  ASSUME PipeInv, UNCHANGED <<row, decisions, exec, killing, late, crashes>>,
         switch' \in [flag : BOOLEAN, enabled : BOOLEAN], switch'.enabled = switch.enabled,
         task' \in [Tasks -> [state : TaskPhases, round : 0..MaxRounds]],
         change' \in [Changes -> ChangeStatuses],
         todo' \subseteq [do : {"route", "reviewed", "leak"}, of : Changes],
         leaked' \subseteq Changes,
         \A run \in todo' : run.do = "route" => run.of[2] <= task'[run.of[1]].round,
         deciding' \in [Reviewers -> Request \cup {Idle}],
         \A r \in Reviewers :
           \/ deciding'[r] = deciding[r]
           \/ deciding'[r] = Idle
           \/ /\ deciding[r] # Idle /\ deciding'[r].row = deciding[r].row
              /\ deciding'[r].step # "recorded"
  PROVE  PipeInv'
<1>1. PipeTypeOK'
  BY DEF PipeInv, PipeTypeOK, TypeOK
<1>2. \A q \in Rows : Tells(q)'
  BY DEF PipeInv, Tells
<1>3. RequestsFit'
  BY DEF PipeInv, RequestsFit, Exists
<1>4. ExecFits' /\ RoundsBegun'
  BY DEF PipeInv, ExecFits, RoundsBegun, Exists
<1>5. SwitchStaysOff' /\ LateExecutionsDenied'
  BY DEF PipeInv, SwitchStaysOff, LateExecutionsDenied
<1>6. QED
  BY <1>1, <1>2, <1>3, <1>4, <1>5 DEF PipeInv

\* The same for a step that leaves the requests alone too.
LEMMA QuietStep ==
  ASSUME PipeInv, UNCHANGED <<row, decisions, deciding, exec, killing, late, crashes>>,
         switch' \in [flag : BOOLEAN, enabled : BOOLEAN], switch'.enabled = switch.enabled,
         task' \in [Tasks -> [state : TaskPhases, round : 0..MaxRounds]],
         change' \in [Changes -> ChangeStatuses],
         todo' \subseteq [do : {"route", "reviewed", "leak"}, of : Changes],
         leaked' \subseteq Changes,
         \A run \in todo' : run.do = "route" => run.of[2] <= task'[run.of[1]].round
  PROVE  PipeInv'
<1>1. deciding' \in [Reviewers -> Request \cup {Idle}]
  BY DEF PipeInv, PipeTypeOK, TypeOK
<1>2. QED
  BY <1>1, RequestStep

\* A human's step on a row, from QUEUED or CLAIMED, keeps the invariant if
\* what it records fits the new status and any new request fits the row.
LEMMA HumanStep ==
  ASSUME PipeInv, NEW q \in Rows, NEW s \in Statuses,
         row[q].status \in {"QUEUED", "CLAIMED"},
         row' = [row EXCEPT ![q].status = s],
         decisions' \in [Rows -> Seq(DecisionTypes)],
         \A p \in Rows : p # q => decisions'[p] = decisions[p],
         Tells(q)', decisions'[q] # <<"AUTO_APPROVED">>,
         deciding' \in [Reviewers -> Request \cup {Idle}],
         \A r \in Reviewers :
           \/ deciding'[r] = deciding[r]
           \/ deciding'[r].row = q /\ s = "DECIDED" /\ decisions'[q] = <<deciding'[r].verdict>>,
         UNCHANGED <<task, change, todo, crashes, pipeVars>>
  PROVE  PipeInv'
<1> USE DEF pipeVars
<1>1. PipeTypeOK /\ TypeOK
  BY DEF PipeInv, PipeTypeOK
<1>2. Exists(q)
  BY <1>1, RowShape
<1>3. /\ row' \in [Rows -> QueueRow \cup {NoRow}]
      /\ \A p \in Rows : p # q => row'[p] = row[p]
      /\ row'[q].status = s
      /\ \A p \in Rows : Exists(p)' <=> Exists(p)
  BY <1>1, <1>2, StatusSet
<1>4. PipeTypeOK'
  BY <1>1, <1>3 DEF PipeTypeOK, TypeOK
<1>5. \A p \in Rows : Tells(p)'
  BY <1>3 DEF PipeInv, Tells
<1>6. ExecFits'
  BY <1>3 DEF PipeInv, ExecFits
<1>7. RequestsFit'
  <2> SUFFICES ASSUME NEW r \in Reviewers, deciding'[r] # Idle
               PROVE  /\ Exists(deciding[r].row)'
                      /\ deciding'[r].step = "recorded" =>
                           /\ row'[deciding'[r].row].status = "DECIDED"
                           /\ decisions'[deciding'[r].row] = <<deciding'[r].verdict>>
    BY DEF RequestsFit
  <2>1. deciding'[r] \in Request /\ deciding'[r].row \in Rows
    BY DEF Request
  <2>2. CASE deciding'[r] = deciding[r]
    <3>1. Exists(deciding[r].row)
          /\ (deciding[r].step = "recorded" =>
                /\ row[deciding[r].row].status = "DECIDED"
                /\ decisions[deciding[r].row] = <<deciding[r].verdict>>)
      BY <2>2 DEF PipeInv, RequestsFit
    <3>2. CASE deciding[r].row = q
      BY <1>2, <1>3, <2>2, <3>1, <3>2
    <3>3. CASE deciding[r].row # q
      BY <1>3, <2>1, <2>2, <3>1, <3>3
    <3>4. QED
      BY <3>2, <3>3
  <2>3. CASE deciding'[r].row = q /\ s = "DECIDED" /\ decisions'[q] = <<deciding'[r].verdict>>
    BY <1>2, <1>3, <2>1, <2>3
  <2>4. QED
    BY <2>2, <2>3
<1>8. RoundsBegun' /\ SwitchStaysOff' /\ LateExecutionsDenied'
  BY <1>1 DEF PipeInv, PipeTypeOK, RoundsBegun, SwitchStaysOff, LateExecutionsDenied
<1>9. QED
  BY <1>4, <1>5, <1>6, <1>7, <1>8 DEF PipeInv

-----------------------------------------------------------------------------
LEMMA SubmitKeeps ==
  ASSUME PipeInv, NEW t \in Tasks, SubmitForReview(t), UNCHANGED pipeVars
  PROVE  PipeInv'
<1> USE DEF pipeVars
<1>1. /\ TypeOK /\ switch \in [flag : BOOLEAN, enabled : BOOLEAN] /\ leaked \subseteq Changes
      /\ task[t] \in [state : TaskPhases, round : 0..MaxRounds]
      /\ MaxRounds \in Nat
  BY RoundsAssumption DEF PipeInv, PipeTypeOK, TypeOK, RoundsAssumption
<1> DEFINE n == task[t].round + 1
<1>2. n \in 1..MaxRounds /\ n \in 0..MaxRounds /\ n > task[t].round /\ n \in Nat
  BY <1>1 DEF SubmitForReview
<1>3. <<t, n>> \in Changes
  BY <1>2 DEF Changes
<1> HIDE DEF n
<1>4. /\ task' = [task EXCEPT ![t] = [state |-> "AWAITING_REVIEW", round |-> n]]
      /\ change' = [change EXCEPT ![<<t, n>>] = "PENDING"]
      /\ todo' = todo \cup {[do |-> "route", of |-> <<t, n>>]}
      /\ UNCHANGED <<row, decisions, deciding, crashes>>
  BY <1>1 DEF SubmitForReview, n
<1>5. task' \in [Tasks -> [state : TaskPhases, round : 0..MaxRounds]]
  BY <1>1, <1>2, <1>4 DEF TypeOK, TaskPhases
<1>6. change' \in [Changes -> ChangeStatuses]
  BY <1>1, <1>3, <1>4 DEF TypeOK, ChangeStatuses
<1>7. todo' \subseteq [do : {"route", "reviewed", "leak"}, of : Changes]
  <2>1. [do |-> "route", of |-> <<t, n>>] \in [do : {"route", "reviewed", "leak"}, of : Changes]
    BY <1>3
  <2>2. QED
    BY <1>1, <1>4, <2>1 DEF TypeOK
<1>8. ASSUME NEW run \in todo', run.do = "route" PROVE run.of[2] <= task'[run.of[1]].round
  <2>1. run.of \in Changes /\ run.of[1] \in Tasks /\ run.of[2] \in Nat
    BY <1>7, <1>8 DEF Changes
  <2>2. task'[t].round = n /\ \A u \in Tasks : u # t => task'[u] = task[u]
    BY <1>1, <1>4 DEF TypeOK
  <2>3. CASE run \in todo
    <3>1. run.of[2] <= task[run.of[1]].round
      BY <1>8, <2>3 DEF PipeInv, RoundsBegun
    <3>2. task[t].round \in Nat
      BY <1>1
    <3>3. CASE run.of[1] = t
      BY <1>2, <2>1, <2>2, <3>1, <3>2, <3>3
    <3>4. CASE run.of[1] # t
      BY <2>1, <2>2, <3>1, <3>4
    <3>5. QED
      BY <3>3, <3>4
  <2>4. CASE run = [do |-> "route", of |-> <<t, n>>]
    BY <1>2, <2>2, <2>4
  <2>5. QED
    BY <1>4, <2>3, <2>4
<1>9. QED
  BY <1>1, <1>4, <1>5, <1>6, <1>7, <1>8, QuietStep DEF TypeOK

\* Neither a verdict nor going back to work changes a task's round.
LEMMA TaskMoved ==
  ASSUME PipeInv, NEW t \in Tasks, NEW s \in TaskPhases, task' = [task EXCEPT ![t].state = s]
  PROVE  /\ task' \in [Tasks -> [state : TaskPhases, round : 0..MaxRounds]]
         /\ \A u \in Tasks : task'[u].round = task[u].round
         /\ task'[t].state = s /\ \A u \in Tasks : u # t => task'[u] = task[u]
         /\ \A run \in todo : run.do = "route" => run.of[2] <= task'[run.of[1]].round
<1>1. task \in [Tasks -> [state : TaskPhases, round : 0..MaxRounds]]
  BY DEF PipeInv, PipeTypeOK, TypeOK
<1>2. [task[t] EXCEPT !.state = s] \in [state : TaskPhases, round : 0..MaxRounds]
      /\ [task[t] EXCEPT !.state = s].round = task[t].round
      /\ [task[t] EXCEPT !.state = s].state = s
  BY <1>1
<1>3. /\ task' \in [Tasks -> [state : TaskPhases, round : 0..MaxRounds]]
      /\ \A u \in Tasks : task'[u].round = task[u].round
      /\ task'[t].state = s /\ \A u \in Tasks : u # t => task'[u] = task[u]
  BY <1>1, <1>2
<1>4. ASSUME NEW run \in todo, run.do = "route" PROVE run.of[2] <= task'[run.of[1]].round
  <2>1. run.of[1] \in Tasks
    BY DEF PipeInv, PipeTypeOK, TypeOK, Changes
  <2>2. QED
    BY <1>3, <1>4, <2>1 DEF PipeInv, RoundsBegun
<1>5. QED
  BY <1>3, <1>4

LEMMA BackToWorkKeeps ==
  ASSUME PipeInv, NEW t \in Tasks, BackToWork(t), UNCHANGED pipeVars
  PROVE  PipeInv'
<1>1. task' = [task EXCEPT ![t].state = "WORKING"] /\ "WORKING" \in TaskPhases
  BY DEF BackToWork, TaskPhases
<1>2. /\ task' \in [Tasks -> [state : TaskPhases, round : 0..MaxRounds]]
      /\ \A run \in todo : run.do = "route" => run.of[2] <= task'[run.of[1]].round
  BY <1>1, TaskMoved
<1>3. QED
  BY <1>2, QuietStep DEF BackToWork, pipeVars, PipeInv, PipeTypeOK, TypeOK

LEMMA StatusKeeps ==
  ASSUME PipeInv, NEW ch \in Changes, StatusVerified(ch) \/ StatusRolledBack(ch),
         UNCHANGED pipeVars
  PROVE  PipeInv'
<1>1. change' \in [Changes -> ChangeStatuses]
  BY DEF PipeInv, PipeTypeOK, TypeOK, StatusVerified, StatusRolledBack, ChangeStatuses
<1>2. \A run \in todo : run.do = "route" => run.of[2] <= task[run.of[1]].round
  BY DEF PipeInv, RoundsBegun
<1>3. QED
  BY <1>1, <1>2, QuietStep
     DEF StatusVerified, StatusRolledBack, pipeVars, PipeInv, PipeTypeOK, TypeOK

\* What a guarded flip records is the row's only decision.
LEMMA FlipRecords ==
  ASSUME PipeInv, NEW q \in Rows, row[q].status \in {"QUEUED", "CLAIMED"},
         NEW v \in DecisionTypes, decisions' = [decisions EXCEPT ![q] = Append(@, v)]
  PROVE  /\ decisions' \in [Rows -> Seq(DecisionTypes)]
         /\ \A p \in Rows : p # q => decisions'[p] = decisions[p]
         /\ decisions'[q] = <<v>>
<1>1. decisions[q] = <<>>
  BY DEF PipeInv, Tells
<1>2. Append(<<>>, v) = <<v>>
  OBVIOUS
<1>3. QED
  BY <1>1, <1>2 DEF PipeInv, PipeTypeOK, TypeOK

\* An execution is not past its flip while a human may still act on the row.
LEMMA NotYetFlipped ==
  ASSUME PipeInv, NEW q \in Rows, row[q].status # "DECIDED"
  PROVE  exec[q] \in {"none", "started", "loaded", "allowed", "denied", "failed"}
BY DEF PipeInv, PipeTypeOK, ExecFits, ExecSteps

LEMMA ClaimReleaseKeeps ==
  ASSUME PipeInv, NEW q \in Rows, Claim(q) \/ Release(q), UNCHANGED pipeVars
  PROVE  PipeInv'
<1>1. PICK s \in {"QUEUED", "CLAIMED"} : row' = [row EXCEPT ![q].status = s]
  BY DEF Claim, Release
<1>2. /\ row[q].status \in {"QUEUED", "CLAIMED"}
      /\ UNCHANGED <<task, change, decisions, deciding, todo, crashes>>
  BY DEF Claim, Release, Releasable
<1>3. s \in Statuses /\ Exists(q) /\ TypeOK
  BY <1>1, <1>2, RowShape DEF Statuses, PipeInv, PipeTypeOK
<1>4. row'[q].status = s /\ decisions[q] = <<>> /\ <<>> # <<"AUTO_APPROVED">>
  BY <1>1, <1>2, <1>3, StatusSet DEF PipeInv, Tells
<1>5. Tells(q)'
  BY <1>1, <1>2, <1>4 DEF Tells
<1>6. /\ decisions' \in [Rows -> Seq(DecisionTypes)] /\ decisions'[q] # <<"AUTO_APPROVED">>
      /\ \A p \in Rows : p # q => decisions'[p] = decisions[p]
      /\ deciding' \in [Reviewers -> Request \cup {Idle}]
      /\ \A r \in Reviewers : deciding'[r] = deciding[r]
  BY <1>2, <1>3, <1>4 DEF TypeOK
<1>7. QED
  BY <1>1, <1>2, <1>3, <1>5, <1>6, HumanStep

LEMMA DropEscalateKeeps ==
  ASSUME PipeInv, NEW q \in Rows, Drop(q) \/ Escalate(q), UNCHANGED pipeVars
  PROVE  PipeInv'
<1>1. /\ row[q].status \in {"QUEUED", "CLAIMED"}
      /\ UNCHANGED <<task, change, deciding, todo, crashes>>
  BY DEF Drop, Escalate, Flip
<1>2. PICK s \in Statuses, v \in DecisionTypes :
        /\ row' = [row EXCEPT ![q].status = s]
        /\ decisions' = [decisions EXCEPT ![q] = Append(@, v)]
        /\ \/ s = "DROPPED" /\ v = "DEFERRED"
           \/ s = "ESCALATED" /\ v = "ESCALATED"
  <2>1. CASE Drop(q)
    BY <2>1 DEF Drop, Flip, Statuses, DecisionTypes
  <2>2. CASE Escalate(q)
    BY <2>2 DEF Escalate, Flip, Statuses, DecisionTypes
  <2>3. QED
    BY <2>1, <2>2
<1>3. Exists(q) /\ TypeOK
  BY <1>1, RowShape DEF PipeInv, PipeTypeOK
<1>4. row'[q].status = s
  BY <1>2, <1>3, StatusSet
<1>5. /\ decisions' \in [Rows -> Seq(DecisionTypes)]
      /\ \A p \in Rows : p # q => decisions'[p] = decisions[p]
      /\ decisions'[q] = <<v>>
  BY <1>1, <1>2, FlipRecords
<1>6. Tells(q)' /\ decisions'[q] # <<"AUTO_APPROVED">>
  <2>1. <<v>>[1] # <<"AUTO_APPROVED">>[1]
    BY <1>2
  <2>2. QED
    BY <1>2, <1>4, <1>5, <2>1 DEF Tells
<1>7. /\ deciding' \in [Reviewers -> Request \cup {Idle}]
      /\ \A r \in Reviewers : deciding'[r] = deciding[r]
  BY <1>1, <1>3 DEF TypeOK
<1>8. QED
  BY <1>1, <1>2, <1>5, <1>6, <1>7, HumanStep

LEMMA DecideKeeps ==
  ASSUME PipeInv, NEW r \in Reviewers, NEW q \in Rows, NEW v \in Verdicts, NEW g \in BOOLEAN,
         Decide(r, q, v, g), UNCHANGED pipeVars
  PROVE  PipeInv'
<1>1. /\ TypeOK /\ row[q] # NoRow /\ deciding[r] = Idle
      /\ UNCHANGED <<task, change, todo, crashes>>
  BY DEF Decide, PipeInv, PipeTypeOK
<1>2. ASSUME NEW st \in {"recorded", "refused"},
             deciding' = [deciding EXCEPT ![r] =
                            [step |-> st, row |-> q, verdict |-> v, given |-> g]]
      PROVE  /\ deciding' \in [Reviewers -> Request \cup {Idle}]
             /\ deciding'[r].row = q /\ deciding'[r].verdict = v /\ deciding'[r].step = st
             /\ \A s \in Reviewers : s # r => deciding'[s] = deciding[s]
  <2>1. [step |-> st, row |-> q, verdict |-> v, given |-> g] \in Request
    BY DEF Request
  <2>2. QED
    BY <1>1, <1>2, <2>1 DEF TypeOK
<1>3. CASE /\ deciding' = [deciding EXCEPT ![r] =
                [step |-> "refused", row |-> q, verdict |-> v, given |-> g]]
           /\ UNCHANGED <<row, decisions>>
  <2>1. PipeTypeOK'
    BY <1>1, <1>2, <1>3 DEF PipeInv, PipeTypeOK, TypeOK, pipeVars
  <2>2. RequestsFit'
    BY <1>1, <1>2, <1>3 DEF PipeInv, RequestsFit, Exists
  <2>3. \A p \in Rows : Tells(p)'
    BY <1>3 DEF PipeInv, Tells, pipeVars
  <2>4. QED
    BY <1>1, <1>3, <2>1, <2>2, <2>3
       DEF PipeInv, ExecFits, Exists, RoundsBegun, SwitchStaysOff, LateExecutionsDenied, pipeVars
<1>4. CASE /\ Flip(q, Decidable, "DECIDED", v)
           /\ deciding' = [deciding EXCEPT ![r] =
                [step |-> "recorded", row |-> q, verdict |-> v, given |-> g]]
  <2>1. /\ row[q].status \in {"QUEUED", "CLAIMED"} /\ v \in DecisionTypes
        /\ row' = [row EXCEPT ![q].status = "DECIDED"] /\ "DECIDED" \in Statuses
        /\ decisions' = [decisions EXCEPT ![q] = Append(@, v)]
    BY <1>4 DEF Flip, Decidable, DecisionTypes, Statuses
  <2>2. /\ decisions' \in [Rows -> Seq(DecisionTypes)]
        /\ \A p \in Rows : p # q => decisions'[p] = decisions[p]
        /\ decisions'[q] = <<v>>
    BY <2>1, FlipRecords
  <2>3. row'[q].status = "DECIDED"
    BY <1>1, <2>1, StatusSet DEF Exists
  <2>4. decisions'[q] # <<"AUTO_APPROVED">>
    <3>1. <<v>>[1] # <<"AUTO_APPROVED">>[1]
      BY DEF Verdicts
    <3>2. QED
      BY <2>2, <3>1
  <2>5. Tells(q)'
    <3>1. exec'[q] \in {"none", "started", "loaded", "allowed", "denied", "failed"}
      BY <2>1, NotYetFlipped DEF pipeVars
    <3>2. QED
      BY <2>2, <2>3, <3>1 DEF Tells
  <2>6. /\ deciding' \in [Reviewers -> Request \cup {Idle}]
        /\ \A s \in Reviewers :
             \/ deciding'[s] = deciding[s]
             \/ deciding'[s].row = q /\ "DECIDED" = "DECIDED"
                /\ decisions'[q] = <<deciding'[s].verdict>>
    BY <1>2, <1>4, <2>2
  <2>7. QED
    BY <1>1, <2>1, <2>2, <2>4, <2>5, <2>6, HumanStep
<1>5. QED
  BY <1>3, <1>4 DEF Decide

\* Outside keeps the invariant.
LEMMA OutsideKeeps ==
  ASSUME PipeInv, Outside, UNCHANGED pipeVars
  PROVE  PipeInv'
BY SubmitKeeps, BackToWorkKeeps, ClaimReleaseKeeps, DropEscalateKeeps, DecideKeeps,
   StatusKeeps DEF Outside
-----------------------------------------------------------------------------
LEMMA MoveTaskKeeps ==
  ASSUME PipeInv, NEW r \in Reviewers, MoveTask(r), UNCHANGED pipeVars
  PROVE  PipeInv'
<1> DEFINE p == deciding[r]
           t == row[p.row].of[1]
<1>1. /\ TypeOK /\ leaked \subseteq Changes
      /\ switch \in [flag : BOOLEAN, enabled : BOOLEAN]
      /\ \A run \in todo : run.do = "route" => run.of[2] <= task[run.of[1]].round
  BY DEF PipeInv, PipeTypeOK, RoundsBegun
<1>2. p \in Request /\ p # Idle /\ Exists(p.row)
  <2>1. Idle.step # "recorded"
    BY DEF Idle
  <2>2. p \in Request \cup {Idle} /\ p.step = "recorded"
    BY <1>1 DEF TypeOK, MoveTask
  <2>3. QED
    BY <2>1, <2>2 DEF PipeInv, RequestsFit
<1>3. p.row \in Rows /\ p.verdict \in TaskPhases
  BY <1>2 DEF Request, Verdicts, TaskPhases
<1>4. t \in Tasks
  BY <1>1, <1>2, <1>3, RowShape DEF Changes
<1>5. /\ deciding' \in [Reviewers -> Request \cup {Idle}]
      /\ \A s \in Reviewers :
           \/ deciding'[s] = deciding[s]
           \/ deciding'[s] = Idle
           \/ /\ deciding[s] # Idle /\ deciding'[s].row = deciding[s].row
              /\ deciding'[s].step # "recorded"
  <2>1. PICK x \in {"refused", "moved"} :
          \/ deciding' = [deciding EXCEPT ![r].step = x]
          \/ deciding' = [deciding EXCEPT ![r] = Idle]
    BY DEF MoveTask
  <2>2. /\ [p EXCEPT !.step = x] \in Request /\ [p EXCEPT !.step = x].step = x
        /\ [p EXCEPT !.step = x].row = p.row
    BY <1>2 DEF Request
  <2>3. deciding \in [Reviewers -> Request \cup {Idle}]
    BY <1>1 DEF TypeOK
  <2>4. \/ deciding' = [deciding EXCEPT ![r] = [p EXCEPT !.step = x]]
        \/ deciding' = [deciding EXCEPT ![r] = Idle]
    BY <2>1, <2>3
  <2> HIDE DEF p
  <2>5. p = deciding[r]
    BY DEF p
  <2>6. QED
    BY <1>2, <2>2, <2>3, <2>4, <2>5
<1>6. /\ task' \in [Tasks -> [state : TaskPhases, round : 0..MaxRounds]]
      /\ \A run \in todo : run.do = "route" => run.of[2] <= task'[run.of[1]].round
  <2>1. CASE UNCHANGED task
    BY <1>1, <2>1 DEF TypeOK
  <2>2. CASE task' = [task EXCEPT ![t].state = p.verdict]
    <3> HIDE DEF t, p
    <3>1. QED
      BY <1>3, <1>4, <2>2, TaskMoved
  <2>3. QED
    BY <2>1, <2>2 DEF MoveTask
<1>7. UNCHANGED <<change, row, decisions, todo, crashes>>
  BY DEF MoveTask
<1>8. QED
  BY <1>1, <1>5, <1>6, <1>7, RequestStep DEF TypeOK, pipeVars

LEMMA AnnounceKeeps ==
  ASSUME PipeInv, NEW r \in Reviewers, Announce(r), UNCHANGED pipeVars
  PROVE  PipeInv'
<1> DEFINE p == deciding[r]
           ch == row[p.row].of
<1>1. /\ TypeOK /\ leaked \subseteq Changes
      /\ switch \in [flag : BOOLEAN, enabled : BOOLEAN]
      /\ \A run \in todo : run.do = "route" => run.of[2] <= task[run.of[1]].round
  BY DEF PipeInv, PipeTypeOK, RoundsBegun
<1>2. p \in Request /\ p # Idle /\ Exists(p.row) /\ p.row \in Rows
  <2>1. Idle.step # "moved"
    BY DEF Idle
  <2>2. p \in Request \cup {Idle} /\ p.step = "moved"
    BY <1>1 DEF TypeOK, Announce
  <2>3. QED
    BY <2>1, <2>2 DEF PipeInv, RequestsFit, Request
<1>3. ch \in Changes
  BY <1>1, <1>2, RowShape
<1> HIDE DEF ch
<1>4. PICK new \in SUBSET [do : {"reviewed", "leak"}, of : {ch}] : todo' = todo \cup new
  <2>1. /\ [do |-> "reviewed", of |-> ch] \in [do : {"reviewed", "leak"}, of : {ch}]
        /\ [do |-> "leak", of |-> ch] \in [do : {"reviewed", "leak"}, of : {ch}]
    OBVIOUS
  <2>2. todo' = todo \cup ({[do |-> "reviewed", of |-> ch]}
          \cup (IF p.verdict = "REJECTED" THEN {[do |-> "leak", of |-> ch]} ELSE {}))
    BY DEF Announce, ch
  <2>3. QED
    BY <2>1, <2>2
<1>5. \A run \in new : /\ run \in [do : {"route", "reviewed", "leak"}, of : Changes]
                       /\ run.do # "route"
  BY <1>3
<1>6. /\ todo' \subseteq [do : {"route", "reviewed", "leak"}, of : Changes]
      /\ \A run \in todo' : run.do = "route" => run.of[2] <= task[run.of[1]].round
  BY <1>1, <1>4, <1>5 DEF TypeOK
<1>7. /\ deciding' \in [Reviewers -> Request \cup {Idle}]
      /\ \A s \in Reviewers : deciding'[s] = deciding[s] \/ deciding'[s] = Idle
  BY <1>1 DEF Announce, TypeOK
<1>8. UNCHANGED <<task, change, row, decisions, crashes>>
  BY DEF Announce
<1>9. QED
  BY <1>1, <1>6, <1>7, <1>8, RequestStep DEF TypeOK, pipeVars

LEMMA AnswerKeeps ==
  ASSUME PipeInv, NEW r \in Reviewers, AnswerRefusal(r), UNCHANGED pipeVars
  PROVE  PipeInv'
<1>1. /\ TypeOK /\ leaked \subseteq Changes
      /\ switch \in [flag : BOOLEAN, enabled : BOOLEAN]
      /\ \A run \in todo : run.do = "route" => run.of[2] <= task[run.of[1]].round
  BY DEF PipeInv, PipeTypeOK, RoundsBegun
<1>2. /\ deciding' \in [Reviewers -> Request \cup {Idle}]
      /\ \A s \in Reviewers : deciding'[s] = deciding[s] \/ deciding'[s] = Idle
  BY <1>1 DEF AnswerRefusal, TypeOK
<1>3. QED
  BY <1>1, <1>2, RequestStep DEF AnswerRefusal, TypeOK, pipeVars

LEMMA StatusReviewedKeeps ==
  ASSUME PipeInv, NEW run \in todo, StatusReviewed(run), UNCHANGED pipeVars
  PROVE  PipeInv'
<1>1. change' \in [Changes -> ChangeStatuses] /\ todo' \subseteq todo
  BY DEF PipeInv, PipeTypeOK, TypeOK, StatusReviewed, ChangeStatuses
<1>2. \A e \in todo' : e.do = "route" => e.of[2] <= task[e.of[1]].round
  BY <1>1 DEF PipeInv, RoundsBegun
<1>3. QED
  BY <1>1, <1>2, QuietStep DEF StatusReviewed, pipeVars, PipeInv, PipeTypeOK, TypeOK

\* Inside keeps the invariant.
LEMMA InsideKeeps ==
  ASSUME PipeInv, Inside, UNCHANGED pipeVars
  PROVE  PipeInv'
BY MoveTaskKeeps, AnnounceKeeps, AnswerKeeps, StatusReviewedKeeps DEF Inside
-----------------------------------------------------------------------------
\* A step of one execution, that may record its decision and move a task but
\* leaves the table alone, keeps the invariant if the row's story stays true.
LEMMA ExecStep ==
  ASSUME PipeInv, NEW q \in Rows, NEW e \in ExecSteps, exec[q] # "none",
         exec' = [exec EXCEPT ![q] = e],
         decisions' \in [Rows -> Seq(DecisionTypes)],
         \A p \in Rows : p # q => decisions'[p] = decisions[p],
         decisions'[q] = decisions[q] \/ decisions[q] = <<>>,
         UNCHANGED <<change, row, deciding, todo, crashes, switch, killing, leaked>>,
         task' \in [Tasks -> [state : TaskPhases, round : 0..MaxRounds]],
         \A run \in todo : run.do = "route" => run.of[2] <= task'[run.of[1]].round,
         Tells(q)',
         e \in {"flipped", "recorded", "sampling", "done"} => row[q].status = "DECIDED",
         late' \in {late, late \cup {q}}, late' # {} => killing # "no",
         q \in late' => e \in {"loaded", "denied", "failed"}
                        /\ decisions'[q] # <<"AUTO_APPROVED">>
  PROVE  PipeInv'
<1>1. PipeTypeOK /\ TypeOK
  BY DEF PipeInv, PipeTypeOK
<1>2. exec'[q] = e /\ \A p \in Rows : p # q => exec'[p] = exec[p]
  BY <1>1 DEF PipeTypeOK
<1>3. PipeTypeOK'
  BY <1>1 DEF PipeTypeOK, TypeOK
<1>4. \A p \in Rows : Tells(p)'
  BY <1>2 DEF PipeInv, Tells
<1>5. ExecFits'
  BY <1>2 DEF PipeInv, ExecFits, Exists
<1>6. RequestsFit'
  <2> SUFFICES ASSUME NEW r \in Reviewers, deciding[r] # Idle
               PROVE  /\ Exists(deciding[r].row)
                      /\ deciding[r].step = "recorded" =>
                           /\ row[deciding[r].row].status = "DECIDED"
                           /\ decisions'[deciding[r].row] = <<deciding[r].verdict>>
    BY DEF RequestsFit, Exists
  <2>1. deciding[r].row \in Rows
    BY <1>1 DEF TypeOK, Request
  <2>2. <<>> # <<deciding[r].verdict>>
    OBVIOUS
  <2>3. QED
    BY <2>1, <2>2 DEF PipeInv, RequestsFit
<1>7. RoundsBegun' /\ SwitchStaysOff'
  BY DEF PipeInv, RoundsBegun, SwitchStaysOff
<1>8. LateExecutionsDenied'
  BY <1>1, <1>2 DEF PipeInv, PipeTypeOK, LateExecutionsDenied
<1>9. QED
  BY <1>3, <1>4, <1>5, <1>6, <1>7, <1>8 DEF PipeInv

\* An execution that has not recorded may go to any step short of its flip, or
\* be given up: the row's story stays true.
LEMMA NotYetRecorded ==
  ASSUME PipeInv, NEW q \in Rows, exec[q] \in {"started", "loaded", "allowed"},
         NEW e \in {"loaded", "allowed", "denied", "failed"},
         exec' = [exec EXCEPT ![q] = e], UNCHANGED <<row, decisions>>
  PROVE  Tells(q)' /\ decisions[q] # <<"AUTO_APPROVED">>
<1>1. exec'[q] = e
  BY DEF PipeInv, PipeTypeOK
<1>2. Tells(q)
  BY DEF PipeInv
<1>3. Tells(q)'
  BY <1>1, <1>2 DEF Tells
<1>4. row[q].status \in Statuses \cup {"NONE"}
  BY RowShape DEF PipeInv, PipeTypeOK
<1>5. \A v \in Verdicts \cup {"DEFERRED", "ESCALATED"} : <<v>>[1] # <<"AUTO_APPROVED">>[1]
  BY DEF Verdicts
<1>6. <<>> # <<"AUTO_APPROVED">>
  OBVIOUS
<1>7. \A v \in Verdicts \cup {"DEFERRED", "ESCALATED"} : <<v>> # <<"AUTO_APPROVED">>
  BY <1>5
<1>8. QED
  BY <1>2, <1>3, <1>4, <1>6, <1>7 DEF Tells, Statuses

LEMMA ReloadKeeps ==
  ASSUME PipeInv, NEW q \in Rows, ExecReload(q)
  PROVE  PipeInv'
<1>1. PICK e \in {"loaded", "denied"} : exec' = [exec EXCEPT ![q] = e]
  BY DEF ExecReload, Goto
<1>2. /\ exec[q] = "started" /\ e \in ExecSteps
      /\ late' \in {late, late \cup {q}} /\ (late' # {} => killing # "no")
      /\ UNCHANGED <<vars, switch, killing, leaked>>
  BY <1>1 DEF ExecReload, At, ExecSteps, PipeInv, SwitchStaysOff
<1>3. Tells(q)' /\ decisions'[q] # <<"AUTO_APPROVED">>
  BY <1>1, <1>2, NotYetRecorded DEF vars
<1>4. /\ task \in [Tasks -> [state : TaskPhases, round : 0..MaxRounds]]
      /\ decisions \in [Rows -> Seq(DecisionTypes)]
      /\ \A run \in todo : run.do = "route" => run.of[2] <= task[run.of[1]].round
  BY DEF PipeInv, PipeTypeOK, TypeOK, RoundsBegun
<1>5. QED
  BY <1>1, <1>2, <1>3, <1>4, ExecStep DEF vars

LEMMA GateKeeps ==
  ASSUME PipeInv, NEW q \in Rows, ExecGate(q)
  PROVE  PipeInv'
<1>1. PICK e \in {"allowed", "denied"} :
        /\ exec' = [exec EXCEPT ![q] = e]
        /\ e = "allowed" => switch.enabled
  BY DEF ExecGate, Goto, SwitchAllows
<1>2. /\ exec[q] = "loaded" /\ e \in ExecSteps
      /\ UNCHANGED <<vars, switch, killing, late, leaked>>
  BY <1>1 DEF ExecGate, At, ExecSteps
<1>3. Tells(q)' /\ decisions'[q] # <<"AUTO_APPROVED">>
  BY <1>1, <1>2, NotYetRecorded DEF vars
<1>4. (late # {} => killing # "no") /\ (q \in late => e = "denied")
  BY <1>1 DEF PipeInv, SwitchStaysOff
<1>5. /\ task \in [Tasks -> [state : TaskPhases, round : 0..MaxRounds]]
      /\ decisions \in [Rows -> Seq(DecisionTypes)]
      /\ \A run \in todo : run.do = "route" => run.of[2] <= task[run.of[1]].round
  BY DEF PipeInv, PipeTypeOK, TypeOK, RoundsBegun
<1>6. QED
  BY <1>1, <1>2, <1>3, <1>4, <1>5, ExecStep DEF vars

\* An execution past its gate is not late.
LEMMA PastGateIsEarly ==
  ASSUME PipeInv, NEW q \in Rows,
         exec[q] \in {"allowed", "flipped", "recorded", "sampling"}
  PROVE  q \notin late
BY DEF PipeInv, LateExecutionsDenied

LEMMA FlipKeeps ==
  ASSUME PipeInv, NEW q \in Rows, ExecFlip(q)
  PROVE  PipeInv'
<1>1. /\ PipeTypeOK /\ TypeOK /\ exec[q] = "allowed" /\ q \notin late
      /\ UNCHANGED <<task, change, decisions, deciding, todo, crashes>>
      /\ UNCHANGED <<switch, killing, late, leaked>>
      /\ (late # {} => killing # "no")
  BY PastGateIsEarly DEF PipeInv, PipeTypeOK, ExecFlip, At, SwitchStaysOff
<1>2. /\ task \in [Tasks -> [state : TaskPhases, round : 0..MaxRounds]]
      /\ decisions \in [Rows -> Seq(DecisionTypes)]
      /\ \A run \in todo : run.do = "route" => run.of[2] <= task[run.of[1]].round
  BY DEF PipeInv, PipeTypeOK, TypeOK, RoundsBegun
<1>3. CASE exec' = [exec EXCEPT ![q] = "denied"] /\ UNCHANGED row
  <2>1. Tells(q)' /\ "denied" \in ExecSteps
    BY <1>1, <1>3, NotYetRecorded DEF ExecSteps
  <2>2. QED
    BY <1>1, <1>2, <1>3, <2>1, ExecStep
<1>4. CASE /\ exec' = [exec EXCEPT ![q] = "flipped"] /\ row[q].status = "QUEUED"
           /\ row' = [row EXCEPT ![q].status = "DECIDED"]
  <2>1. Exists(q) /\ "DECIDED" \in Statuses /\ "flipped" \in ExecSteps
    BY <1>1, <1>4, RowShape DEF Statuses, ExecSteps
  <2>2. /\ row' \in [Rows -> QueueRow \cup {NoRow}]
        /\ \A p \in Rows : p # q => row'[p] = row[p]
        /\ row'[q].status = "DECIDED"
        /\ \A p \in Rows : Exists(p)' <=> Exists(p)
    BY <1>1, <1>4, <2>1, StatusSet
  <2>3. exec'[q] = "flipped" /\ \A p \in Rows : p # q => exec'[p] = exec[p]
    BY <1>1, <1>4 DEF PipeTypeOK
  <2>4. PipeTypeOK'
    BY <1>1, <1>4, <2>1, <2>2 DEF PipeTypeOK, TypeOK
  <2>5. decisions[q] = <<>>
    BY <1>4 DEF PipeInv, Tells
  <2>6. \A p \in Rows : Tells(p)'
    BY <1>1, <2>2, <2>3, <2>5 DEF PipeInv, Tells
  <2>7. ExecFits'
    BY <2>1, <2>2, <2>3 DEF PipeInv, ExecFits
  <2>8. RequestsFit'
    <3> SUFFICES ASSUME NEW r \in Reviewers, deciding[r] # Idle
                 PROVE  /\ Exists(deciding[r].row)'
                        /\ deciding[r].step = "recorded" =>
                             /\ row'[deciding[r].row].status = "DECIDED"
                             /\ decisions[deciding[r].row] = <<deciding[r].verdict>>
      BY <1>1 DEF RequestsFit
    <3>1. deciding[r].row \in Rows
      BY <1>1 DEF TypeOK, Request
    <3>2. /\ Exists(deciding[r].row)
          /\ deciding[r].step = "recorded" =>
               /\ row[deciding[r].row].status = "DECIDED"
               /\ decisions[deciding[r].row] = <<deciding[r].verdict>>
      BY DEF PipeInv, RequestsFit
    <3>3. row'[deciding[r].row] = row[deciding[r].row] \/ row'[deciding[r].row].status = "DECIDED"
      BY <2>2, <3>1
    <3>4. QED
      BY <1>1, <2>2, <3>1, <3>2, <3>3
  <2>9. RoundsBegun' /\ SwitchStaysOff' /\ LateExecutionsDenied'
    BY <1>1, <2>3 DEF PipeInv, PipeTypeOK, RoundsBegun, SwitchStaysOff, LateExecutionsDenied
  <2>10. QED
    BY <2>4, <2>6, <2>7, <2>8, <2>9 DEF PipeInv
<1>5. QED
  BY <1>3, <1>4 DEF ExecFlip, Goto, ExecFlipFrom

LEMMA RecordKeeps ==
  ASSUME PipeInv, NEW q \in Rows, ExecRecord(q)
  PROVE  PipeInv'
<1>1. /\ exec[q] = "flipped" /\ q \notin late /\ (late # {} => killing # "no")
      /\ exec' = [exec EXCEPT ![q] = "recorded"] /\ "recorded" \in ExecSteps
      /\ decisions' = [decisions EXCEPT ![q] = Append(@, "AUTO_APPROVED")]
      /\ UNCHANGED <<task, change, row, deciding, todo, crashes>>
      /\ UNCHANGED <<switch, killing, late, leaked>>
  BY PastGateIsEarly DEF PipeInv, ExecRecord, At, Goto, ExecSteps, SwitchStaysOff
<1>2. row[q].status = "DECIDED"
  BY <1>1 DEF PipeInv, ExecFits
<1>3. decisions[q] = <<>>
  BY <1>1, <1>2 DEF PipeInv, Tells
<1>4. Append(<<>>, "AUTO_APPROVED") = <<"AUTO_APPROVED">> /\ "AUTO_APPROVED" \in DecisionTypes
  BY DEF DecisionTypes
<1>5. /\ decisions' \in [Rows -> Seq(DecisionTypes)]
      /\ \A p \in Rows : p # q => decisions'[p] = decisions[p]
      /\ decisions'[q] = <<"AUTO_APPROVED">>
  BY <1>1, <1>3, <1>4 DEF PipeInv, PipeTypeOK, TypeOK
<1>6. exec'[q] = "recorded"
  BY <1>1 DEF PipeInv, PipeTypeOK
<1>7. Tells(q)'
  BY <1>1, <1>2, <1>5, <1>6 DEF Tells
<1>8. /\ task \in [Tasks -> [state : TaskPhases, round : 0..MaxRounds]]
      /\ \A run \in todo : run.do = "route" => run.of[2] <= task[run.of[1]].round
  BY DEF PipeInv, PipeTypeOK, TypeOK, RoundsBegun
<1>9. QED
  BY <1>1, <1>2, <1>3, <1>5, <1>7, <1>8, ExecStep

LEMMA ExecMoveKeeps ==
  ASSUME PipeInv, NEW q \in Rows, ExecMoveTask(q)
  PROVE  PipeInv'
<1> DEFINE t == row[q].of[1]
<1>1. /\ exec[q] = "recorded" /\ q \notin late /\ (late # {} => killing # "no")
      /\ UNCHANGED <<change, row, decisions, deciding, todo, crashes>>
      /\ UNCHANGED <<switch, killing, late, leaked>>
  BY PastGateIsEarly DEF PipeInv, ExecMoveTask, At, SwitchStaysOff
<1>2. PICK e \in {"done", "sampling", "failed"} : exec' = [exec EXCEPT ![q] = e]
  BY DEF ExecMoveTask, Goto
<1>3. row[q].status = "DECIDED" /\ Exists(q) /\ e \in ExecSteps
  BY <1>1 DEF PipeInv, ExecFits, ExecSteps
<1>4. t \in Tasks /\ "APPROVED" \in TaskPhases
  BY <1>3, RowShape DEF Changes, TaskPhases, PipeInv, PipeTypeOK
<1>5. /\ task' \in [Tasks -> [state : TaskPhases, round : 0..MaxRounds]]
      /\ \A run \in todo : run.do = "route" => run.of[2] <= task'[run.of[1]].round
  <2>1. CASE UNCHANGED task
    BY <2>1 DEF PipeInv, PipeTypeOK, TypeOK, RoundsBegun
  <2>2. CASE task' = [task EXCEPT ![t].state = "APPROVED"]
    <3> HIDE DEF t
    <3>1. QED
      BY <1>4, <2>2, TaskMoved
  <2>3. QED
    BY <2>1, <2>2 DEF ExecMoveTask
<1>6. decisions[q] = <<"AUTO_APPROVED">>
  BY <1>1, <1>3 DEF PipeInv, Tells
<1>7. exec'[q] = e
  BY <1>2 DEF PipeInv, PipeTypeOK
<1>8. Tells(q)'
  BY <1>1, <1>2, <1>3, <1>6, <1>7 DEF Tells
<1>9. decisions \in [Rows -> Seq(DecisionTypes)]
  BY DEF PipeInv, PipeTypeOK, TypeOK
<1>10. QED
  BY <1>1, <1>2, <1>3, <1>5, <1>8, <1>9, ExecStep

\* What is common to the two inserts: the row is new, so nothing was decided,
\* executed or requested about it.
LEMMA InsertStep ==
  ASSUME PipeInv, NEW q \in Rows, NEW ch \in Changes, NEW a \in Actions, NEW s \in BOOLEAN,
         Enqueued(q, ch, a, s), NEW p \in Rows, NEW e \in ExecSteps,
         \/ p = q /\ e \in {"none", "started"}
         \/ p # q /\ exec[p] = "sampling" /\ e = "done",
         exec' = [exec EXCEPT ![p] = e],
         UNCHANGED <<task, change, decisions, deciding, crashes, switch, killing, late, leaked>>,
         todo' \subseteq todo
  PROVE  PipeInv'
<1>1. PipeTypeOK /\ TypeOK
  BY DEF PipeInv, PipeTypeOK
<1>2. /\ ~ Exists(q) /\ row' \in [Rows -> QueueRow \cup {NoRow}]
      /\ \A x \in Rows : x # q => row'[x] = row[x]
      /\ Exists(q)' /\ row'[q].status = "QUEUED"
      /\ \A x \in Rows : Exists(x) => Exists(x)' /\ row'[x] = row[x]
  BY <1>1, RowInserted
<1>3. exec'[p] = e /\ \A x \in Rows : x # p => exec'[x] = exec[x]
  BY <1>1 DEF PipeTypeOK
<1>4. row[q].status = "NONE" /\ decisions[q] = <<>> /\ exec[q] = "none"
  BY <1>1, <1>2, RowShape DEF PipeInv, Tells, ExecFits
<1>5. PipeTypeOK'
  BY <1>1, <1>2 DEF PipeTypeOK, TypeOK
<1>6. ASSUME NEW x \in Rows PROVE Tells(x)'
  <2>1. CASE x = q
    BY <1>2, <1>4, <2>1 DEF Tells
  <2>2. CASE x = p /\ p # q
    BY <1>2, <1>3, <2>2 DEF Tells, PipeInv
  <2>3. CASE x # q /\ x # p
    BY <1>2, <1>3, <2>3 DEF Tells, PipeInv
  <2>4. QED
    BY <2>1, <2>2, <2>3
<1>7. ExecFits'
  BY <1>2, <1>3, <1>4 DEF PipeInv, ExecFits
<1>8. RequestsFit'
  <2> SUFFICES ASSUME NEW r \in Reviewers, deciding[r] # Idle
               PROVE  /\ Exists(deciding[r].row)'
                      /\ deciding[r].step = "recorded" =>
                           /\ row'[deciding[r].row].status = "DECIDED"
                           /\ decisions[deciding[r].row] = <<deciding[r].verdict>>
    BY DEF RequestsFit
  <2>1. deciding[r].row \in Rows
    BY <1>1 DEF TypeOK, Request
  <2>2. Exists(deciding[r].row)
    BY DEF PipeInv, RequestsFit
  <2>3. QED
    BY <1>2, <2>1, <2>2 DEF PipeInv, RequestsFit
<1>9. RoundsBegun' /\ SwitchStaysOff' /\ LateExecutionsDenied'
  <2>1. q \notin late
    BY <1>4 DEF PipeInv, LateExecutionsDenied
  <2>2. p \notin late
    BY <2>1, PastGateIsEarly
  <2>3. QED
    BY <1>1, <1>3, <2>2
       DEF PipeInv, PipeTypeOK, RoundsBegun, SwitchStaysOff, LateExecutionsDenied
<1>10. QED
  BY <1>5, <1>6, <1>7, <1>8, <1>9 DEF PipeInv

LEMMA ControlKeeps ==
  ASSUME PipeInv, NEW q \in Rows, NEW control \in Rows, RouteControl(q, control)
  PROVE  PipeInv'
<1>1. exec[q] = "sampling" /\ PipeTypeOK /\ TypeOK
  BY DEF RouteControl, At, PipeInv, PipeTypeOK
<1>2. Exists(q)
  BY <1>1 DEF PipeInv, ExecFits
<1>3. row[q].of \in Changes /\ control # q
  BY <1>1, <1>2, RowShape DEF RouteControl, Enqueued, Exists
<1>4. /\ Enqueued(control, row[q].of, "REVIEW_REQUIRED", TRUE)
      /\ exec' = [exec EXCEPT ![q] = "done"] /\ "done" \in ExecSteps
      /\ "REVIEW_REQUIRED" \in Actions /\ TRUE \in BOOLEAN
      /\ UNCHANGED <<task, change, decisions, deciding, todo, crashes>>
      /\ UNCHANGED <<switch, killing, late, leaked>>
  BY DEF RouteControl, Goto, ExecSteps, Actions
<1>5. QED
  BY <1>1, <1>3, <1>4, InsertStep

\* What routing enqueues is the change of the task's current round.
LEMMA RoutedChange ==
  ASSUME PipeInv, NEW run \in todo, run.do = "route"
  PROVE  <<run.of[1], task[run.of[1]].round>> \in Changes /\ run.of \in Changes
<1>1. run.of \in Changes /\ run.of[1] \in Tasks /\ run.of[2] \in 1..MaxRounds
  BY DEF PipeInv, PipeTypeOK, TypeOK, Changes
<1>2. run.of[2] <= task[run.of[1]].round /\ task[run.of[1]].round \in 0..MaxRounds
  BY <1>1 DEF PipeInv, RoundsBegun, PipeTypeOK, TypeOK
<1>3. task[run.of[1]].round \in 1..MaxRounds
  BY <1>1, <1>2, RoundsAssumption DEF RoundsAssumption
<1>4. QED
  BY <1>1, <1>3 DEF Changes

LEMMA RouteKeeps ==
  ASSUME PipeInv, NEW run \in todo, NEW q \in Rows, NEW a \in Actions,
         RouteAndStart(q, run, a)
  PROVE  PipeInv'
<1> DEFINE ch == <<run.of[1], task[run.of[1]].round>>
<1>1. /\ run.do = "route" /\ Enqueued(q, ch, a, FALSE) /\ todo' = todo \ {run}
      /\ UNCHANGED <<task, change, decisions, deciding, crashes>>
      /\ UNCHANGED <<switch, killing, late, leaked>>
  BY DEF RouteAndStart, Route
<1>2. ch \in Changes
  BY <1>1, RoutedChange
<1> HIDE DEF ch
<1>3. exec[q] = "none" /\ exec \in [Rows -> ExecSteps]
  BY <1>1 DEF PipeInv, PipeTypeOK, ExecFits, Exists, Enqueued
<1>4. PICK e \in {"none", "started"} : exec' = [exec EXCEPT ![q] = e]
  BY <1>3 DEF RouteAndStart
<1>5. e \in ExecSteps /\ todo' \subseteq todo /\ FALSE \in BOOLEAN
  BY <1>1 DEF ExecSteps
<1>6. QED
  BY <1>1, <1>2, <1>4, <1>5, InsertStep

LEMMA CheckLeakKeeps ==
  ASSUME PipeInv, NEW run \in todo, CheckLeak(run)
  PROVE  PipeInv'
<1>1. run.of \in Changes
  BY DEF PipeInv, PipeTypeOK, TypeOK
<1>2. leaked' \subseteq Changes /\ todo' \subseteq todo
  BY <1>1 DEF CheckLeak, PipeInv, PipeTypeOK
<1>3. \A e \in todo' : e.do = "route" => e.of[2] <= task[e.of[1]].round
  BY <1>2 DEF PipeInv, RoundsBegun
<1>4. QED
  BY <1>2, <1>3, QuietStep DEF CheckLeak, PipeInv, PipeTypeOK, TypeOK

LEMMA FlagKeeps ==
  ASSUME PipeInv, NEW on \in BOOLEAN, SetFlag(on)
  PROVE  PipeInv'
<1>1. /\ switch' \in [flag : BOOLEAN, enabled : BOOLEAN]
      /\ switch'.enabled = switch.enabled
  BY DEF SetFlag, PipeInv, PipeTypeOK
<1>2. QED
  BY <1>1, QuietStep DEF SetFlag, vars, PipeInv, PipeTypeOK, TypeOK, RoundsBegun

LEMMA KillKeeps ==
  ASSUME PipeInv, Kill
  PROVE  PipeInv'
<1>1. switch' \in [flag : BOOLEAN, enabled : BOOLEAN] /\ ~ switch'.enabled
  BY DEF Kill, PipeInv, PipeTypeOK
<1>2. PipeTypeOK'
  BY <1>1 DEF Kill, vars, PipeInv, PipeTypeOK, TypeOK
<1>3. (\A q \in Rows : Tells(q)') /\ ExecFits' /\ RequestsFit' /\ RoundsBegun'
  BY DEF Kill, vars, PipeInv, Tells, ExecFits, RequestsFit, RoundsBegun, Exists
<1>4. SwitchStaysOff' /\ LateExecutionsDenied'
  BY <1>1 DEF Kill, vars, PipeInv, SwitchStaysOff, LateExecutionsDenied
<1>5. QED
  BY <1>2, <1>3, <1>4 DEF PipeInv

\* Requeueing changes no more of a row than its action.
LEMMA RequeueKeepsRows ==
  ASSUME TypeOK, RequeueInFlight
  PROVE  /\ row' \in [Rows -> QueueRow \cup {NoRow}]
         /\ \A p \in Rows : row'[p].status = row[p].status /\ (Exists(p)' <=> Exists(p))
         /\ \A p \in Rows : Exists(p) => /\ row'[p].of = row[p].of
                                           /\ row'[p].sampled = row[p].sampled
<1>1. row' = [q \in Rows |->
         IF row[q].status = "QUEUED" /\ row[q].action = "AUTO_APPROVABLE"
         THEN [row[q] EXCEPT !.action = "REVIEW_REQUIRED"] ELSE row[q]]
  BY DEF RequeueInFlight
<1>2. ASSUME NEW p \in Rows
      PROVE  /\ row'[p] \in QueueRow \cup {NoRow}
             /\ row'[p].status = row[p].status /\ (Exists(p)' <=> Exists(p))
             /\ Exists(p) => /\ row'[p].of = row[p].of
                             /\ row'[p].sampled = row[p].sampled
  <2>1. CASE row[p].status = "QUEUED" /\ row[p].action = "AUTO_APPROVABLE"
    <3>1. row[p] \in QueueRow /\ Exists(p)
      BY <2>1, RowShape DEF Statuses
    <3>2. /\ [row[p] EXCEPT !.action = "REVIEW_REQUIRED"] \in QueueRow
          /\ [row[p] EXCEPT !.action = "REVIEW_REQUIRED"].status = row[p].status
          /\ [row[p] EXCEPT !.action = "REVIEW_REQUIRED"].of = row[p].of
          /\ [row[p] EXCEPT !.action = "REVIEW_REQUIRED"].sampled = row[p].sampled
      BY <3>1 DEF QueueRow, Actions
    <3>3. row'[p] = [row[p] EXCEPT !.action = "REVIEW_REQUIRED"]
      BY <1>1, <2>1
    <3>4. row'[p] # NoRow
      BY <2>1, <3>2, <3>3 DEF NoRow
    <3>5. QED
      BY <3>1, <3>2, <3>3, <3>4 DEF Exists
  <2>2. CASE ~ (row[p].status = "QUEUED" /\ row[p].action = "AUTO_APPROVABLE")
    <3>1. row'[p] = row[p]
      BY <1>1, <2>2
    <3>2. QED
      BY <3>1 DEF Exists, TypeOK
  <2>3. QED
    BY <2>1, <2>2
<1>3. row' \in [Rows -> QueueRow \cup {NoRow}]
  BY <1>1, <1>2
<1>4. QED
  BY <1>2, <1>3

LEMMA RequeueKeeps ==
  ASSUME PipeInv, RequeueInFlight
  PROVE  PipeInv'
<1>1. PipeTypeOK /\ TypeOK
  BY DEF PipeInv, PipeTypeOK
<1>2. /\ row' \in [Rows -> QueueRow \cup {NoRow}]
      /\ \A p \in Rows : row'[p].status = row[p].status /\ (Exists(p)' <=> Exists(p))
  BY <1>1, RequeueKeepsRows
<1>3. /\ killing = "off" /\ killing' = "done"
      /\ UNCHANGED <<task, change, decisions, deciding, todo, crashes>>
      /\ UNCHANGED <<exec, switch, late, leaked>>
  BY DEF RequeueInFlight
<1>4. PipeTypeOK'
  BY <1>1, <1>2, <1>3 DEF PipeTypeOK, TypeOK
<1>5. \A p \in Rows : Tells(p)'
  BY <1>2, <1>3 DEF PipeInv, Tells
<1>6. ExecFits'
  BY <1>2, <1>3 DEF PipeInv, ExecFits
<1>7. RequestsFit'
  <2> SUFFICES ASSUME NEW r \in Reviewers, deciding[r] # Idle
               PROVE  /\ Exists(deciding[r].row)'
                      /\ deciding[r].step = "recorded" =>
                           /\ row'[deciding[r].row].status = "DECIDED"
                           /\ decisions[deciding[r].row] = <<deciding[r].verdict>>
    BY <1>3 DEF RequestsFit
  <2>1. deciding[r].row \in Rows
    BY <1>1 DEF TypeOK, Request
  <2>2. QED
    BY <1>2, <1>3, <2>1 DEF PipeInv, RequestsFit
<1>8. RoundsBegun' /\ SwitchStaysOff' /\ LateExecutionsDenied'
  BY <1>3 DEF PipeInv, RoundsBegun, SwitchStaysOff, LateExecutionsDenied
<1>9. QED
  BY <1>4, <1>5, <1>6, <1>7, <1>8 DEF PipeInv

LEMMA CrashKeeps ==
  ASSUME PipeInv, PipeCrash
  PROVE  PipeInv'
<1>1. /\ exec' = [q \in Rows |-> IF exec[q] \in InProgress THEN "failed" ELSE exec[q]]
      /\ killing' = IF killing = "off" THEN "lost" ELSE killing
      /\ deciding' = [r \in Reviewers |-> Idle] /\ todo' = {}
      /\ crashes < MaxCrashes /\ crashes' = crashes + 1
      /\ UNCHANGED <<task, change, row, decisions, switch, late, leaked>>
  BY DEF PipeCrash, Crash
<1>2. crashes' \in 0..MaxCrashes
  BY <1>1, RoundsAssumption DEF RoundsAssumption, PipeInv, PipeTypeOK, TypeOK
<1>3. /\ deciding' \in [Reviewers -> Request \cup {Idle}] /\ exec' \in [Rows -> ExecSteps]
      /\ killing' \in {"no", "off", "done", "lost"}
  BY <1>1 DEF PipeInv, PipeTypeOK, ExecSteps
<1>4. PipeTypeOK'
  BY <1>1, <1>2, <1>3 DEF PipeInv, PipeTypeOK, TypeOK
<1>5. \A p \in Rows : Tells(p)'
  BY <1>1 DEF PipeInv, Tells, InProgress, ExecSteps
<1>6. ExecFits'
  BY <1>1 DEF PipeInv, ExecFits, Exists, InProgress, ExecSteps
<1>7. RequestsFit' /\ RoundsBegun'
  BY <1>1 DEF RequestsFit, RoundsBegun
<1>8. SwitchStaysOff'
  BY <1>1 DEF PipeInv, SwitchStaysOff
<1>9. LateExecutionsDenied'
  BY <1>1 DEF PipeInv, PipeTypeOK, LateExecutionsDenied
<1>10. QED
  BY <1>4, <1>5, <1>6, <1>7, <1>8, <1>9 DEF PipeInv

LEMMA PipeInvStep == PipeInv /\ [Next]_allVars => PipeInv'
<1> SUFFICES ASSUME PipeInv, [Next]_allVars PROVE PipeInv'
  OBVIOUS
<1>1. CASE (Outside \/ Inside) /\ UNCHANGED pipeVars
  BY <1>1, OutsideKeeps, InsideKeeps
<1>2. ASSUME NEW q \in Rows, Execute(q) PROVE PipeInv'
  BY <1>2, ReloadKeeps, GateKeeps, FlipKeeps, RecordKeeps, ExecMoveKeeps, ControlKeeps
     DEF Execute
<1>3. ASSUME NEW run \in todo, Handle(run) PROVE PipeInv'
  BY <1>3, RouteKeeps, CheckLeakKeeps DEF Handle
<1>4. ASSUME NEW on \in BOOLEAN, SetFlag(on) PROVE PipeInv'
  BY <1>4, FlagKeeps
<1>5. CASE Kill \/ RequeueInFlight \/ PipeCrash
  BY <1>5, KillKeeps, RequeueKeeps, CrashKeeps
<1>6. CASE UNCHANGED allVars
  BY <1>6 DEF allVars, vars, pipeVars, PipeInv, PipeTypeOK, TypeOK, Tells, ExecFits,
     RequestsFit, RoundsBegun, SwitchStaysOff, LateExecutionsDenied, Exists
<1>7. QED
  BY <1>1, <1>2, <1>3, <1>4, <1>5, <1>6 DEF Next

\* What overtaken remembers is no part of the step.
LEMMA StepIsNext == [Step]_<<allVars, overtaken>> => [Next]_allVars /\ overtaken \subseteq overtaken'
BY DEF Step

LEMMA PipeCorrect == Spec => []PipeInv
BY PipeInvInit, PipeInvStep, StepIsNext, PTL DEF Spec

\* Every variable of the queue and of the attention engine keeps its type: no
\* interleaving of reviewers, executor, sampler, kill request and crashes
\* writes a row, decision or event that the tables have no place for.
THEOREM PipeTyped == Spec => []PipeTypeOK
BY PipeCorrect, PTL DEF PipeInv

\* Whoever acted and in whatever order, a row's status tells its decisions:
\* none while it is open, exactly one fitting one once it is closed, except
\* between the executor's flip and its INSERT.
THEOREM RowsTellDecisions == Spec => []RowMatchesDecisions
<1>1. PipeInv => RowMatchesDecisions
  BY TellsAll DEF PipeInv, PipeTypeOK
<1>2. QED
  BY <1>1, PipeCorrect, PTL

\* An execution that reads its row after the kill request began approves
\* nothing, however far the request got and whatever crashes.
THEOREM KilledMeansDenied == Spec => []LateExecutionsDenied
BY PipeCorrect, PTL DEF PipeInv
-----------------------------------------------------------------------------
\* Only four actions touch a task.
LEMMA TaskSteps ==
  ASSUME [Next]_allVars
  PROVE  \/ UNCHANGED task
         \/ \E t \in Tasks : SubmitForReview(t) \/ BackToWork(t)
         \/ \E r \in Reviewers : MoveTask(r)
         \/ \E q \in Rows : ExecMoveTask(q)
<1>1. CASE Outside
  BY <1>1 DEF Outside, Claim, Release, Drop, Escalate, Decide, StatusVerified, StatusRolledBack
<1>2. CASE Inside
  BY <1>2 DEF Inside, Announce, AnswerRefusal, StatusReviewed
<1>3. ASSUME NEW q \in Rows, Execute(q)
      PROVE  UNCHANGED task \/ ExecMoveTask(q)
  BY <1>3 DEF Execute, ExecReload, ExecGate, ExecFlip, ExecRecord, RouteControl, vars
<1>4. ASSUME NEW run \in todo, Handle(run) PROVE UNCHANGED task
  BY <1>4 DEF Handle, RouteAndStart, Route, CheckLeak
<1>5. ASSUME NEW on \in BOOLEAN, SetFlag(on) PROVE UNCHANGED task
  BY <1>5 DEF SetFlag, vars
<1>6. CASE Kill \/ RequeueInFlight \/ PipeCrash
  BY <1>6 DEF Kill, RequeueInFlight, PipeCrash, Crash, vars
<1>7. CASE UNCHANGED allVars
  BY <1>7 DEF allVars, vars
<1>8. QED
  BY <1>1, <1>2, <1>3, <1>4, <1>5, <1>6, <1>7 DEF Next

\* The task of a recorded decide request, and of an execution about to move it.
LEMMA RequestTask ==
  ASSUME PipeInv, NEW r \in Reviewers, deciding[r].step \in {"recorded", "moved", "refused"}
  PROVE  /\ deciding[r] # Idle /\ deciding[r].row \in Rows /\ Exists(deciding[r].row)
         /\ deciding[r] \in Request /\ deciding[r].verdict \in Verdicts
         /\ row[deciding[r].row].of \in Changes /\ row[deciding[r].row].of[1] \in Tasks
<1>1. deciding[r] # Idle /\ deciding[r] \in Request \cup {Idle} /\ TypeOK
  BY DEF Idle, PipeInv, PipeTypeOK, TypeOK
<1>2. /\ deciding[r] \in Request /\ deciding[r].row \in Rows /\ Exists(deciding[r].row)
      /\ deciding[r].verdict \in Verdicts
  BY <1>1 DEF Request, PipeInv, RequestsFit
<1>3. row[deciding[r].row].of \in Changes
  BY <1>1, <1>2, RowShape
<1>4. QED
  BY <1>1, <1>2, <1>3 DEF Changes

LEMMA ExecTask ==
  ASSUME PipeInv, NEW q \in Rows, exec[q] # "none"
  PROVE  Exists(q) /\ row[q].of \in Changes /\ row[q].of[1] \in Tasks
<1>1. Exists(q) /\ TypeOK
  BY DEF PipeInv, PipeTypeOK, ExecFits
<1>2. row[q].of \in Changes
  BY <1>1, RowShape
<1>3. QED
  BY <1>1, <1>2 DEF Changes
-----------------------------------------------------------------------------
\* The moves of an item of QueueItem, between statuses of the table.
Moves ==
  {<<"NONE", "QUEUED">>, <<"QUEUED", "CLAIMED">>, <<"CLAIMED", "QUEUED">>}
  \cup ({"QUEUED", "CLAIMED"} \X {"DECIDED", "DROPPED", "ESCALATED"})

Stays(p) == row'[p].status = row[p].status

\* A flip moves one row, and so does an insert.
LEMMA FlipMoves ==
  ASSUME PipeInv, NEW q \in Rows, NEW s \in Statuses, <<row[q].status, s>> \in Moves,
         Exists(q), row' = [row EXCEPT ![q].status = s]
  PROVE  <<row[q].status, row'[q].status>> \in Moves
         /\ \A p \in Rows : p # q => Stays(p)
<1>1. row'[q].status = s /\ \A p \in Rows : p # q => row'[p] = row[p]
  BY StatusSet DEF PipeInv, PipeTypeOK
<1>2. QED
  BY <1>1 DEF Stays

LEMMA InsertMoves ==
  ASSUME PipeInv, NEW q \in Rows, NEW ch \in Changes, NEW a \in Actions, NEW s \in BOOLEAN,
         Enqueued(q, ch, a, s)
  PROVE  <<row[q].status, row'[q].status>> \in Moves
         /\ \A p \in Rows : p # q => Stays(p)
<1>1. /\ ~ Exists(q) /\ row'[q].status = "QUEUED" /\ \A p \in Rows : p # q => row'[p] = row[p]
  BY RowInserted DEF PipeInv, PipeTypeOK
<1>2. row[q].status = "NONE"
  BY <1>1, RowShape DEF PipeInv, PipeTypeOK
<1>3. QED
  BY <1>1, <1>2 DEF Stays, Moves

\* No step changes the status of two rows, or of a closed one.
LEMMA OutsideMoves ==
  ASSUME PipeInv, Outside
  PROVE  \/ \A p \in Rows : Stays(p)
         \/ \E q \in Rows : /\ <<row[q].status, row'[q].status>> \in Moves
                            /\ \A p \in Rows : p # q => Stays(p)
<1>1. ASSUME NEW q \in Rows, Claim(q) \/ Release(q) \/ Drop(q) \/ Escalate(q)
      PROVE  <<row[q].status, row'[q].status>> \in Moves
             /\ \A p \in Rows : p # q => Stays(p)
  <2>1. PICK s \in Statuses : /\ row' = [row EXCEPT ![q].status = s]
                              /\ <<row[q].status, s>> \in Moves
    BY <1>1 DEF Claim, Release, Drop, Escalate, Flip, Releasable, Statuses, Moves
  <2>2. row[q].status # "NONE"
    BY <1>1 DEF Claim, Release, Drop, Escalate, Flip, Releasable
  <2>3. Exists(q)
    BY <2>2, RowShape DEF PipeInv, PipeTypeOK
  <2>4. QED
    BY <2>1, <2>3, FlipMoves
<1>2. ASSUME NEW r \in Reviewers, NEW q \in Rows, NEW v \in Verdicts, NEW g \in BOOLEAN,
             Decide(r, q, v, g)
      PROVE  \/ UNCHANGED row
             \/ /\ <<row[q].status, row'[q].status>> \in Moves
                /\ \A p \in Rows : p # q => Stays(p)
  <2>1. \/ UNCHANGED row
        \/ /\ row' = [row EXCEPT ![q].status = "DECIDED"] /\ "DECIDED" \in Statuses
           /\ <<row[q].status, "DECIDED">> \in Moves /\ Exists(q)
    BY <1>2 DEF Decide, Flip, Decidable, Statuses, Moves, Exists
  <2>2. QED
    BY <2>1, FlipMoves
<1>3. ASSUME NEW t \in Tasks, SubmitForReview(t) \/ BackToWork(t) PROVE UNCHANGED row
  BY <1>3 DEF SubmitForReview, BackToWork
<1>4. ASSUME NEW ch \in Changes, StatusVerified(ch) \/ StatusRolledBack(ch) PROVE UNCHANGED row
  BY <1>4 DEF StatusVerified, StatusRolledBack
<1>5. QED
  BY <1>1, <1>2, <1>3, <1>4 DEF Outside, Stays

LEMMA StatusSteps ==
  ASSUME PipeInv, [Next]_allVars
  PROVE  \/ \A p \in Rows : Stays(p)
         \/ \E q \in Rows : /\ <<row[q].status, row'[q].status>> \in Moves
                            /\ \A p \in Rows : p # q => Stays(p)
<1>1. CASE Inside
  BY <1>1 DEF Inside, MoveTask, Announce, AnswerRefusal, StatusReviewed, Stays
<1>2. ASSUME NEW q \in Rows, Execute(q)
      PROVE  \/ UNCHANGED row
             \/ \E p \in Rows : /\ <<row[p].status, row'[p].status>> \in Moves
                                /\ \A o \in Rows : o # p => Stays(o)
  <2>1. CASE ExecFlip(q)
    <3>1. \/ UNCHANGED row
          \/ /\ row' = [row EXCEPT ![q].status = "DECIDED"] /\ "DECIDED" \in Statuses
             /\ <<row[q].status, "DECIDED">> \in Moves /\ exec[q] # "none"
      BY <2>1 DEF ExecFlip, ExecFlipFrom, At, Statuses, Moves
    <3>2. QED
      BY <3>1, FlipMoves, ExecTask
  <2>2. ASSUME NEW control \in Rows, RouteControl(q, control)
        PROVE  /\ <<row[control].status, row'[control].status>> \in Moves
               /\ \A o \in Rows : o # control => Stays(o)
    <3>1. row[q].of \in Changes /\ "REVIEW_REQUIRED" \in Actions /\ TRUE \in BOOLEAN
      BY <2>2, ExecTask DEF RouteControl, At, Actions
    <3>2. QED
      BY <2>2, <3>1, InsertMoves DEF RouteControl
  <2>3. CASE ExecReload(q) \/ ExecGate(q) \/ ExecRecord(q) \/ ExecMoveTask(q)
    BY <2>3 DEF ExecReload, ExecGate, ExecRecord, ExecMoveTask, vars
  <2>4. QED
    BY <1>2, <2>1, <2>2, <2>3 DEF Execute
<1>3. ASSUME NEW run \in todo, Handle(run)
      PROVE  \/ UNCHANGED row
             \/ \E p \in Rows : /\ <<row[p].status, row'[p].status>> \in Moves
                                /\ \A o \in Rows : o # p => Stays(o)
  <2>1. ASSUME NEW q \in Rows, NEW a \in Actions, RouteAndStart(q, run, a)
        PROVE  /\ <<row[q].status, row'[q].status>> \in Moves
               /\ \A o \in Rows : o # q => Stays(o)
    <3>1. <<run.of[1], task[run.of[1]].round>> \in Changes /\ FALSE \in BOOLEAN
      BY <2>1, RoutedChange DEF RouteAndStart, Route
    <3>2. QED
      BY <2>1, <3>1, InsertMoves DEF RouteAndStart, Route
  <2>2. CASE CheckLeak(run)
    BY <2>2 DEF CheckLeak
  <2>3. QED
    BY <1>3, <2>1, <2>2 DEF Handle
<1>4. ASSUME NEW on \in BOOLEAN, SetFlag(on) PROVE UNCHANGED row
  BY <1>4 DEF SetFlag, vars
<1>5. CASE RequeueInFlight
  BY <1>5, RequeueKeepsRows DEF PipeInv, PipeTypeOK, Stays
<1>6. CASE Kill \/ PipeCrash
  BY <1>6 DEF Kill, PipeCrash, Crash, vars, Stays
<1>7. CASE UNCHANGED allVars
  BY <1>7 DEF allVars, vars, Stays
<1>8. QED
  BY <1>1, <1>2, <1>3, <1>4, <1>5, <1>6, <1>7, OutsideMoves DEF Next, Stays

\* Every row is an item that opens once, is held and given back, and closes
\* once for good: the queue under all its actors implements QueueItem.
THEOREM RowsAreItems == Spec => ItemsCloseOnce
<1> DEFINE Phase(s) == CASE s = "NONE" -> "absent"
                         [] s = "QUEUED" -> "open"
                         [] s = "CLAIMED" -> "held"
                         [] OTHER -> "closed"
           phase == [q \in Rows |-> Phase(row[q].status)]
<1>1. PipeInit => Items!Init
  BY DEF PipeInit, Init, NoRow, Items!Init
<1>2. ASSUME PipeInv, [Next]_allVars PROVE [Items!Next]_phase
  <2>1. CASE \A p \in Rows : Stays(p)
    BY <2>1 DEF Stays
  <2>2. ASSUME NEW q \in Rows, <<row[q].status, row'[q].status>> \in Moves,
               \A p \in Rows : p # q => Stays(p)
        PROVE  Items!Next
    <3> DEFINE from == Phase(row[q].status)
               to == Phase(row[q].status)'
    <3>1. phase[q] = from /\ phase' = [phase EXCEPT ![q] = to]
      BY <2>2 DEF Stays
    <3>2. <<from, to>> \in {<<"absent", "open">>, <<"open", "held">>, <<"held", "open">>,
                            <<"open", "closed">>, <<"held", "closed">>}
      BY <2>2 DEF Moves
    <3>3. QED
      BY <3>1, <3>2 DEF Items!Next, Items!Becomes
  <2>3. QED
    BY <1>2, <2>1, <2>2, StatusSteps
<1>3. QED
  BY <1>1, <1>2, StepIsNext, PipeCorrect, PTL DEF Spec, ItemsCloseOnce, Items!Spec
-----------------------------------------------------------------------------
\* Until a control of an earlier round overtakes its task, each change has one
\* ordinary row, and an ordinary row that somebody may still turn into a verdict
\* is about the round its task awaits review in.  A control never is.

Recorded(r) == deciding[r].step = "recorded"

\* Open, or decided and not yet told to the task.
InHand(q) ==
  \/ row[q].status \in {"QUEUED", "CLAIMED"}
  \/ exec[q] \in {"flipped", "recorded"}
  \/ \E r \in Reviewers : Recorded(r) /\ deciding[r].row = q

AwaitsReview(ch) ==
  task[ch[1]].state = "AWAITING_REVIEW" /\ task[ch[1]].round = ch[2]

\* No control, and of a task that no control has overtaken.
Ordinary(q) == Exists(q) /\ ~ row[q].sampled /\ row[q].of[1] \notin overtaken

RoutesAreNew ==
  \A run \in todo : run.do = "route" /\ run.of[1] \notin overtaken =>
    AwaitsReview(run.of) /\ \A q \in Rows : Ordinary(q) => row[q].of # run.of

RowsAreDistinct ==
  \A p, q \in Rows : Ordinary(p) /\ Ordinary(q) /\ row[p].of = row[q].of => p = q

RowsHaveBegun ==
  \A q \in Rows : Exists(q) => row[q].of[2] <= task[row[q].of[1]].round

InHandAwaits == \A q \in Rows : Ordinary(q) /\ InHand(q) => AwaitsReview(row[q].of)

OneDecider ==
  \A r, s \in Reviewers :
    Recorded(r) /\ Recorded(s) /\ deciding[r].row = deciding[s].row => r = s

\* A control is about a round that is over, and so is what will be sampled.
ControlsAreLate ==
  \A q \in Rows : Exists(q) /\ (row[q].sampled \/ exec[q] = "sampling")
                     => ~ AwaitsReview(row[q].of)

\* The machine takes no controls.
MachineRows == \A q \in Rows : exec[q] # "none" => ~ row[q].sampled

ControlsFit == ControlsAreLate /\ MachineRows

\* What depends on tasks, rows and events.
RoundsFit ==
  RoutesAreNew /\ RowsAreDistinct /\ RowsHaveBegun /\ InHandAwaits /\ OutcomeFitsChange

RoundsInv == PipeInv /\ RoundsFit /\ OneDecider /\ ControlsFit
-----------------------------------------------------------------------------
LEMMA RoundsInvInit == PipeInit => RoundsInv
<1> SUFFICES ASSUME PipeInit PROVE RoundsInv
  OBVIOUS
<1>1. PipeInv
  BY PipeInvInit
<1>2. \A q \in Rows : ~ Exists(q) /\ exec[q] = "none"
  BY DEF PipeInit, Init, Exists
<1>3. todo = {} /\ \A r \in Reviewers : ~ Recorded(r)
  BY DEF PipeInit, Init, Idle, Recorded
<1>4. \A t \in Tasks : task[t].state \notin Verdicts
  BY DEF PipeInit, Init, Verdicts
<1>5. RoundsFit
  BY <1>2, <1>3, <1>4 DEF RoundsFit, RoutesAreNew, RowsAreDistinct, RowsHaveBegun,
     InHandAwaits, OutcomeFitsChange, Exists, Ordinary
<1>6. OneDecider /\ ControlsFit
  BY <1>2, <1>3 DEF OneDecider, ControlsFit, ControlsAreLate, MachineRows
<1>7. QED
  BY <1>1, <1>5, <1>6 DEF RoundsInv

\* A step that leaves tasks and the rows' changes alone, takes no row in hand,
\* routes nothing new and adds no second decision to a row.
LEMMA QuietFits ==
  ASSUME RoundsFit, UNCHANGED task, overtaken \subseteq overtaken',
         \A p \in Rows : Exists(p)' <=> Exists(p),
         \A p \in Rows : Exists(p) => row'[p].of = row[p].of /\ row'[p].sampled = row[p].sampled,
         \A p \in Rows : InHand(p)' => InHand(p),
         \A run \in todo' : run.do = "route" => run \in todo,
         \A p \in Rows : decisions'[p] = decisions[p] \/ decisions[p] = <<>>
  PROVE  RoundsFit'
<1>0. \A p \in Rows : Ordinary(p)' => Ordinary(p) /\ row'[p].of = row[p].of
  BY DEF Ordinary
<1>1. RoutesAreNew'
  BY <1>0 DEF RoundsFit, RoutesAreNew, AwaitsReview
<1>2. RowsAreDistinct' /\ RowsHaveBegun'
  BY <1>0 DEF RoundsFit, RowsAreDistinct, RowsHaveBegun
<1>3. InHandAwaits'
  BY <1>0 DEF RoundsFit, InHandAwaits, AwaitsReview
<1>4. ASSUME NEW t \in Tasks, task'[t].state \in Verdicts, t \notin overtaken'
      PROVE  \E q \in Rows : /\ row'[q] # NoRow /\ row'[q].of = <<t, task'[t].round>>
                             /\ Backs(q, task[t].state)'
  <2>1. PICK q \in Rows : /\ row[q] # NoRow /\ row[q].of = <<t, task[t].round>>
                          /\ Backs(q, task[t].state)
    BY <1>4 DEF RoundsFit, OutcomeFitsChange
  <2>2. decisions[q] # <<>>
    BY <2>1 DEF Backs
  <2>3. QED
    BY <2>1, <2>2 DEF Backs, Exists
<1>5. OutcomeFitsChange'
  BY <1>4 DEF OutcomeFitsChange, Backs
<1>6. QED
  BY <1>1, <1>2, <1>3, <1>5 DEF RoundsFit

\* A task that is not awaiting review has no row in hand and nothing to route.
LEMMA BackToWorkFits ==
  ASSUME PipeInv, RoundsFit, NEW t \in Tasks, BackToWork(t), UNCHANGED exec,
         overtaken \subseteq overtaken'
  PROVE  RoundsFit'
<1>1. /\ task[t].state # "AWAITING_REVIEW" /\ task' = [task EXCEPT ![t].state = "WORKING"]
      /\ UNCHANGED <<row, decisions, deciding, todo>>
  BY DEF BackToWork
<1>2. /\ \A u \in Tasks : task'[u].round = task[u].round
      /\ task'[t].state = "WORKING" /\ \A u \in Tasks : u # t => task'[u] = task[u]
  BY <1>1, TaskMoved DEF TaskPhases
<1>3. ASSUME NEW ch \in Changes, AwaitsReview(ch) PROVE AwaitsReview(ch)'
  BY <1>1, <1>2, <1>3 DEF AwaitsReview, Changes
<1>4. \A run \in todo : run.of \in Changes
  BY DEF PipeInv, PipeTypeOK, TypeOK
<1>5. \A q \in Rows : Exists(q) => row[q].of \in Changes /\ row[q].of[1] \in Tasks
  BY RowShape DEF PipeInv, PipeTypeOK, Changes
<1>6. RoutesAreNew' /\ RowsAreDistinct'
  BY <1>1, <1>3, <1>4 DEF RoundsFit, RoutesAreNew, RowsAreDistinct, Exists, Ordinary
<1>7. RowsHaveBegun' /\ InHandAwaits'
  BY <1>1, <1>2, <1>3, <1>5
     DEF RoundsFit, RowsHaveBegun, InHandAwaits, InHand, Recorded, Exists, Ordinary
<1>8. OutcomeFitsChange'
  BY <1>1, <1>2 DEF RoundsFit, OutcomeFitsChange, Backs, Verdicts
<1>9. QED
  BY <1>6, <1>7, <1>8 DEF RoundsFit

\* The new round has no row yet.
LEMMA SubmitFits ==
  ASSUME PipeInv, RoundsFit, NEW t \in Tasks, SubmitForReview(t), UNCHANGED exec,
         overtaken \subseteq overtaken'
  PROVE  RoundsFit'
<1>1. PICK n : n = task[t].round + 1
  OBVIOUS
<1>2. task \in [Tasks -> [state : TaskPhases, round : 0..MaxRounds]] /\ MaxRounds \in Nat
  BY RoundsAssumption DEF PipeInv, PipeTypeOK, TypeOK, RoundsAssumption
<1>3. n \in Nat /\ task[t].round \in Nat /\ task[t].round < n
  BY <1>2, <1>1
<1>4. /\ task[t].state = "WORKING"
      /\ task' = [task EXCEPT ![t] = [state |-> "AWAITING_REVIEW", round |-> n]]
      /\ todo' = todo \cup {[do |-> "route", of |-> <<t, n>>]}
      /\ UNCHANGED <<row, decisions, deciding>>
  BY <1>2, <1>1 DEF SubmitForReview
<1>5. /\ task'[t].state = "AWAITING_REVIEW" /\ task'[t].round = n
      /\ \A u \in Tasks : u # t => task'[u] = task[u]
  BY <1>2, <1>4
<1>6. ASSUME NEW ch \in Changes, AwaitsReview(ch) PROVE AwaitsReview(ch)'
  BY <1>4, <1>5, <1>6 DEF AwaitsReview, Changes
<1>7. \A run \in todo : run.of \in Changes
  BY DEF PipeInv, PipeTypeOK, TypeOK
<1>8. \A q \in Rows : Exists(q) =>
        row[q].of \in Changes /\ row[q].of[1] \in Tasks /\ row[q].of[2] \in Nat
  BY <1>2, RowShape DEF PipeInv, PipeTypeOK, Changes
<1>9. ASSUME NEW q \in Rows, Exists(q)
      PROVE  row[q].of[2] <= task'[row[q].of[1]].round /\ row[q].of # <<t, n>>
  <2>1. row[q].of[2] <= task[row[q].of[1]].round
    BY <1>9 DEF RoundsFit, RowsHaveBegun
  <2>2. CASE row[q].of[1] = t
    BY <1>3, <1>5, <1>8, <1>9, <2>1, <2>2
  <2>3. CASE row[q].of[1] # t
    BY <1>5, <1>8, <1>9, <2>1, <2>3
  <2>4. QED
    BY <2>2, <2>3
<1>10. RoutesAreNew'
  <2>1. ASSUME NEW run \in todo, run.do = "route", run.of[1] \notin overtaken'
        PROVE  AwaitsReview(run.of)' /\ \A q \in Rows : Ordinary(q)' => row'[q].of # run.of
    BY <1>4, <1>6, <1>7, <2>1 DEF RoundsFit, RoutesAreNew, Exists, Ordinary
  <2>2. AwaitsReview(<<t, n>>)' /\ \A q \in Rows : Ordinary(q)' => row'[q].of # <<t, n>>
    BY <1>4, <1>5, <1>9 DEF AwaitsReview, Exists, Ordinary
  <2>3. QED
    BY <1>4, <2>1, <2>2 DEF RoutesAreNew
<1>11. RowsAreDistinct' /\ RowsHaveBegun' /\ InHandAwaits'
  BY <1>4, <1>6, <1>8, <1>9
     DEF RoundsFit, RowsAreDistinct, RowsHaveBegun, InHandAwaits, InHand, Recorded, Exists, Ordinary
<1>12. OutcomeFitsChange'
  BY <1>4, <1>5 DEF RoundsFit, OutcomeFitsChange, Backs, Verdicts
<1>13. QED
  BY <1>10, <1>11, <1>12 DEF RoundsFit

\* Routing gives the round its one row.
LEMMA RouteFits ==
  ASSUME PipeInv, RoundsFit, NEW run \in todo, NEW q \in Rows, NEW a \in Actions,
         RouteAndStart(q, run, a), overtaken \subseteq overtaken'
  PROVE  RoundsFit'
<1>0. PICK ch : ch = <<run.of[1], task[run.of[1]].round>>
  OBVIOUS
<1>1. /\ PipeTypeOK /\ TypeOK /\ run \in [do : {"route", "reviewed", "leak"}, of : Changes]
      /\ run.do = "route" /\ todo' = todo \ {run}
      /\ UNCHANGED <<task, decisions, deciding>>
      /\ Enqueued(q, ch, a, FALSE)
  BY <1>0 DEF PipeInv, PipeTypeOK, TypeOK, RouteAndStart, Route
<1>2. ch \in Changes /\ run.of \in Changes /\ ch[1] = run.of[1] /\ ch[2] = task[ch[1]].round
  BY <1>0, <1>1, RoutedChange
<1>3. run.of[1] \notin overtaken =>
        ch = run.of /\ AwaitsReview(ch) /\ \A p \in Rows : Ordinary(p) => row[p].of # ch
  <2> SUFFICES ASSUME run.of[1] \notin overtaken
               PROVE  ch = run.of /\ AwaitsReview(ch)
                      /\ \A p \in Rows : Ordinary(p) => row[p].of # ch
    OBVIOUS
  <2>1. AwaitsReview(run.of) /\ \A p \in Rows : Ordinary(p) => row[p].of # run.of
    BY <1>1 DEF RoundsFit, RoutesAreNew
  <2>2. ch = run.of
    BY <1>0, <1>2, <2>1 DEF AwaitsReview, Changes
  <2>3. QED
    BY <2>1, <2>2 DEF AwaitsReview
<1>4. /\ ~ Exists(q) /\ Exists(q)' /\ row'[q].of = ch
      /\ \A p \in Rows : p # q => row'[p] = row[p]
      /\ \A p \in Rows : Exists(p) => Exists(p)' /\ row'[p] = row[p]
  BY <1>1, <1>2, RowInserted
<1>5. \A p \in Rows : p # q => (Exists(p)' <=> Exists(p)) /\ (Ordinary(p)' => Ordinary(p))
  BY <1>4 DEF Exists, Ordinary
<1>6. \A p \in Rows : p # q => exec'[p] = exec[p]
  BY <1>1 DEF RouteAndStart, PipeTypeOK
<1>7. RoutesAreNew'
  <2> SUFFICES ASSUME NEW e \in todo', e.do = "route", e.of[1] \notin overtaken'
               PROVE  AwaitsReview(e.of) /\ \A p \in Rows : Ordinary(p)' => row'[p].of # e.of
    BY <1>1 DEF RoutesAreNew, AwaitsReview
  <2>1. e \in todo /\ e # run /\ e \in [do : {"route", "reviewed", "leak"}, of : Changes]
    BY <1>1 DEF TypeOK
  <2>2. e.of # run.of /\ e.of[1] \notin overtaken
    BY <1>1, <2>1
  <2>3. AwaitsReview(e.of) /\ \A p \in Rows : Ordinary(p) => row[p].of # e.of
    BY <2>1, <2>2 DEF RoundsFit, RoutesAreNew
  <2>4. Ordinary(q)' => ch # e.of
    <3>1. SUFFICES ASSUME run.of[1] \notin overtaken PROVE ch # e.of
      BY <1>2, <1>4 DEF Ordinary
    <3>2. QED
      BY <1>3, <2>2, <3>1
  <2>5. QED
    BY <1>4, <1>5, <2>3, <2>4
<1>8. RowsAreDistinct'
  <2> SUFFICES ASSUME NEW p \in Rows, NEW o \in Rows, Ordinary(p)', Ordinary(o)',
                      row'[p].of = row'[o].of
               PROVE  p = o
    BY DEF RowsAreDistinct
  <2>1. ASSUME NEW x \in Rows, x # q, Ordinary(x)', Ordinary(q)' PROVE row'[x].of # row'[q].of
    <3>1. Ordinary(x) /\ row'[x].of = row[x].of /\ run.of[1] \notin overtaken
      BY <1>2, <1>4, <1>5, <2>1 DEF Ordinary
    <3>2. QED
      BY <1>3, <1>4, <3>1
  <2>2. CASE p = q \/ o = q
    BY <2>1, <2>2
  <2>3. CASE p # q /\ o # q
    BY <1>4, <1>5, <2>3 DEF RoundsFit, RowsAreDistinct
  <2>4. QED
    BY <2>2, <2>3
<1>9. RowsHaveBegun'
  <2> SUFFICES ASSUME NEW p \in Rows, Exists(p)'
               PROVE  row'[p].of[2] <= task[row'[p].of[1]].round
    BY <1>1 DEF RowsHaveBegun
  <2>1. CASE p = q
    <3>1. ch[2] \in Nat /\ ch[2] = task[ch[1]].round
      BY <1>2 DEF Changes
    <3>2. QED
      BY <1>4, <2>1, <3>1
  <2>2. CASE p # q
    BY <1>4, <1>5, <2>2 DEF RoundsFit, RowsHaveBegun
  <2>3. QED
    BY <2>1, <2>2
<1>10. InHandAwaits'
  <2> SUFFICES ASSUME NEW p \in Rows, Ordinary(p)', InHand(p)'
               PROVE  AwaitsReview(row'[p].of)
    BY <1>1 DEF InHandAwaits, AwaitsReview
  <2>1. CASE p = q
    <3>1. run.of[1] \notin overtaken
      BY <1>2, <1>4, <2>1 DEF Ordinary
    <3>2. QED
      BY <1>3, <1>4, <2>1, <3>1
  <2>2. CASE p # q
    BY <1>1, <1>4, <1>5, <1>6, <2>2 DEF RoundsFit, InHandAwaits, InHand, Recorded
  <2>3. QED
    BY <2>1, <2>2
<1>11. OutcomeFitsChange'
  <2> SUFFICES ASSUME NEW t \in Tasks, task[t].state \in Verdicts, t \notin overtaken'
               PROVE  \E p \in Rows : /\ row'[p] # NoRow /\ row'[p].of = <<t, task[t].round>>
                                      /\ Backs(p, task[t].state)
    BY <1>1 DEF OutcomeFitsChange, Backs
  <2>1. PICK p \in Rows : /\ row[p] # NoRow /\ row[p].of = <<t, task[t].round>>
                          /\ Backs(p, task[t].state)
    BY DEF RoundsFit, OutcomeFitsChange
  <2>2. row'[p] = row[p]
    BY <1>4, <2>1 DEF Exists
  <2>3. QED
    BY <2>1, <2>2
<1>12. QED
  BY <1>7, <1>8, <1>9, <1>10, <1>11 DEF RoundsFit

\* A verdict moves the task of an ordinary row in hand, which it backs; nothing
\* else ordinary about that task was in hand.
LEMMA OutcomeFits ==
  ASSUME PipeInv, RoundsFit, NEW q \in Rows, NEW v \in Verdicts,
         Exists(q), AcceptsVerdict(row[q].of[1]),
         task' = [task EXCEPT ![row[q].of[1]].state = v],
         UNCHANGED <<row, decisions, todo>>, overtaken \subseteq overtaken',
         \A p \in Rows : InHand(p)' => InHand(p),
         \/ row[q].of[1] \in overtaken'
         \/ Ordinary(q) /\ InHand(q) /\ Backs(q, v) /\ ~ InHand(q)'
  PROVE  RoundsFit'
<1>1. PICK ch \in Changes : ch = row[q].of
  BY RowShape DEF PipeInv, PipeTypeOK
<1>2. ch[1] \in Tasks /\ ch = <<ch[1], ch[2]>> /\ v \in TaskPhases
  BY <1>1 DEF Changes, Verdicts, TaskPhases
<1>3. /\ \A u \in Tasks : task'[u].round = task[u].round
      /\ task'[ch[1]].state = v /\ \A u \in Tasks : u # ch[1] => task'[u] = task[u]
  BY <1>1, <1>2, TaskMoved
<1>4. ch[1] \notin overtaken' =>
        /\ Ordinary(q) /\ InHand(q) /\ Backs(q, v) /\ ~ InHand(q)'
        /\ AwaitsReview(ch) /\ ch = <<ch[1], task[ch[1]].round>>
  BY <1>1, <1>2 DEF RoundsFit, InHandAwaits, AwaitsReview
<1>5. ASSUME NEW other \in Changes, AwaitsReview(other), other # ch,
             other[1] # ch[1] \/ AwaitsReview(ch)
      PROVE  AwaitsReview(other)'
  <2>1. other = <<other[1], other[2]>> /\ other[1] \in Tasks
    BY DEF Changes
  <2>2. other[1] # ch[1]
    BY <1>2, <1>5, <2>1 DEF AwaitsReview
  <2>3. QED
    BY <1>3, <1>5, <2>1, <2>2 DEF AwaitsReview
<1>6. \A p \in Rows : Exists(p) => row[p].of \in Changes /\ row[p].of[1] \in Tasks
  BY RowShape DEF PipeInv, PipeTypeOK, Changes
<1>7. \A p \in Rows : Ordinary(p)' => Ordinary(p)
  BY DEF Ordinary, Exists
<1>8. RoutesAreNew'
  <2> SUFFICES ASSUME NEW run \in todo, run.do = "route", run.of[1] \notin overtaken'
               PROVE  AwaitsReview(run.of)'
                      /\ \A p \in Rows : Ordinary(p)' => row[p].of # run.of
    BY DEF RoutesAreNew
  <2>1. PICK new \in Changes : new = run.of
    BY DEF PipeInv, PipeTypeOK, TypeOK
  <2>2. AwaitsReview(new) /\ \A p \in Rows : Ordinary(p) => row[p].of # new
    BY <2>1 DEF RoundsFit, RoutesAreNew
  <2>3. AwaitsReview(new)'
    <3>1. CASE new[1] = ch[1]
      BY <1>1, <1>4, <1>5, <2>1, <2>2, <3>1
    <3>2. CASE new[1] # ch[1]
      BY <1>5, <2>2, <3>2
    <3>3. QED
      BY <3>1, <3>2
  <2>4. QED
    BY <1>7, <2>1, <2>2, <2>3 DEF AwaitsReview
<1>9. RowsAreDistinct' /\ RowsHaveBegun'
  BY <1>3, <1>6, <1>7 DEF RoundsFit, RowsAreDistinct, RowsHaveBegun, Exists
<1>10. InHandAwaits'
  <2> SUFFICES ASSUME NEW p \in Rows, Ordinary(p)', InHand(p)'
               PROVE  AwaitsReview(row[p].of)'
    BY DEF InHandAwaits
  <2>1. Ordinary(p) /\ InHand(p) /\ AwaitsReview(row[p].of)
    BY <1>7 DEF RoundsFit, InHandAwaits
  <2>2. PICK other \in Changes : other = row[p].of
    BY <1>6, <2>1 DEF Ordinary
  <2>3. AwaitsReview(other)'
    <3>1. CASE other[1] = ch[1]
      <4>1. ch[1] \notin overtaken'
        BY <2>2, <3>1 DEF Ordinary
      <4>2. Ordinary(q) /\ AwaitsReview(ch) /\ p # q
        BY <1>4, <4>1
      <4>3. other # ch
        BY <1>1, <2>1, <2>2, <4>2 DEF RoundsFit, RowsAreDistinct
      <4>4. QED
        BY <1>5, <2>1, <2>2, <4>2, <4>3
    <3>2. CASE other[1] # ch[1]
      BY <1>5, <2>1, <2>2, <3>2
    <3>3. QED
      BY <3>1, <3>2
  <2>4. QED
    BY <2>2, <2>3 DEF AwaitsReview
<1>11. OutcomeFitsChange'
  <2> SUFFICES ASSUME NEW t \in Tasks, task'[t].state \in Verdicts, t \notin overtaken'
               PROVE  \E p \in Rows : /\ row[p] # NoRow /\ row[p].of = <<t, task'[t].round>>
                                      /\ Backs(p, task'[t].state)
    BY DEF OutcomeFitsChange, Backs
  <2>1. CASE t = ch[1]
    BY <1>1, <1>3, <1>4, <2>1 DEF Exists
  <2>2. CASE t # ch[1]
    BY <1>3, <2>2 DEF RoundsFit, OutcomeFitsChange
  <2>3. QED
    BY <2>1, <2>2
<1>12. QED
  BY <1>8, <1>9, <1>10, <1>11 DEF RoundsFit
-----------------------------------------------------------------------------
\* Requests that end, or go past their recorded step, are no new deciders.
LEMMA OneDeciderKept ==
  ASSUME OneDecider,
         \A r \in Reviewers : deciding'[r] = deciding[r] \/ deciding'[r].step # "recorded"
  PROVE  OneDecider'
BY DEF OneDecider, Recorded

\* A step that touches neither rows nor executions, and starts no request,
\* takes no row in hand.
LEMMA NothingTaken ==
  ASSUME UNCHANGED <<row, exec>>,
         \A r \in Reviewers : deciding'[r] = deciding[r] \/ deciding'[r].step # "recorded"
  PROVE  \A p \in Rows : InHand(p)' => InHand(p)
BY DEF InHand, Recorded

\* What a human does to a row he may still act on.
LEMMA HumanFits ==
  ASSUME PipeInv, RoundsFit, NEW q \in Rows, NEW s \in Statuses,
         row[q].status \in {"QUEUED", "CLAIMED"}, row' = [row EXCEPT ![q].status = s],
         UNCHANGED <<task, todo, exec>>, overtaken \subseteq overtaken',
         \A p \in Rows : p # q => decisions'[p] = decisions[p],
         \A r \in Reviewers : deciding'[r] = deciding[r] \/ deciding'[r].row = q
  PROVE  RoundsFit'
<1>1. Exists(q) /\ InHand(q) /\ decisions[q] = <<>>
  BY RowShape DEF InHand, PipeInv, PipeTypeOK, Tells
<1>2. /\ \A p \in Rows : Exists(p)' <=> Exists(p)
      /\ \A p \in Rows : p # q => row'[p] = row[p]
      /\ row'[q].of = row[q].of /\ row'[q].sampled = row[q].sampled
  BY <1>1, StatusSet DEF PipeInv, PipeTypeOK
<1>3. \A p \in Rows : Exists(p) => row'[p].of = row[p].of /\ row'[p].sampled = row[p].sampled
  BY <1>2
<1>4. ASSUME NEW p \in Rows, InHand(p)' PROVE InHand(p)
  <2>1. CASE p = q
    BY <1>1, <2>1
  <2>2. CASE p # q
    BY <1>2, <1>4, <2>2 DEF InHand, Recorded
  <2>3. QED
    BY <2>1, <2>2
<1>5. \A p \in Rows : decisions'[p] = decisions[p] \/ decisions[p] = <<>>
  BY <1>1
<1>6. QED
  BY <1>2, <1>3, <1>4, <1>5, QuietFits

LEMMA OutsideFits ==
  ASSUME RoundsInv, Outside, UNCHANGED pipeVars, overtaken \subseteq overtaken'
  PROVE  RoundsFit' /\ OneDecider'
<1> USE DEF pipeVars
<1>1. PipeInv /\ RoundsFit /\ OneDecider
  BY DEF RoundsInv
<1>2. ASSUME NEW t \in Tasks, SubmitForReview(t) \/ BackToWork(t)
      PROVE  RoundsFit' /\ OneDecider'
  BY <1>1, <1>2, SubmitFits, BackToWorkFits, OneDeciderKept DEF SubmitForReview, BackToWork
<1>3. ASSUME NEW q \in Rows, Claim(q) \/ Release(q) \/ Drop(q) \/ Escalate(q)
      PROVE  RoundsFit' /\ OneDecider'
  <2>1. PICK s \in Statuses : row' = [row EXCEPT ![q].status = s]
    BY <1>3 DEF Claim, Release, Drop, Escalate, Flip, Statuses
  <2>2. /\ row[q].status \in {"QUEUED", "CLAIMED"} /\ UNCHANGED <<task, todo, deciding>>
        /\ decisions' = decisions \/ \E v : decisions' = [decisions EXCEPT ![q] = Append(@, v)]
    BY <1>3 DEF Claim, Release, Releasable, Drop, Escalate, Flip
  <2>3. \A p \in Rows : p # q => decisions'[p] = decisions[p]
    BY <1>1, <2>2 DEF PipeInv, PipeTypeOK, TypeOK
  <2>4. QED
    BY <1>1, <2>1, <2>2, <2>3, HumanFits, OneDeciderKept
<1>4. ASSUME NEW r \in Reviewers, NEW q \in Rows, NEW v \in Verdicts, NEW g \in BOOLEAN,
             Decide(r, q, v, g)
      PROVE  RoundsFit' /\ OneDecider'
  <2>1. /\ UNCHANGED <<task, todo>>
        /\ deciding \in [Reviewers -> Request \cup {Idle}]
        /\ decisions \in [Rows -> Seq(DecisionTypes)]
    BY <1>1, <1>4 DEF Decide, PipeInv, PipeTypeOK, TypeOK
  <2>2. PICK st \in {"recorded", "refused"} :
          /\ deciding' = [deciding EXCEPT ![r] =
               [step |-> st, row |-> q, verdict |-> v, given |-> g]]
          /\ \/ st = "refused" /\ UNCHANGED <<row, decisions>>
             \/ Flip(q, {"CLAIMED"}, "DECIDED", v)
    BY <1>4 DEF Decide, Decidable
  <2>3. /\ deciding'[r] = [step |-> st, row |-> q, verdict |-> v, given |-> g]
        /\ \A x \in Reviewers : x # r => deciding'[x] = deciding[x]
    BY <2>1, <2>2
  <2>4. CASE st = "refused" /\ UNCHANGED <<row, decisions>>
    <3>1. \A x \in Reviewers : deciding'[x] = deciding[x] \/ deciding'[x].step # "recorded"
      BY <2>3, <2>4
    <3>2. QED
      BY <1>1, <2>1, <2>4, <3>1, OneDeciderKept, NothingTaken, QuietFits DEF Exists
  <2>5. CASE Flip(q, {"CLAIMED"}, "DECIDED", v)
    <3>1. /\ row[q].status = "CLAIMED" /\ "DECIDED" \in Statuses
          /\ row' = [row EXCEPT ![q].status = "DECIDED"]
          /\ \A p \in Rows : p # q => decisions'[p] = decisions[p]
      BY <2>1, <2>5 DEF Flip, Statuses
    <3>2. \A x \in Reviewers : Recorded(x) => deciding[x].row # q
      BY <1>1, <3>1 DEF PipeInv, RequestsFit, Recorded, Idle
    <3>3. OneDecider'
      BY <1>1, <2>3, <3>2 DEF OneDecider, Recorded
    <3>4. \A x \in Reviewers : deciding'[x] = deciding[x] \/ deciding'[x].row = q
      BY <2>3
    <3>5. RoundsFit'
      BY <1>1, <2>1, <3>1, <3>4, HumanFits
    <3>6. QED
      BY <3>3, <3>5
  <2>6. QED
    BY <2>2, <2>4, <2>5
<1>5. ASSUME NEW ch \in Changes, StatusVerified(ch) \/ StatusRolledBack(ch)
      PROVE  RoundsFit' /\ OneDecider'
  <2>1. UNCHANGED <<task, row, decisions, deciding, todo>>
    BY <1>5 DEF StatusVerified, StatusRolledBack
  <2>2. QED
    BY <1>1, <2>1, OneDeciderKept, NothingTaken, QuietFits DEF Exists
<1>6. QED
  BY <1>1, <1>2, <1>3, <1>4, <1>5 DEF Outside

\* A decide request that moves its task lets go of its row: nobody else has it.
LEMMA MoveTaskFits ==
  ASSUME RoundsInv, NEW r \in Reviewers, MoveTask(r), UNCHANGED pipeVars,
         overtaken \cup Overtakes \subseteq overtaken'
  PROVE  RoundsFit' /\ OneDecider'
<1> DEFINE q == deciding[r].row
           v == deciding[r].verdict
<1>1. /\ PipeInv /\ RoundsFit /\ OneDecider /\ Recorded(r)
      /\ UNCHANGED <<row, decisions, todo, exec>>
  BY DEF RoundsInv, MoveTask, Recorded, pipeVars
<1>2. q \in Rows /\ Exists(q) /\ v \in Verdicts /\ deciding[r] \in Request
  BY <1>1, RequestTask DEF Recorded
<1>3. /\ deciding'[r].step # "recorded"
      /\ \A s \in Reviewers : s # r => deciding'[s] = deciding[s]
  <2>1. PICK x \in {"refused", "moved"} :
          \/ deciding' = [deciding EXCEPT ![r].step = x]
          \/ deciding' = [deciding EXCEPT ![r] = Idle]
    BY DEF MoveTask
  <2>2. deciding \in [Reviewers -> Request \cup {Idle}]
    BY <1>1 DEF PipeInv, PipeTypeOK, TypeOK
  <2>3. [deciding[r] EXCEPT !.step = x].step = x
    BY <1>2 DEF Request
  <2>4. Idle.step # "recorded"
    BY DEF Idle
  <2>5. QED
    BY <2>1, <2>2, <2>3, <2>4
<1>4. \A s \in Reviewers : deciding'[s] = deciding[s] \/ deciding'[s].step # "recorded"
  BY <1>3
<1>5. OneDecider' /\ \A p \in Rows : InHand(p)' => InHand(p)
  BY <1>1, <1>4, OneDeciderKept, NothingTaken
<1>6. CASE UNCHANGED task
  BY <1>1, <1>5, <1>6, QuietFits DEF Exists
<1>7. CASE AcceptsVerdict(row[q].of[1]) /\ deciding' = [deciding EXCEPT ![r].step = "moved"]
           /\ task' = [task EXCEPT ![row[q].of[1]].state = v]
  <2>1. row[q].status = "DECIDED" /\ decisions[q] = <<v>> /\ InHand(q)
    BY <1>1, <1>2 DEF PipeInv, RequestsFit, Recorded, InHand, Idle
  <2>2. exec[q] \notin {"flipped", "recorded"}
    <3>1. <<v>>[1] # <<"AUTO_APPROVED">>[1]
      BY <1>2 DEF Verdicts
    <3>2. <<v>> # <<"AUTO_APPROVED">> /\ <<v>> # <<>>
      BY <3>1
    <3>3. QED
      BY <1>1, <1>2, <2>1, <3>2 DEF PipeInv, Tells
  <2>3. ~ \E s \in Reviewers : Recorded(s)' /\ deciding'[s].row = q
    BY <1>1, <1>3 DEF OneDecider, Recorded
  <2>4. PICK p \in Rows, w \in Verdicts : p = q /\ w = v
    BY <1>2
  <2>5. ~ InHand(p)' /\ Backs(p, w) /\ InHand(p)
    BY <1>1, <2>1, <2>2, <2>3, <2>4 DEF InHand, Recorded, Backs
  <2>6. row[p].of[1] \in overtaken' \/ Ordinary(p)
    <3>1. SUFFICES ASSUME row[q].sampled PROVE row[q].of[1] \in Overtakes
      BY <1>1, <1>2, <2>4 DEF Ordinary
    <3>2. PICK ch \in Changes : ch = row[q].of
      BY <1>1, <1>2, RowShape DEF PipeInv, PipeTypeOK
    <3>3. ch[1] \in Tasks /\ ch[2] \in Nat /\ task[ch[1]].round \in Nat
      BY <1>1, RoundsAssumption DEF Changes, PipeInv, PipeTypeOK, TypeOK, RoundsAssumption
    <3>4. ~ AwaitsReview(ch) /\ ch[2] <= task[ch[1]].round
      BY <1>1, <1>2, <3>1, <3>2
         DEF RoundsInv, ControlsFit, ControlsAreLate, RoundsFit, RowsHaveBegun
    <3>8. task[ch[1]].round # ch[2]
      BY <1>7, <3>2, <3>4 DEF AwaitsReview, AcceptsVerdict
    <3>5. ch[2] < task[ch[1]].round
      BY <3>3, <3>4, <3>8
    <3>6. deciding'[r].step = "moved"
      BY <1>1, <1>2, <1>7 DEF PipeInv, PipeTypeOK, TypeOK, Request
    <3>7. QED
      BY <1>1, <3>1, <3>2, <3>3, <3>5, <3>6 DEF Overtakes, Recorded
  <2>7. QED
    BY <1>1, <1>2, <1>5, <1>7, <2>4, <2>5, <2>6, OutcomeFits
<1>8. QED
  BY <1>5, <1>6, <1>7 DEF MoveTask

LEMMA InsideFits ==
  ASSUME RoundsInv, Inside, UNCHANGED pipeVars, overtaken \cup Overtakes \subseteq overtaken'
  PROVE  RoundsFit' /\ OneDecider'
<1>1. PipeInv /\ RoundsFit /\ OneDecider /\ UNCHANGED exec
  BY DEF RoundsInv, pipeVars
<1>2. ASSUME NEW r \in Reviewers, Announce(r) \/ AnswerRefusal(r)
      PROVE  RoundsFit' /\ OneDecider'
  <2>1. /\ UNCHANGED <<task, row, decisions>>
        /\ deciding' = [deciding EXCEPT ![r] = Idle] /\ Idle.step # "recorded"
    BY <1>2 DEF Announce, AnswerRefusal, Idle
  <2>2. \A s \in Reviewers : deciding'[s] = deciding[s] \/ deciding'[s].step # "recorded"
    BY <1>1, <2>1 DEF PipeInv, PipeTypeOK, TypeOK
  <2>3. \A run \in todo' : run.do = "route" => run \in todo
    BY <1>2 DEF Announce, AnswerRefusal
  <2>4. QED
    BY <1>1, <2>1, <2>2, <2>3, OneDeciderKept, NothingTaken, QuietFits DEF Exists
<1>3. ASSUME NEW run \in todo, StatusReviewed(run)
      PROVE  RoundsFit' /\ OneDecider'
  <2>1. UNCHANGED <<task, row, decisions, deciding>> /\ todo' \subseteq todo
    BY <1>3 DEF StatusReviewed
  <2>2. QED
    BY <1>1, <2>1, OneDeciderKept, NothingTaken, QuietFits DEF Exists
<1>4. ASSUME NEW r \in Reviewers, MoveTask(r) PROVE RoundsFit' /\ OneDecider'
  BY <1>4, MoveTaskFits
<1>5. QED
  BY <1>1, <1>2, <1>3, <1>4 DEF Inside

\* A step of one execution short of moving its task takes no row in hand.
LEMMA ExecFitsRounds ==
  ASSUME RoundsInv, NEW q \in Rows, Exists(q), NEW e \in ExecSteps,
         exec' = [exec EXCEPT ![q] = e], e \in {"flipped", "recorded"} => InHand(q),
         UNCHANGED <<task, deciding, todo>>,
         UNCHANGED row \/ row' = [row EXCEPT ![q].status = "DECIDED"],
         \A p \in Rows : decisions'[p] = decisions[p] \/ decisions[p] = <<>>,
         overtaken \subseteq overtaken'
  PROVE  RoundsFit' /\ OneDecider'
<1>1. PipeInv /\ TypeOK /\ RoundsFit /\ OneDecider /\ "DECIDED" \in Statuses
  BY DEF RoundsInv, PipeInv, PipeTypeOK, Statuses
<1>2. exec'[q] = e /\ \A p \in Rows : p # q => exec'[p] = exec[p]
  BY <1>1 DEF PipeInv, PipeTypeOK
<1>3. /\ \A p \in Rows : Exists(p)' <=> Exists(p)
      /\ \A p \in Rows : Exists(p) => /\ row'[p].of = row[p].of
                                        /\ row'[p].sampled = row[p].sampled
      /\ \A p \in Rows : p # q => row'[p] = row[p]
      /\ UNCHANGED row \/ row'[q].status = "DECIDED"
  <2>1. CASE UNCHANGED row
    BY <2>1 DEF Exists
  <2>2. CASE row' = [row EXCEPT ![q].status = "DECIDED"]
    BY <1>1, <2>2, StatusSet
  <2>3. QED
    BY <2>1, <2>2
<1>4. ASSUME NEW p \in Rows, InHand(p)' PROVE InHand(p)
  <2>1. CASE p = q
    BY <1>2, <1>3, <1>4, <2>1 DEF InHand, Recorded
  <2>2. CASE p # q
    BY <1>2, <1>3, <1>4, <2>2 DEF InHand, Recorded
  <2>3. QED
    BY <2>1, <2>2
<1>5. RoundsFit'
  BY <1>1, <1>3, <1>4, QuietFits
<1>6. QED
  BY <1>1, <1>2, <1>5, OneDeciderKept

\* A control is not ordinary: its insert adds nothing RoundsFit is about.
LEMMA ControlFits ==
  ASSUME RoundsInv, NEW q \in Rows, NEW control \in Rows, RouteControl(q, control),
         overtaken \subseteq overtaken'
  PROVE  RoundsFit' /\ OneDecider' /\ ControlsFit'
<1>1. /\ PipeInv /\ PipeTypeOK /\ TypeOK /\ RoundsFit /\ OneDecider /\ ControlsFit
      /\ exec[q] = "sampling" /\ Enqueued(control, row[q].of, "REVIEW_REQUIRED", TRUE)
      /\ exec' = [exec EXCEPT ![q] = "done"] /\ UNCHANGED <<task, decisions, deciding, todo>>
  BY DEF RoundsInv, PipeInv, PipeTypeOK, RouteControl, At, Goto
<1>2. Exists(q) /\ row[q].of \in Changes
  BY <1>1, ExecTask
<1>3. /\ ~ Exists(control) /\ row'[control].of = row[q].of /\ row'[control].sampled
      /\ \A p \in Rows : p # control => row'[p] = row[p]
      /\ \A p \in Rows : Exists(p) => Exists(p)' /\ row'[p] = row[p]
  <2>1. "REVIEW_REQUIRED" \in Actions /\ TRUE \in BOOLEAN
    BY DEF Actions
  <2>2. QED
    BY <1>1, <1>2, <2>1, RowInserted
<1>4. \A p \in Rows : Exists(p)' => Exists(p) \/ p = control
  BY <1>3 DEF Exists
<1>5. \A p \in Rows : Ordinary(p)' => Ordinary(p) /\ row'[p] = row[p]
  BY <1>3, <1>4 DEF Ordinary
<1>6. exec'[q] = "done" /\ \A p \in Rows : p # q => exec'[p] = exec[p]
  BY <1>1 DEF PipeTypeOK
<1>7. RoutesAreNew' /\ RowsAreDistinct'
  BY <1>1, <1>5 DEF RoundsFit, RoutesAreNew, RowsAreDistinct, AwaitsReview, Ordinary
<1>8. RowsHaveBegun'
  <2> SUFFICES ASSUME NEW p \in Rows, Exists(p)'
               PROVE  row'[p].of[2] <= task[row'[p].of[1]].round
    BY <1>1 DEF RowsHaveBegun
  <2>1. CASE p = control
    BY <1>1, <1>2, <1>3, <2>1 DEF RoundsFit, RowsHaveBegun
  <2>2. CASE p # control
    BY <1>1, <1>3, <1>4, <2>2 DEF RoundsFit, RowsHaveBegun
  <2>3. QED
    BY <2>1, <2>2
<1>9. InHandAwaits'
  <2> SUFFICES ASSUME NEW p \in Rows, Ordinary(p)', InHand(p)'
               PROVE  AwaitsReview(row'[p].of)
    BY <1>1 DEF InHandAwaits, AwaitsReview
  <2>1. Ordinary(p) /\ row'[p] = row[p]
    BY <1>5
  <2>2. InHand(p)
    BY <1>1, <1>6, <2>1 DEF InHand, Recorded
  <2>3. QED
    BY <1>1, <2>1, <2>2 DEF RoundsFit, InHandAwaits
<1>10. OutcomeFitsChange'
  <2> SUFFICES ASSUME NEW t \in Tasks, task[t].state \in Verdicts, t \notin overtaken'
               PROVE  \E p \in Rows : /\ row'[p] # NoRow /\ row'[p].of = <<t, task[t].round>>
                                      /\ Backs(p, task[t].state)
    BY <1>1 DEF OutcomeFitsChange, Backs
  <2>1. PICK p \in Rows : /\ row[p] # NoRow /\ row[p].of = <<t, task[t].round>>
                          /\ Backs(p, task[t].state)
    BY <1>1 DEF RoundsFit, OutcomeFitsChange
  <2>2. row'[p] = row[p]
    BY <1>3, <2>1 DEF Exists
  <2>3. QED
    BY <2>1, <2>2
<1>11. ControlsAreLate'
  <2> SUFFICES ASSUME NEW p \in Rows, Exists(p)', row'[p].sampled \/ exec'[p] = "sampling"
               PROVE  ~ AwaitsReview(row'[p].of)
    BY <1>1 DEF ControlsAreLate, AwaitsReview
  <2>1. CASE p = control
    BY <1>1, <1>2, <1>3, <2>1 DEF ControlsFit, ControlsAreLate
  <2>2. CASE p # control
    BY <1>1, <1>3, <1>4, <1>6, <2>2 DEF ControlsFit, ControlsAreLate
  <2>3. QED
    BY <2>1, <2>2
<1>12. MachineRows'
  <2> SUFFICES ASSUME NEW p \in Rows, exec'[p] # "none" PROVE ~ row'[p].sampled
    BY DEF MachineRows
  <2>1. exec[p] # "none"
    BY <1>1, <1>6
  <2>2. Exists(p) /\ ~ row[p].sampled
    BY <1>1, <2>1, ExecTask DEF ControlsFit, MachineRows
  <2>3. QED
    BY <1>3, <2>2
<1>13. QED
  BY <1>1, <1>7, <1>8, <1>9, <1>10, <1>11, <1>12, OneDeciderKept DEF RoundsFit, ControlsFit

LEMMA ExecuteFits ==
  ASSUME RoundsInv, NEW q \in Rows, Execute(q), overtaken \subseteq overtaken'
  PROVE  RoundsFit' /\ OneDecider'
<1>1. PipeInv /\ RoundsFit /\ OneDecider
  BY DEF RoundsInv
<1>2. exec[q] # "none"
  BY <1>1 DEF Execute, ExecReload, ExecGate, ExecFlip, ExecRecord, ExecMoveTask, RouteControl, At
<1>3. Exists(q)
  BY <1>1, <1>2, ExecTask
<1>4. CASE ExecReload(q) \/ ExecGate(q)
  <2>1. PICK e \in {"loaded", "allowed", "denied"} : exec' = [exec EXCEPT ![q] = e]
    BY <1>4 DEF ExecReload, ExecGate, Goto
  <2>2. UNCHANGED <<task, deciding, todo, row, decisions>> /\ e \in ExecSteps
    BY <1>4 DEF ExecReload, ExecGate, vars, ExecSteps
  <2>3. QED
    BY <1>3, <2>1, <2>2, ExecFitsRounds
<1>5. CASE ExecFlip(q)
  <2>1. PICK e \in {"flipped", "denied"} :
          /\ exec' = [exec EXCEPT ![q] = e]
          /\ e = "flipped" => row[q].status = "QUEUED"
          /\ UNCHANGED row \/ row' = [row EXCEPT ![q].status = "DECIDED"]
    BY <1>5 DEF ExecFlip, ExecFlipFrom, Goto
  <2>2. UNCHANGED <<task, deciding, todo, decisions>> /\ e \in ExecSteps
    BY <1>5 DEF ExecFlip, ExecSteps
  <2>3. QED
    BY <1>3, <2>1, <2>2, ExecFitsRounds DEF InHand
<1>6. CASE ExecRecord(q)
  <2>1. /\ exec' = [exec EXCEPT ![q] = "recorded"] /\ exec[q] = "flipped"
        /\ decisions' = [decisions EXCEPT ![q] = Append(@, "AUTO_APPROVED")]
        /\ UNCHANGED <<task, row, deciding, todo>> /\ "recorded" \in ExecSteps
    BY <1>6 DEF ExecRecord, At, Goto, ExecSteps
  <2>2. row[q].status = "DECIDED"
    BY <1>1, <2>1 DEF PipeInv, ExecFits
  <2>3. decisions[q] = <<>>
    BY <1>1, <2>1, <2>2 DEF PipeInv, Tells
  <2>4. \A p \in Rows : decisions'[p] = decisions[p] \/ decisions[p] = <<>>
    BY <1>1, <2>1, <2>3 DEF PipeInv, PipeTypeOK, TypeOK
  <2>5. QED
    BY <1>3, <2>1, <2>4, ExecFitsRounds DEF InHand
<1>7. CASE ExecMoveTask(q)
  <2>1. PICK e \in {"done", "failed", "sampling"} : exec' = [exec EXCEPT ![q] = e]
    BY <1>7 DEF ExecMoveTask, Goto
  <2>2. /\ exec[q] = "recorded" /\ e \in ExecSteps
        /\ UNCHANGED <<row, decisions, deciding, todo>>
    BY <1>7 DEF ExecMoveTask, At, ExecSteps
  <2>3. CASE UNCHANGED task
    BY <1>3, <2>1, <2>2, <2>3, ExecFitsRounds
  <2>4. CASE AcceptsVerdict(row[q].of[1])
             /\ task' = [task EXCEPT ![row[q].of[1]].state = "APPROVED"]
    <3>1. row[q].status = "DECIDED"
      BY <1>1, <2>2 DEF PipeInv, ExecFits
    <3>2. decisions[q] = <<"AUTO_APPROVED">>
      BY <1>1, <2>2, <3>1 DEF PipeInv, Tells
    <3>3. Backs(q, "APPROVED") /\ InHand(q) /\ "APPROVED" \in Verdicts
      BY <2>2, <3>2 DEF Backs, InHand, Verdicts
    <3>9. row[q].of[1] \in overtaken' \/ Ordinary(q)
      BY <1>1, <1>2, <1>3 DEF RoundsInv, ControlsFit, MachineRows, Ordinary
    <3>4. exec'[q] = e /\ \A p \in Rows : p # q => exec'[p] = exec[p]
      BY <1>1, <2>1 DEF PipeInv, PipeTypeOK
    <3>5. ASSUME NEW r \in Reviewers, Recorded(r) PROVE deciding[r].row # q
      <4>1. deciding[r].verdict \in Verdicts /\ (deciding[r].row = q =>
              decisions[q] = <<deciding[r].verdict>>)
        BY <1>1, <3>5, RequestTask DEF PipeInv, RequestsFit, Recorded
      <4>2. <<deciding[r].verdict>>[1] # <<"AUTO_APPROVED">>[1]
        BY <4>1 DEF Verdicts
      <4>3. QED
        BY <3>2, <4>1, <4>2
    <3>6. ~ InHand(q)' /\ \A p \in Rows : InHand(p)' => InHand(p)
      BY <2>2, <3>1, <3>4, <3>5 DEF InHand, Recorded
    <3>7. RoundsFit'
      BY <1>1, <1>3, <2>2, <2>4, <3>3, <3>6, <3>9, OutcomeFits
    <3>8. QED
      BY <1>1, <2>2, <3>4, <3>7, OneDeciderKept
  <2>5. QED
    BY <1>7, <2>3, <2>4 DEF ExecMoveTask
<1>8. ASSUME NEW control \in Rows, RouteControl(q, control) PROVE RoundsFit' /\ OneDecider'
  BY <1>8, ControlFits
<1>9. QED
  BY <1>4, <1>5, <1>6, <1>7, <1>8 DEF Execute

LEMMA HandleFits ==
  ASSUME RoundsInv, NEW run \in todo, Handle(run), overtaken \subseteq overtaken'
  PROVE  RoundsFit' /\ OneDecider'
<1>1. PipeInv /\ RoundsFit /\ OneDecider
  BY DEF RoundsInv
<1>2. ASSUME NEW q \in Rows, NEW a \in Actions, RouteAndStart(q, run, a)
      PROVE  RoundsFit' /\ OneDecider'
  <2>1. RoundsFit' /\ UNCHANGED deciding
    BY <1>1, <1>2, RouteFits DEF RouteAndStart, Route
  <2>2. QED
    BY <1>1, <2>1, OneDeciderKept
<1>3. CASE CheckLeak(run)
  <2>1. UNCHANGED <<task, row, decisions, deciding, exec>> /\ todo' \subseteq todo
    BY <1>3 DEF CheckLeak
  <2>2. QED
    BY <1>1, <2>1, OneDeciderKept, NothingTaken, QuietFits DEF Exists
<1>4. QED
  BY <1>2, <1>3 DEF Handle

LEMMA SwitchFits ==
  ASSUME RoundsInv, (\E on \in BOOLEAN : SetFlag(on)) \/ Kill \/ RequeueInFlight
                    \/ PipeCrash \/ UNCHANGED allVars,
         overtaken \subseteq overtaken'
  PROVE  RoundsFit' /\ OneDecider'
<1>1. PipeInv /\ TypeOK /\ RoundsFit /\ OneDecider
  BY DEF RoundsInv, PipeInv, PipeTypeOK
<1>2. CASE (\E on \in BOOLEAN : SetFlag(on)) \/ Kill \/ UNCHANGED allVars
  <2>1. UNCHANGED <<task, row, decisions, deciding, todo, exec>>
    BY <1>2 DEF SetFlag, Kill, allVars, vars, pipeVars
  <2>2. QED
    BY <1>1, <2>1, OneDeciderKept, NothingTaken, QuietFits DEF Exists
<1>3. CASE RequeueInFlight
  <2>1. /\ UNCHANGED <<task, decisions, deciding, todo, exec>>
        /\ \A p \in Rows : row'[p].status = row[p].status /\ (Exists(p)' <=> Exists(p))
        /\ \A p \in Rows : Exists(p) => /\ row'[p].of = row[p].of
                                          /\ row'[p].sampled = row[p].sampled
    BY <1>1, <1>3, RequeueKeepsRows DEF RequeueInFlight
  <2>2. \A p \in Rows : InHand(p)' => InHand(p)
    BY <2>1 DEF InHand, Recorded
  <2>3. QED
    BY <1>1, <2>1, <2>2, OneDeciderKept, QuietFits
<1>4. CASE PipeCrash
  <2>1. /\ UNCHANGED <<task, row, decisions>> /\ todo' = {}
        /\ \A r \in Reviewers : deciding'[r].step # "recorded"
        /\ \A p \in Rows : exec'[p] \in {exec[p], "failed"}
    BY <1>4 DEF PipeCrash, Crash, Idle
  <2>2. \A p \in Rows : InHand(p)' => InHand(p)
    BY <2>1 DEF InHand, Recorded
  <2>3. QED
    BY <1>1, <2>1, <2>2, OneDeciderKept, QuietFits DEF Exists
<1>5. QED
  BY <1>2, <1>3, <1>4

-----------------------------------------------------------------------------
\* A change whose round is over does not await review again.
LEMMA LateStays ==
  ASSUME PipeInv, [Next]_allVars, NEW ch \in Changes,
         ch[2] <= task[ch[1]].round, ~ AwaitsReview(ch)
  PROVE  ~ AwaitsReview(ch)'
<1>1. /\ task \in [Tasks -> [state : TaskPhases, round : 0..MaxRounds]]
      /\ ch[1] \in Tasks /\ ch[2] \in Nat /\ task[ch[1]].round \in Nat
  BY RoundsAssumption DEF PipeInv, PipeTypeOK, TypeOK, Changes, RoundsAssumption
<1>2. CASE UNCHANGED task
  BY <1>2 DEF AwaitsReview
<1>3. ASSUME NEW t \in Tasks, NEW s \in TaskPhases, s # "AWAITING_REVIEW",
             task' = [task EXCEPT ![t].state = s]
      PROVE  ~ AwaitsReview(ch)'
  BY <1>1, <1>3, TaskMoved DEF AwaitsReview
<1>4. ASSUME NEW t \in Tasks, SubmitForReview(t) PROVE ~ AwaitsReview(ch)'
  <2>1. task' = [task EXCEPT ![t] = [state |-> "AWAITING_REVIEW", round |-> task[t].round + 1]]
    BY <1>1, <1>4 DEF SubmitForReview
  <2>2. CASE ch[1] = t
    <3>1. task'[ch[1]].round = task[ch[1]].round + 1
      BY <1>1, <2>1, <2>2
    <3>2. QED
      BY <1>1, <3>1 DEF AwaitsReview
  <2>3. CASE ch[1] # t
    BY <1>1, <2>1, <2>3 DEF AwaitsReview
  <2>4. QED
    BY <2>2, <2>3
<1>5. ASSUME NEW t \in Tasks, BackToWork(t) PROVE ~ AwaitsReview(ch)'
  BY <1>3, <1>5 DEF BackToWork, TaskPhases
<1>6. ASSUME NEW r \in Reviewers, MoveTask(r) PROVE ~ AwaitsReview(ch)'
  <2>1. /\ row[deciding[r].row].of[1] \in Tasks
        /\ deciding[r].verdict \in TaskPhases /\ deciding[r].verdict # "AWAITING_REVIEW"
    BY <1>6, RequestTask DEF MoveTask, Verdicts, TaskPhases
  <2>2. QED
    BY <1>2, <1>3, <1>6, <2>1 DEF MoveTask
<1>7. ASSUME NEW q \in Rows, ExecMoveTask(q) PROVE ~ AwaitsReview(ch)'
  <2>1. row[q].of[1] \in Tasks
    BY <1>7, ExecTask DEF ExecMoveTask, At
  <2>2. QED
    BY <1>2, <1>3, <1>7, <2>1 DEF ExecMoveTask, TaskPhases
<1>8. QED
  BY <1>2, <1>4, <1>5, <1>6, <1>7, TaskSteps

\* What the steps that insert no row do to rows and executions: only the move of
\* its own task brings an execution to sampling.
Kept(p) ==
  /\ Exists(p)' <=> Exists(p)
  /\ Exists(p) => row'[p].of = row[p].of /\ row'[p].sampled = row[p].sampled
  /\ exec'[p] # "none" => exec[p] # "none"
  /\ exec'[p] = "sampling" =>
       exec[p] = "sampling" \/ task' = [task EXCEPT ![row[p].of[1]].state = "APPROVED"]

LEMMA OutsideKept ==
  ASSUME PipeInv, Outside, UNCHANGED pipeVars, NEW p \in Rows
  PROVE  Kept(p)
<1>1. TypeOK /\ UNCHANGED exec
  BY DEF PipeInv, PipeTypeOK, pipeVars
<1>2. CASE UNCHANGED row
  BY <1>1, <1>2 DEF Kept, Exists
<1>3. ASSUME NEW q \in Rows, NEW s \in Statuses, Exists(q),
             row' = [row EXCEPT ![q].status = s]
      PROVE  Kept(p)
  <2>1. /\ \A x \in Rows : x # q => row'[x] = row[x]
        /\ row'[q].of = row[q].of /\ row'[q].sampled = row[q].sampled
        /\ \A x \in Rows : Exists(x)' <=> Exists(x)
    BY <1>1, <1>3, StatusSet
  <2>2. QED
    BY <1>1, <2>1 DEF Kept
<1>4. \A q \in Rows : row[q].status \in Statuses => Exists(q)
  BY <1>1, RowShape
<1>5. ASSUME NEW q \in Rows, Claim(q) \/ Release(q) \/ Drop(q) \/ Escalate(q)
      PROVE  Kept(p)
  <2>1. row[q].status \in Statuses
    BY <1>5 DEF Claim, Release, Releasable, Drop, Escalate, Flip, Statuses
  <2>2. PICK s \in Statuses : row' = [row EXCEPT ![q].status = s]
    BY <1>5 DEF Claim, Release, Drop, Escalate, Flip, Statuses
  <2>3. QED
    BY <1>3, <1>4, <2>1, <2>2
<1>6. ASSUME NEW r \in Reviewers, NEW q \in Rows, NEW v \in Verdicts, NEW g \in BOOLEAN,
             Decide(r, q, v, g)
      PROVE  Kept(p)
  <2>1. Exists(q) /\ "DECIDED" \in Statuses
    BY <1>6 DEF Decide, Exists, Statuses
  <2>2. UNCHANGED row \/ row' = [row EXCEPT ![q].status = "DECIDED"]
    BY <1>6 DEF Decide, Flip
  <2>3. QED
    BY <1>2, <1>3, <2>1, <2>2
<1>7. QED
  BY <1>2, <1>5, <1>6
     DEF Outside, SubmitForReview, BackToWork, StatusVerified, StatusRolledBack

LEMMA ExecuteKept ==
  ASSUME PipeInv, NEW q \in Rows, NEW p \in Rows, Execute(q)
  PROVE  Kept(p) \/ \E control \in Rows : RouteControl(q, control)
<1> SUFFICES ASSUME ~ \E control \in Rows : RouteControl(q, control)
             PROVE  Kept(p)
  OBVIOUS
<1>1. TypeOK /\ exec \in [Rows -> ExecSteps]
  BY DEF PipeInv, PipeTypeOK
<1>2. exec[q] # "none"
  BY DEF Execute, ExecReload, ExecGate, ExecFlip, ExecRecord, ExecMoveTask, At
<1>3. PICK e \in ExecSteps :
        /\ exec' = [exec EXCEPT ![q] = e]
        /\ e = "sampling" => task' = [task EXCEPT ![row[q].of[1]].state = "APPROVED"]
  BY DEF Execute, ExecReload, ExecGate, ExecFlip, ExecRecord, ExecMoveTask, Goto, ExecSteps
<1>4. UNCHANGED row \/ row' = [row EXCEPT ![q].status = "DECIDED"]
  BY DEF Execute, ExecReload, ExecGate, ExecFlip, ExecRecord, ExecMoveTask, vars
<1>5. /\ Exists(p)' <=> Exists(p)
      /\ Exists(p) => row'[p].of = row[p].of /\ row'[p].sampled = row[p].sampled
  <2>1. CASE UNCHANGED row
    BY <2>1 DEF Exists
  <2>2. CASE row' = [row EXCEPT ![q].status = "DECIDED"]
    <3>1. Exists(q) /\ "DECIDED" \in Statuses
      BY <1>2, ExecTask DEF Statuses
    <3>2. QED
      BY <1>1, <2>2, <3>1, StatusSet
  <2>3. QED
    BY <1>4, <2>1, <2>2
<1>6. QED
  BY <1>1, <1>2, <1>3, <1>5 DEF Kept

LEMMA OthersKept ==
  ASSUME PipeInv, NEW p \in Rows,
         \/ Inside /\ UNCHANGED pipeVars
         \/ (\E run \in todo : CheckLeak(run)) \/ (\E on \in BOOLEAN : SetFlag(on))
         \/ Kill \/ RequeueInFlight \/ PipeCrash \/ UNCHANGED allVars
  PROVE  Kept(p)
<1>1. TypeOK
  BY DEF PipeInv, PipeTypeOK
<1>2. CASE Inside /\ UNCHANGED pipeVars
  <2>1. UNCHANGED <<row, exec>>
    BY <1>2 DEF Inside, MoveTask, Announce, AnswerRefusal, StatusReviewed, pipeVars
  <2>2. QED
    BY <2>1 DEF Kept, Exists
<1>3. CASE \/ (\E run \in todo : CheckLeak(run)) \/ (\E on \in BOOLEAN : SetFlag(on))
           \/ Kill \/ UNCHANGED allVars
  <2>1. UNCHANGED <<row, exec>>
    BY <1>3 DEF CheckLeak, SetFlag, Kill, allVars, vars, pipeVars
  <2>2. QED
    BY <2>1 DEF Kept, Exists
<1>4. CASE RequeueInFlight
  BY <1>1, <1>4, RequeueKeepsRows DEF Kept, RequeueInFlight
<1>5. CASE PipeCrash
  BY <1>5 DEF Kept, Exists, PipeCrash, Crash, InProgress
<1>6. QED
  BY <1>2, <1>3, <1>4, <1>5

\* Controls stay late and the machine's rows stay ordinary where rows are kept.
LEMMA ControlsKept ==
  ASSUME RoundsInv, [Next]_allVars, \A p \in Rows : Kept(p)
  PROVE  ControlsFit'
<1>1. PipeInv /\ PipeTypeOK /\ TypeOK /\ ControlsFit /\ RowsHaveBegun
  BY DEF RoundsInv, PipeInv, PipeTypeOK, RoundsFit
<1>2. ControlsAreLate'
  <2> SUFFICES ASSUME NEW p \in Rows, Exists(p)', row'[p].sampled \/ exec'[p] = "sampling"
               PROVE  ~ AwaitsReview(row[p].of)'
    BY DEF ControlsAreLate
  <2>1. PICK ch \in Changes : ch = row[p].of /\ ch = row'[p].of
    BY <1>1, RowShape DEF Kept
  <2>2. Exists(p) /\ ch[2] <= task[ch[1]].round /\ ch[1] \in Tasks
    BY <1>1, <2>1 DEF Kept, RowsHaveBegun, Changes
  <2>3. CASE row[p].sampled \/ exec[p] = "sampling"
    <3>1. ~ AwaitsReview(ch)
      BY <1>1, <2>1, <2>2, <2>3 DEF ControlsFit, ControlsAreLate
    <3>2. ~ AwaitsReview(ch)'
      BY <1>1, <2>2, <3>1, LateStays
    <3>3. QED
      BY <2>1, <3>2 DEF AwaitsReview
  <2>4. CASE task' = [task EXCEPT ![row[p].of[1]].state = "APPROVED"]
    <3>1. task'[ch[1]].state = "APPROVED"
      BY <1>1, <2>1, <2>2, <2>4, TaskMoved DEF TaskPhases
    <3>2. QED
      BY <2>1, <3>1 DEF AwaitsReview
  <2>5. QED
    BY <2>2, <2>3, <2>4 DEF Kept
<1>3. MachineRows'
  <2> SUFFICES ASSUME NEW p \in Rows, exec'[p] # "none" PROVE ~ row'[p].sampled
    BY DEF MachineRows
  <2>1. exec[p] # "none"
    BY DEF Kept
  <2>2. Exists(p) /\ ~ row[p].sampled
    BY <1>1, <2>1, ExecTask DEF ControlsFit, MachineRows
  <2>3. QED
    BY <2>2 DEF Kept
<1>4. QED
  BY <1>2, <1>3 DEF ControlsFit

\* Routing enqueues no control.
LEMMA RouteControls ==
  ASSUME RoundsInv, NEW run \in todo, NEW q \in Rows, NEW a \in Actions,
         RouteAndStart(q, run, a)
  PROVE  ControlsFit'
<1>1. /\ PipeInv /\ PipeTypeOK /\ TypeOK /\ ControlsFit /\ UNCHANGED task
      /\ run.do = "route" /\ FALSE \in BOOLEAN
      /\ Enqueued(q, <<run.of[1], task[run.of[1]].round>>, a, FALSE)
  BY DEF RoundsInv, PipeInv, PipeTypeOK, RouteAndStart, Route
<1>2. PICK ch \in Changes : Enqueued(q, ch, a, FALSE)
  BY <1>1, RoutedChange
<1>3. /\ ~ Exists(q) /\ row'[q].sampled = FALSE
      /\ \A p \in Rows : p # q => row'[p] = row[p]
  BY <1>1, <1>2, RowInserted
<1>4. PICK e \in {"none", "started"} :
        exec'[q] = e /\ \A p \in Rows : p # q => exec'[p] = exec[p]
  <2>1. exec[q] = "none"
    BY <1>1, <1>3 DEF PipeInv, ExecFits
  <2>2. QED
    BY <1>1, <2>1 DEF RouteAndStart, PipeTypeOK
<1>5. QED
  BY <1>1, <1>3, <1>4 DEF ControlsFit, ControlsAreLate, MachineRows, Exists, AwaitsReview

LEMMA ControlsStep ==
  ASSUME RoundsInv, [Next]_allVars, overtaken \subseteq overtaken'
  PROVE  ControlsFit'
<1>1. PipeInv
  BY DEF RoundsInv
<1>2. CASE Outside /\ UNCHANGED pipeVars
  BY <1>1, <1>2, OutsideKept, ControlsKept
<1>3. ASSUME NEW q \in Rows, Execute(q) PROVE ControlsFit'
  BY <1>1, <1>3, ExecuteKept, ControlsKept, ControlFits
<1>4. ASSUME NEW run \in todo, NEW q \in Rows, NEW a \in Actions, RouteAndStart(q, run, a)
      PROVE  ControlsFit'
  BY <1>4, RouteControls
<1>5. CASE \/ Inside /\ UNCHANGED pipeVars
           \/ (\E run \in todo : CheckLeak(run)) \/ (\E on \in BOOLEAN : SetFlag(on))
           \/ Kill \/ RequeueInFlight \/ PipeCrash \/ UNCHANGED allVars
  BY <1>1, <1>5, OthersKept, ControlsKept
<1>6. QED
  BY <1>2, <1>3, <1>4, <1>5 DEF Next, Handle

LEMMA RoundsInvStep ==
  RoundsInv /\ [Step]_<<allVars, overtaken>> => RoundsInv'
<1> SUFFICES ASSUME RoundsInv, [Step]_<<allVars, overtaken>> PROVE RoundsInv'
  OBVIOUS
<1>1. [Next]_allVars /\ overtaken \subseteq overtaken'
  BY StepIsNext
<1>2. PipeInv' /\ ControlsFit'
  BY <1>1, PipeInvStep, ControlsStep DEF RoundsInv
<1> SUFFICES RoundsFit' /\ OneDecider'
  BY <1>2 DEF RoundsInv
<1>3. CASE (Outside \/ Inside) /\ UNCHANGED pipeVars /\ Step
  BY <1>1, <1>3, OutsideFits, InsideFits DEF Step
<1>4. CASE \/ \E q \in Rows : Execute(q)
           \/ \E run \in todo : Handle(run)
  BY <1>1, <1>4, ExecuteFits, HandleFits
<1>5. CASE \/ (\E on \in BOOLEAN : SetFlag(on)) \/ Kill \/ RequeueInFlight
           \/ PipeCrash \/ UNCHANGED allVars
  BY <1>1, <1>5, SwitchFits
<1>6. QED
  BY <1>3, <1>4, <1>5 DEF Step, Next

\* With or without sampling, a task is APPROVED or REJECTED only on a recorded
\* decision about the change of its current round, whatever reviewers, executor,
\* kill request and crashes do between the decision and the task's move, unless
\* the late verdict on a control of an earlier round has moved the task.
THEOREM OutcomesFitChanges == Spec => []OutcomeFitsChange
<1>1. RoundsInv => OutcomeFitsChange
  BY DEF RoundsInv, RoundsFit
<1>2. QED
  BY <1>1, RoundsInvInit, RoundsInvStep, PTL DEF Spec
=============================================================================
