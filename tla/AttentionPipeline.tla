------------------------- MODULE AttentionPipeline -------------------------
(***************************************************************************)
(* The attention engine around ReviewQueue: routing starts the             *)
(* auto-approve executor on an AUTO_APPROVABLE row, the kill switch tries  *)
(* to stop it, and the sampler sends some of its approvals to a human as a *)
(* silent control and reports the ones a human rejects.  Each await of the *)
(* executor, and the two statements of the kill, are steps of their own.   *)
(***************************************************************************)
EXTENDS ReviewQueue

CONSTANT Sampling   \* whether policy.autoApprove.auditSampleRate > 0

ASSUME SamplingAssumption == Sampling \in BOOLEAN

VARIABLES
  exec,     \* row -> step of its auto-approve execution
  switch,   \* the auto_approve_kill_switch row: [flag, enabled]
  killing,  \* progress of the kill request
  late,     \* rows whose execution read its row after the kill request began
  leaked,   \* changes reported by evaluation.escalation_leakage
  overtaken \* tasks that the verdict on a control of an earlier round has moved

pipeVars == <<exec, switch, killing, late, leaked>>
allVars == <<vars, pipeVars>>

\* Steps of AutoApproveExecutor.execute; "denied" stands for every refusal.
ExecSteps == {"none", "started", "loaded", "allowed", "flipped", "recorded",
              "sampling", "done", "denied", "failed"}

PipeInit ==
  /\ Init
  /\ exec = [q \in Rows |-> "none"]
  /\ switch = [flag |-> FALSE, enabled |-> TRUE]
  /\ killing = "no"
  /\ late = {}
  /\ leaked = {}
  /\ overtaken = {}

\* The check made on the event, and again on the reloaded row.
MachineMayTake(action) == action = "AUTO_APPROVABLE"

\* Routing publishes attention.item_routed; the executor's handler starts on
\* the rows it may take.
RouteAndStart(q, run, action) ==
  /\ Route(q, run, action)
  /\ exec' = [exec EXCEPT ![q] = IF MachineMayTake(action) THEN "started" ELSE @]
  /\ UNCHANGED <<switch, killing, late, leaked>>

At(q, step) == exec[q] = step

Goto(q, step) == exec' = [exec EXCEPT ![q] = step]

\* execute reloads the row and refuses one that is not its own or not QUEUED.
ExecReload(q) ==
  /\ At(q, "started")
  /\ IF MachineMayTake(row[q].action) /\ row[q].status = "QUEUED"
     THEN Goto(q, "loaded") ELSE Goto(q, "denied")
  /\ late' = IF killing = "no" THEN late ELSE late \cup {q}
  /\ UNCHANGED <<vars, switch, killing, leaked>>

\* Mutant: the executor consults the flag alone.
SwitchIgnored == switch.flag

\* The switch snapshot that lets an execution go on: live, and the flag on.
SwitchAllows == switch.enabled /\ switch.flag

\* The switch is read once; the evidence is then loaded and the gate evaluated
\* on that snapshot.  Calibration, inflation and risk may deny in any state.
ExecGate(q) ==
  /\ At(q, "loaded")
  /\ \/ SwitchAllows /\ Goto(q, "allowed")
     \/ Goto(q, "denied")
  /\ UNCHANGED <<vars, switch, killing, late, leaked>>

\* The states the executor's guarded UPDATE matches.
ExecFlipFrom == {"QUEUED"}

\* The flip QUEUED -> DECIDED looks neither at the action nor at the switch.
ExecFlip(q) ==
  /\ At(q, "allowed")
  /\ IF row[q].status \in ExecFlipFrom
     THEN row' = [row EXCEPT ![q].status = "DECIDED"] /\ Goto(q, "flipped")
     ELSE UNCHANGED row /\ Goto(q, "denied")
  /\ UNCHANGED <<task, change, decisions, deciding, todo, crashes>>
  /\ UNCHANGED <<switch, killing, late, leaked>>

\* A separate INSERT records the machine's decision.
ExecRecord(q) ==
  /\ At(q, "flipped")
  /\ decisions' = [decisions EXCEPT ![q] = Append(@, "AUTO_APPROVED")]
  /\ Goto(q, "recorded")
  /\ UNCHANGED <<task, change, row, deciding, todo, crashes>>
  /\ UNCHANGED <<switch, killing, late, leaked>>

\* transitionTask(APPROVED, 'auto_approve', expectedFrom AWAITING_REVIEW); a
\* conflict ends the execution, otherwise the sampled ones go on.
ExecMoveTask(q) ==
  LET t == row[q].of[1] IN
  /\ At(q, "recorded")
  /\ \/ /\ AcceptsVerdict(t)
        /\ task' = [task EXCEPT ![t].state = "APPROVED"]
        /\ Goto(q, "done") \/ (Sampling /\ Goto(q, "sampling"))
     \/ /\ ~ AcceptsVerdict(t)
        /\ Goto(q, "failed")
        /\ UNCHANGED task
  /\ UNCHANGED <<change, row, decisions, deciding, todo, crashes>>
  /\ UNCHANGED <<switch, killing, late, leaked>>

\* AutoApproveSampler.routeToHuman: a second, sampled row for the same change.
RouteControl(q, control) ==
  /\ At(q, "sampling")
  /\ Enqueued(control, row[q].of, "REVIEW_REQUIRED", TRUE)
  /\ Goto(q, "done")
  /\ UNCHANGED <<task, change, decisions, deciding, todo, crashes>>
  /\ UNCHANGED <<switch, killing, late, leaked>>

\* AutoApproveSampler.onRejected: a rejected sampled control is reported.
CheckLeak(run) ==
  /\ run \in todo /\ run.do = "leak"
  /\ leaked' = IF \E q \in Rows : row[q] # NoRow /\ row[q].sampled /\ row[q].of = run.of
               THEN leaked \cup {run.of} ELSE leaked
  /\ todo' = todo \ {run}
  /\ UNCHANGED <<task, change, row, decisions, deciding, crashes>>
  /\ UNCHANGED <<exec, switch, killing, late>>

\* ADMIN toggles the feature flag.
SetFlag(on) ==
  /\ switch.flag # on
  /\ switch' = [switch EXCEPT !.flag = on]
  /\ UNCHANGED <<vars, exec, killing, late, leaked>>

\* kill, first statement: the switch goes off.
Kill ==
  /\ killing = "no"
  /\ switch' = [switch EXCEPT !.enabled = FALSE]
  /\ killing' = "off"
  /\ UNCHANGED <<vars, exec, late, leaked>>

\* kill, second statement: queued auto-approvable rows go back to humans.
RequeueInFlight ==
  /\ killing = "off"
  /\ row' = [q \in Rows |->
       IF row[q].status = "QUEUED" /\ row[q].action = "AUTO_APPROVABLE"
       THEN [row[q] EXCEPT !.action = "REVIEW_REQUIRED"] ELSE row[q]]
  /\ killing' = "done"
  /\ UNCHANGED <<task, change, decisions, deciding, todo, crashes>>
  /\ UNCHANGED <<exec, switch, late, leaked>>

InProgress == ExecSteps \ {"none", "done", "denied"}

\* The process ends: executions and the kill request stop where they are.
PipeCrash ==
  /\ Crash
  /\ exec' = [q \in Rows |-> IF exec[q] \in InProgress THEN "failed" ELSE exec[q]]
  /\ killing' = IF killing = "off" THEN "lost" ELSE killing
  /\ UNCHANGED <<switch, late, leaked>>

Execute(q) ==
  \/ ExecReload(q) \/ ExecGate(q) \/ ExecFlip(q) \/ ExecRecord(q) \/ ExecMoveTask(q)
  \/ \E control \in Rows : RouteControl(q, control)

Handle(run) ==
  \/ \E q \in Rows, a \in Actions : RouteAndStart(q, run, a)
  \/ CheckLeak(run)

Next ==
  \/ (Outside \/ Inside) /\ UNCHANGED pipeVars
  \/ \E q \in Rows : Execute(q)
  \/ \E run \in todo : Handle(run)
  \/ \E on \in BOOLEAN : SetFlag(on)
  \/ Kill \/ RequeueInFlight \/ PipeCrash

\* The tasks a step moves on the verdict on a control of an earlier round.
Overtakes ==
  {t \in Tasks : \E r \in Reviewers :
     LET q == deciding[r].row IN
     /\ deciding[r].step = "recorded" /\ deciding'[r].step = "moved"
     /\ row[q].sampled /\ row[q].of[1] = t /\ row[q].of[2] < task[t].round}

\* A step of the pipeline, which overtaken remembers and nothing reads.
Step == Next /\ overtaken' = overtaken \cup Overtakes

Spec == PipeInit /\ [][Step]_<<allVars, overtaken>>

\* The event loop finishes every request, execution and handler it started.
\* Nothing makes reviewers or the callers of TaskService act.
FairSpec ==
  /\ Spec
  /\ \A r \in Reviewers : WF_allVars((MoveTask(r) \/ Announce(r) \/ AnswerRefusal(r))
                                       /\ UNCHANGED pipeVars)
  /\ \A q \in Rows : WF_allVars(Execute(q))
  /\ WF_allVars(\E run \in todo : Handle(run) \/ (StatusReviewed(run) /\ UNCHANGED pipeVars))
  /\ WF_allVars(RequeueInFlight)
----------------------------------------------------------------------------
PipeTypeOK ==
  /\ TypeOK
  /\ exec \in [Rows -> ExecSteps]
  /\ switch \in [flag : BOOLEAN, enabled : BOOLEAN]
  /\ killing \in {"no", "off", "done", "lost"}
  /\ late \subseteq Rows
  /\ leaked \subseteq Changes

\* Each row's status and its decisions tell the same story, whoever acted and
\* in whatever order: open rows have none, every closed row exactly one that
\* fits, except a row the machine has flipped and not recorded.
RowMatchesDecisions ==
  \A q \in Rows :
    LET d == decisions[q] IN
    CASE row[q].status \in {"NONE", "QUEUED", "CLAIMED"} -> d = <<>>
      [] row[q].status = "DROPPED" -> d = <<"DEFERRED">>
      [] row[q].status = "ESCALATED" -> d = <<"ESCALATED">>
      [] row[q].status = "DECIDED" ->
           \/ d = <<>> /\ exec[q] \in {"flipped", "failed"}
           \/ d = <<"AUTO_APPROVED">> /\ exec[q] \in {"recorded", "sampling", "done", "failed"}
           \/ \E v \in Verdicts : d = <<v>> /\ exec[q] \in {"none", "started", "loaded",
                                                       "allowed", "denied", "failed"}

Backs(q, v) ==
  \/ decisions[q] = <<v>>
  \/ v = "APPROVED" /\ decisions[q] = <<"AUTO_APPROVED">>

\* A task is APPROVED or REJECTED only on a recorded decision about the change
\* of its current round, never on one about an earlier change, however often it
\* comes back.  But a sampled control outlives its round: decided late it settles
\* what the task has submitted since, and leaves that change's row behind.
OutcomeFitsChange ==
  \A t \in Tasks : task[t].state \in Verdicts =>
    \/ \E q \in Rows : row[q] # NoRow /\ row[q].of = <<t, task[t].round>>
                       /\ Backs(q, task[t].state)
    \/ t \in overtaken

\* An execution that starts on a row after the kill request began approves
\* nothing, however far the request got.
LateExecutionsDenied ==
  \A q \in late : exec[q] \in {"loaded", "denied", "failed"}
                  /\ decisions[q] # <<"AUTO_APPROVED">>

\* A verdict recorded with its rationale on the row of a task's present round
\* becomes the task's state in that round.  It may not if the process ends first
\* or a sampled control of an earlier round is faster; a control's own verdict
\* may not either (see RejectedControlIsReported).
VerdictReachesTask ==
  \A ch \in Changes, v \in Verdicts, n \in 0..MaxCrashes :
    (/\ \E r \in Reviewers, q \in Rows :
          /\ deciding[r] = [step |-> "recorded", row |-> q, verdict |-> v, given |-> TRUE]
          /\ row[q] # NoRow /\ row[q].of = ch /\ ~ row[q].sampled
     /\ task[ch[1]].round = ch[2] /\ crashes = n)
      ~> \/ task[ch[1]] = [state |-> v, round |-> ch[2]]
         \/ crashes > n \/ ch[1] \in overtaken

\* A verdict announced on a verified change makes it REVIEWED, unless it is
\* rolled back or the process ends first.
VerdictReachesChange ==
  \A ch \in Changes, n \in 0..MaxCrashes :
    ([do |-> "reviewed", of |-> ch] \in todo /\ change[ch] = "VERIFIED" /\ crashes = n)
      ~> (crashes > n \/ change[ch] \in {"REVIEWED", "ROLLED_BACK"})

\* Every row is an item that opens once, is held by a human to be closed by
\* one, and closes once (see QueueItem).
Items == INSTANCE QueueItem WITH
  phase <- [q \in Rows |->
    CASE row[q].status = "NONE" -> "absent"
      [] row[q].status = "QUEUED" -> "open"
      [] row[q].status = "CLAIMED" -> "held"
      [] OTHER -> "closed"]

ItemsCloseOnce == Items!Spec
----------------------------------------------------------------------------
\* What the documentation says, and the code does not do.

\* Sampler: a control that its reviewer rejects is reported as leakage.
RejectedControlIsReported ==
  \A q \in Rows, ch \in Changes :
    (row[q] # NoRow /\ row[q].sampled /\ row[q].of = ch /\ decisions[q] = <<"REJECTED">>)
      ~> (ch \in leaked)

=============================================================================
