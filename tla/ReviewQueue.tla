---------------------------- MODULE ReviewQueue ----------------------------
(***************************************************************************)
(* ReviewService of packages/review over the review_queue, decisions and   *)
(* tasks tables, and the ChangeStatusSubscriber its events reach.  claim,  *)
(* drop, release and escalate end with their transaction, so each is one   *)
(* action; decide goes on to move the task and to publish, and other       *)
(* requests come between those steps.                                      *)
(*                                                                         *)
(* A change is a pair <<task, round>>: each time a task comes back to      *)
(* AWAITING_REVIEW it brings a new change, to be queued and decided anew.  *)
(***************************************************************************)
EXTENDS Naturals, Sequences, FiniteSets, TaskStateMachine

CONSTANTS
  Tasks,       \* task ids
  Rows,        \* ids of review_queue rows
  Reviewers,   \* authenticated reviewers, one decide request at a time each
  MaxRounds,   \* bound on the rounds of review of one task
  MaxCrashes   \* bound on the ends of the API process

ASSUME RoundsAssumption == MaxRounds \in Nat /\ MaxCrashes \in Nat

VARIABLES
  task,       \* task -> [state, round]
  change,     \* <<task, round>> -> status of that round's change
  row,        \* the review_queue table: row id -> record, or NoRow
  decisions,  \* the decisions table: row id -> the decisions about it
  deciding,   \* reviewer -> the decide request in progress
  todo,       \* handler runs started by an event and not finished
  crashes     \* how often the process has ended

vars == <<task, change, row, decisions, deciding, todo, crashes>>

Changes == Tasks \X (1..MaxRounds)

NoRow == [status |-> "NONE"]
Idle == [step |-> "idle"]

\* Where a task is: "WORKING" stands for every state before AWAITING_REVIEW.
TaskPhases == {"WORKING", "AWAITING_REVIEW", "APPROVED", "REJECTED"}
ChangeStatuses == {"NONE", "PENDING", "VERIFIED", "REVIEWED", "ROLLED_BACK"}
Verdicts == {"APPROVED", "REJECTED"}
DecisionTypes == Verdicts \cup {"AUTO_APPROVED", "DEFERRED", "ESCALATED"}
Actions == {"AUTO_APPROVABLE", "REVIEW_REQUIRED"}

QueueRow ==
  [status : {"QUEUED", "CLAIMED", "DECIDED", "DROPPED", "ESCALATED"}, of : Changes,
   action : Actions, sampled : BOOLEAN]

Request == [step : {"recorded", "moved", "refused"}, row : Rows, verdict : Verdicts,
            given : BOOLEAN]

Init ==
  /\ task = [t \in Tasks |-> [state |-> "WORKING", round |-> 0]]
  /\ change = [c \in Changes |-> "NONE"]
  /\ row = [q \in Rows |-> NoRow]
  /\ decisions = [q \in Rows |-> <<>>]
  /\ deciding = [r \in Reviewers |-> Idle]
  /\ todo = {}
  /\ crashes = 0
----------------------------------------------------------------------------
\* A caller of TaskService submits the next round's change for review; the
\* event reaches AttentionSubscriber.
SubmitForReview(t) ==
  /\ task[t].state = "WORKING" /\ task[t].round < MaxRounds
  /\ task' = [task EXCEPT ![t] = [state |-> "AWAITING_REVIEW", round |-> @.round + 1]]
  /\ change' = [change EXCEPT ![<<t, task[t].round + 1>>] = "PENDING"]
  /\ todo' = todo \cup {[do |-> "route", of |-> <<t, task[t].round + 1>>]}
  /\ UNCHANGED <<row, decisions, deciding, crashes>>

\* After a verdict the task goes back to work: REJECTED -> REWORK -> ..., or
\* APPROVED -> AWAITING_HUMAN_INTERVENTION -> QUEUED -> ... (merge failure).
BackToWork(t) ==
  /\ task[t].state \in {"APPROVED", "REJECTED"}
  /\ task' = [task EXCEPT ![t].state = "WORKING"]
  /\ UNCHANGED <<change, row, decisions, deciding, todo, crashes>>

\* INSERT of a queue row for a change.
Enqueued(q, ch, action, sampled) ==
  /\ row[q] = NoRow
  /\ row' = [row EXCEPT ![q] =
       [status |-> "QUEUED", of |-> ch, action |-> action, sampled |-> sampled]]

\* AttentionSubscriber scores the task's latest change and AttentionRouter queues
\* the result, with the action its policy chose.
Route(q, run, action) ==
  LET t == run.of[1] IN
  /\ run \in todo /\ run.do = "route"
  /\ Enqueued(q, <<t, task[t].round>>, action, FALSE)
  /\ todo' = todo \ {run}
  /\ UNCHANGED <<task, change, decisions, deciding, crashes>>

\* Mutant: the decision is written in the status column.
FlipToVerdict(q, from, to, verdict) ==
  /\ row[q].status \in from
  /\ row' = [row EXCEPT ![q].status = verdict]
  /\ decisions' = [decisions EXCEPT ![q] = Append(@, verdict)]

\* Guarded flip of a row's status, recording a decision in the same transaction.
Flip(q, from, to, verdict) ==
  /\ row[q].status \in from
  /\ row' = [row EXCEPT ![q].status = to]
  /\ decisions' = [decisions EXCEPT ![q] = Append(@, verdict)]

\* claim: QUEUED -> CLAIMED, whatever the row's action.
Claim(q) ==
  /\ row[q].status = "QUEUED"
  /\ row' = [row EXCEPT ![q].status = "CLAIMED"]
  /\ UNCHANGED <<task, change, decisions, deciding, todo, crashes>>

\* Mutant: release's UPDATE also matches a decided row.
ReleasableDecided == {"CLAIMED", "DECIDED"}

\* The states release's guarded UPDATE matches.
Releasable == {"CLAIMED"}

\* release: any reviewer may return a claimed row to the queue.
Release(q) ==
  /\ row[q].status \in Releasable
  /\ row' = [row EXCEPT ![q].status = "QUEUED"]
  /\ UNCHANGED <<task, change, decisions, deciding, todo, crashes>>

\* drop and escalate (with their mandatory rationale) leave the task alone.
Drop(q) ==
  /\ Flip(q, {"QUEUED", "CLAIMED"}, "DROPPED", "DEFERRED")
  /\ UNCHANGED <<task, change, deciding, todo, crashes>>

Escalate(q) ==
  /\ Flip(q, {"CLAIMED"}, "ESCALATED", "ESCALATED")
  /\ UNCHANGED <<task, change, deciding, todo, crashes>>

\* Mutant: a decided row can be decided again.
DecidableTwice == {"CLAIMED", "DECIDED"}

\* The states decide's guarded UPDATE matches.
Decidable == {"CLAIMED"}

\* decide, first half: a rejection without a rationale is refused before any
\* write; otherwise the row is flipped and the decision recorded at once.  The
\* claim is not compared with the deciding reviewer.
Decide(r, q, verdict, given) ==
  /\ deciding[r] = Idle
  /\ row[q] # NoRow
  /\ \/ /\ verdict = "REJECTED" /\ ~ given
        /\ deciding' = [deciding EXCEPT ![r] =
             [step |-> "refused", row |-> q, verdict |-> verdict, given |-> given]]
        /\ UNCHANGED <<row, decisions>>
     \/ /\ verdict = "APPROVED" \/ given
        /\ Flip(q, Decidable, "DECIDED", verdict)
        /\ deciding' = [deciding EXCEPT ![r] =
             [step |-> "recorded", row |-> q, verdict |-> verdict, given |-> given]]
  /\ UNCHANGED <<task, change, todo, crashes>>

\* Mutant: expectedFrom names the state the verdict leads to.
AcceptsVerdictAfter(t) == task[t].state = "APPROVED"

\* transitionTask with expectedFrom AWAITING_REVIEW: only then does it move.
AcceptsVerdict(t) == task[t].state = "AWAITING_REVIEW"

\* decide, second half: drive the task.  The orchestrator wants a rationale for
\* either verdict and throws after the decision is committed; a task that has
\* left AWAITING_REVIEW is a conflict, and the request ends there too.
MoveTask(r) ==
  LET p == deciding[r]
      t == row[p.row].of[1] IN
  /\ p.step = "recorded"
  /\ \/ /\ ~ p.given /\ RequiresRationale("AWAITING_REVIEW", p.verdict)
        /\ deciding' = [deciding EXCEPT ![r].step = "refused"]
        /\ UNCHANGED task
     \/ /\ p.given /\ AcceptsVerdict(t)
        /\ task' = [task EXCEPT ![t].state = p.verdict]
        /\ deciding' = [deciding EXCEPT ![r].step = "moved"]
     \/ /\ p.given /\ ~ AcceptsVerdict(t)
        /\ deciding' = [deciding EXCEPT ![r] = Idle]
        /\ UNCHANGED task
  /\ UNCHANGED <<change, row, decisions, todo, crashes>>

\* decide, last step: publish review.decision_submitted.  Its subscribers start
\* a handler each: the change's status, and the leak check on a rejection.
Announce(r) ==
  LET p == deciding[r] IN
  /\ p.step = "moved"
  /\ todo' = todo \cup {[do |-> "reviewed", of |-> row[p.row].of]}
       \cup (IF p.verdict = "REJECTED" THEN {[do |-> "leak", of |-> row[p.row].of]} ELSE {})
  /\ deciding' = [deciding EXCEPT ![r] = Idle]
  /\ UNCHANGED <<task, change, row, decisions, crashes>>

\* The error reply of a refused request reaches its reviewer.
AnswerRefusal(r) ==
  /\ deciding[r].step = "refused"
  /\ deciding' = [deciding EXCEPT ![r] = Idle]
  /\ UNCHANGED <<task, change, row, decisions, todo, crashes>>
----------------------------------------------------------------------------
\* Mutant: the guard names the state a change is created in.
ReviewedFromPending == {"PENDING"}

\* The source states of the guarded write VERIFIED -> REVIEWED.
ReviewedFrom == {"VERIFIED"}

\* ChangeStatusSubscriber: an event whose guard matches no row is a no-op.
StatusReviewed(run) ==
  /\ run \in todo /\ run.do = "reviewed"
  /\ change' = [change EXCEPT ![run.of] = IF @ \in ReviewedFrom THEN "REVIEWED" ELSE @]
  /\ todo' = todo \ {run}
  /\ UNCHANGED <<task, row, decisions, deciding, crashes>>

\* verification.completed (PASSED) for the change, at any time after it exists.
StatusVerified(ch) ==
  /\ change[ch] = "PENDING"
  /\ change' = [change EXCEPT ![ch] = "VERIFIED"]
  /\ UNCHANGED <<task, row, decisions, deciding, todo, crashes>>

\* artifact.rollback_requested: from any status.
StatusRolledBack(ch) ==
  /\ change[ch] # "NONE"
  /\ change' = [change EXCEPT ![ch] = "ROLLED_BACK"]
  /\ UNCHANGED <<task, row, decisions, deciding, todo, crashes>>

\* The API process ends: requests and handlers in progress are gone.
Crash ==
  /\ crashes < MaxCrashes
  /\ crashes' = crashes + 1
  /\ deciding' = [r \in Reviewers |-> Idle]
  /\ todo' = {}
  /\ UNCHANGED <<task, change, row, decisions>>

\* What reviewers and the callers of TaskService do.
Outside ==
  \/ \E t \in Tasks : SubmitForReview(t) \/ BackToWork(t)
  \/ \E q \in Rows : Claim(q) \/ Release(q) \/ Drop(q) \/ Escalate(q)
  \/ \E r \in Reviewers, q \in Rows, v \in Verdicts, g \in BOOLEAN : Decide(r, q, v, g)
  \/ \E ch \in Changes : StatusVerified(ch) \/ StatusRolledBack(ch)

\* What the process does to finish what was asked of it.
Inside ==
  \/ \E r \in Reviewers : MoveTask(r) \/ Announce(r) \/ AnswerRefusal(r)
  \/ \E run \in todo : StatusReviewed(run)
----------------------------------------------------------------------------
TypeOK ==
  /\ task \in [Tasks -> [state : TaskPhases, round : 0..MaxRounds]]
  /\ change \in [Changes -> ChangeStatuses]
  /\ row \in [Rows -> QueueRow \cup {NoRow}]
  /\ decisions \in [Rows -> Seq(DecisionTypes)]
  /\ deciding \in [Reviewers -> Request \cup {Idle}]
  /\ todo \subseteq [do : {"route", "reviewed", "leak"}, of : Changes]
  /\ crashes \in 0..MaxCrashes
=============================================================================
