-------------------------- MODULE AttentionRouting --------------------------
(***************************************************************************)
(* AttentionSubscriber.assess and AttentionRouter.route: a task that comes *)
(* to AWAITING_REVIEW is scored from the evidence stored about it, labeled *)
(* and put into the review queue.  Handlers of different tasks interleave  *)
(* at every await, reviewers and the machine decide queued items meanwhile,*)
(* and the UTC day may end.                                                *)
(***************************************************************************)
EXTENDS AttentionPolicy, FiniteSets, FiniteSetsExt

CONSTANTS
  Tasks,     \* tasks that come to AWAITING_REVIEW, one change each
  Evidence,  \* what the database may hold about a change
  Budget,    \* policy.fatigue.dailyReviewBudget
  Days       \* bound on UTC days

ASSUME EvidenceAssumption ==
  \A e \in Evidence :
    /\ e.overall \in {"none", "FAILED", "PASSED"}  \* latest report of the task
    /\ e.flaky \in BOOLEAN /\ e.own \in BOOLEAN    \* flaky; a report of this change
    /\ e.flaky => e.overall # "none"
    /\ e.files \in Nat /\ e.critical \in Nat /\ e.secrets \in BOOLEAN
    /\ e.lines \in Nat /\ e.steps \in Nat /\ e.retries \in Nat
    /\ e.seen \in Nat                              \* older assessments of its paths
ASSUME TasksAssumption == IsFiniteSet(Tasks)
ASSUME RoutingBounds == Budget \in Nat /\ Days \in Nat \ {0}

VARIABLES
  evidence,  \* task -> its evidence, fixed
  at,        \* task -> the await its handlers have reached
  work,      \* task -> what they carry: label, action, now, deferred and position
  day,       \* the current UTC day
  decisions, \* day -> decisions inserted since the midnight that began it
  decided,   \* tasks whose queue row is closed
  ahead,     \* task -> rows already queued when its routing began
  spentOn    \* task -> the day its routing began, if the budget was spent, else 0

vars == <<evidence, at, work, day, decisions, decided, ahead, spentOn>>

Steps == {"awaiting", "scored", "assessed", "ruled", "gated", "placed", "queued"}

\* now is the day the gate took for the present one, 0 before it did; a deferred
\* item waits for the midnight that ends it.
NoWork == [label |-> "LOW", action |-> "REVIEW_REQUIRED", now |-> 0, deferred |-> FALSE,
           position |-> 0]

Init ==
  /\ evidence \in [Tasks -> Evidence]
  /\ at = [t \in Tasks |-> "awaiting"]
  /\ work = [t \in Tasks |-> NoWork]
  /\ day = 1
  /\ decisions = [d \in 1..Days |-> 0]
  /\ decided = {}
  /\ ahead = [t \in Tasks |-> {}]
  /\ spentOn = [t \in Tasks |-> 0]

Queued == {t \in Tasks : at[t] = "queued"}

Advance(t, from, to) == at[t] = from /\ at' = [at EXCEPT ![t] = to]

\* Mutant: a report that failed is read as one that passed unless it is flaky.
VerdictByFlakiness(e) ==
  IF e.overall = "none" THEN "none" ELSE IF e.flaky THEN "FLAKY" ELSE "PASSED"

\* The latest report of the task as a verdict; FAILED wins over flaky.
FetchVerdict(e) ==
  IF e.overall = "PASSED" /\ e.flaky THEN "FLAKY" ELSE e.overall

\* Assessments whose artifact is among these paths: the older ones, and those
\* of the other tasks, which all touch the same path here.
PriorCount(t) ==
  evidence[t].seen + Cardinality({s \in Tasks : at[s] \notin {"awaiting", "scored"}})

\* assessCore reads the evidence, extracts the factors, combines them.
Score(t) ==
  LET e == evidence[t]
      verdict == FetchVerdict(e)
      scores == [risk |-> ExtractRisk(verdict, e.secrets),
                 impact |-> ExtractImpact(e.files, e.critical),
                 novelty |-> ExtractNovelty(PriorCount(t)),
                 complexity |-> ExtractComplexity(e.lines, e.steps),
                 confidence |-> ExtractConfidence(verdict, e.retries)]
      missing == Unavailable(verdict, e.files, e.retries)
  IN /\ Advance(t, "awaiting", "scored")
     /\ work' = [work EXCEPT ![t].label = LabelFor(ComputePriority(scores, missing))]
     /\ UNCHANGED <<evidence, day, decisions, decided, ahead, spentOn>>

\* The assessment is inserted and announced; the router's handler starts.
SaveAssessment(t) ==
  /\ Advance(t, "scored", "assessed")
  /\ ahead' = [ahead EXCEPT ![t] = Queued]
  /\ spentOn' = [spentOn EXCEPT ![t] = IF decisions[day] >= Budget THEN day ELSE 0]
  /\ UNCHANGED <<evidence, work, day, decisions, decided>>

\* The router reads the assessment and whether the change's own report is
\* flaky, takes the first matching rule, and the budget's gate reads the clock
\* before it first waits.
ChooseAction(t) ==
  /\ Advance(t, "assessed", "ruled")
  /\ work' = [work EXCEPT
                ![t].action = MatchRule(work[t].label, evidence[t].own /\ evidence[t].flaky),
                ![t].now = day]
  /\ UNCHANGED <<evidence, day, decisions, decided, ahead, spentOn>>

\* The gate counts the decisions since the midnight before the time it read,
\* whoever took them; midnight may have passed since.
GateOnBudget(t) ==
  /\ Advance(t, "ruled", "gated")
  /\ work' = [work EXCEPT ![t].deferred =
                DecideDeferral(work[t].action, decisions[work[t].now], Budget)]
  /\ UNCHANGED <<evidence, day, decisions, decided, ahead, spentOn>>

\* Mutant: the position of the last row is used again.
LastPosition == Max({work[s].position : s \in Queued} \cup {0})

\* One past the largest position in the table.
NextPosition == Max({work[s].position : s \in Queued} \cup {0}) + 1

Place(t) ==
  /\ Advance(t, "gated", "placed")
  /\ work' = [work EXCEPT ![t].position = NextPosition]
  /\ UNCHANGED <<evidence, day, decisions, decided, ahead, spentOn>>

\* The row is inserted QUEUED, deferred or not, and announced.
Enqueue(t) ==
  /\ Advance(t, "placed", "queued")
  /\ UNCHANGED <<evidence, work, day, decisions, decided, ahead, spentOn>>

\* A reviewer or the executor closes the row with a decision.  Neither reads
\* deferred_until.
Decide(t) ==
  /\ t \in Queued \ decided
  /\ decided' = decided \cup {t}
  /\ decisions' = [d \in 1..Days |-> decisions[d] + IF d <= day THEN 1 ELSE 0]
  /\ UNCHANGED <<evidence, at, work, day, ahead, spentOn>>

\* Midnight UTC passes.
Midnight ==
  /\ day < Days
  /\ day' = day + 1
  /\ UNCHANGED <<evidence, at, work, decisions, decided, ahead, spentOn>>

Handle(t) ==
  \/ Score(t) \/ SaveAssessment(t) \/ ChooseAction(t)
  \/ GateOnBudget(t) \/ Place(t) \/ Enqueue(t)

Next == (\E t \in Tasks : Handle(t) \/ Decide(t)) \/ Midnight

Spec == Init /\ [][Next]_vars

-----------------------------------------------------------------------------
TypeOK ==
  /\ evidence \in [Tasks -> Evidence]
  /\ at \in [Tasks -> Steps]
  /\ work \in [Tasks -> [label : Labels, action : RoutingActions,
                         now : 0..Days, deferred : BOOLEAN, position : Nat]]
  /\ \A t \in Queued : work[t].position > 0
  /\ day \in 1..Days
  /\ decisions \in [1..Days -> Nat]
  /\ decided \subseteq Queued
  /\ ahead \in [Tasks -> SUBSET Tasks]
  /\ spentOn \in [Tasks -> 0..Days]

\* A change whose latest report failed or was flaky is never left to the
\* machine, whatever its size, its history and the order of the reads; and
\* when that flaky report is the change's own, no spent budget defers it.
BadNewsReachesHumans ==
  \A t \in Queued :
    LET e == evidence[t] IN
    /\ e.overall = "FAILED" \/ e.flaky => work[t].action # "AUTO_APPROVABLE"
    /\ e.own /\ e.flaky => ~ work[t].deferred

\* The queue is first in, first out: an item is placed after every item that
\* was queued before its own routing began.  Only concurrent routings tie.
QueueIsFIFO ==
  \A t \in Queued : \A s \in ahead[t] : work[s].position < work[t].position

\* An item is deferred to the end of a day only when the decisions since that
\* day began had reached the budget when they were counted, and always when the
\* budget was spent before its routing began and midnight did not come before
\* the gate read the clock.  (The decisions counted may be of the next day.)
DeferralFollowsBudget ==
  \A t \in Queued :
    /\ work[t].deferred => decisions[work[t].now] >= Budget
    /\ work[t].action \in DEFERRABLE_ACTIONS /\ spentOn[t] = work[t].now => work[t].deferred
=============================================================================
