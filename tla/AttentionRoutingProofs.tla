------------------------ MODULE AttentionRoutingProofs ------------------------
(***************************************************************************)
(* What TLAPS proves of AttentionRouting, for any evidence, any budget and *)
(* any number of tasks and days: bad news reaches a human, the queue is    *)
(* first in, first out, and deferral follows the budget.                   *)
(***************************************************************************)
EXTENDS AttentionRouting, FiniteSetTheorems, ExtremaLemmas

Percent == 0..100

\* A report that failed or was flaky.
BadNews(t) == evidence[t].overall = "FAILED" \/ evidence[t].flaky
----------------------------------------------------------------------------
\* The factors are percents, whatever the evidence.
LEMMA FactorsArePercents ==
  /\ \A verdict \in Verdicts, secrets \in BOOLEAN : ExtractRisk(verdict, secrets) \in Percent
  /\ \A files, critical \in Nat : ExtractImpact(files, critical) \in Percent
  /\ \A prior \in Nat : ExtractNovelty(prior) \in Percent
  /\ \A lines, steps \in Nat : ExtractComplexity(lines, steps) \in Percent
  /\ \A verdict \in Verdicts, retries \in Nat : ExtractConfidence(verdict, retries) \in Percent
<1>1. \A verdict \in Verdicts : VerifyRisk(verdict) \in {0, 10, 60, 90}
  BY DEF Verdicts, VerifyRisk
<1>2. \A verdict \in Verdicts, secrets \in BOOLEAN : ExtractRisk(verdict, secrets) \in Percent
  BY <1>1 DEF ExtractRisk, AtMost, Percent
<1>3. \A files, critical \in Nat : ExtractImpact(files, critical) \in Percent
  BY DEF ExtractImpact, AtMost, Percent
<1>4. \A prior \in Nat : ExtractNovelty(prior) \in Percent
  BY DEF ExtractNovelty, Percent
<1>5. ASSUME NEW lines \in Nat, NEW steps \in Nat
      PROVE  ExtractComplexity(lines, steps) \in Percent
  <2>1. PICK l \in 0..500 : l = AtMost(500, lines)
    BY DEF AtMost
  <2>2. PICK s \in 0..20 : s = AtMost(20, steps)
    BY DEF AtMost
  <2>3. (l * 50) \div 500 \in 0..50 /\ (s * 50) \div 20 \in 0..50
    OBVIOUS
  <2>4. QED
    BY <2>1, <2>2, <2>3 DEF ExtractComplexity, Percent
<1>6. ASSUME NEW verdict \in Verdicts, NEW retries \in Nat
      PROVE  ExtractConfidence(verdict, retries) \in Percent
  BY <1>1 DEF ExtractConfidence, AtMost, Percent
<1>7. QED
  BY <1>2, <1>3, <1>4, <1>5, <1>6

\* A verdict that is bad news makes the risk high and the confidence low, and
\* both are known.
LEMMA BadNewsIsScored ==
  ASSUME NEW verdict \in {"FAILED", "FLAKY"}, NEW secrets \in BOOLEAN, NEW files \in Nat,
         NEW retries \in Nat
  PROVE  /\ ExtractRisk(verdict, secrets) >= 60
         /\ ExtractConfidence(verdict, retries) <= 40
         /\ Unavailable(verdict, files, retries) \in {{}, {"impact"}}
<1>1. VerifyRisk(verdict) \in {60, 90}
  BY DEF VerifyRisk
<1>2. ExtractRisk(verdict, secrets) >= 60 /\ ExtractConfidence(verdict, retries) <= 40
  BY <1>1 DEF ExtractRisk, ExtractConfidence, AtMost
<1>3. Unavailable(verdict, files, retries) \in {{}, {"impact"}}
  BY DEF Unavailable
<1>4. QED
  BY <1>2, <1>3

\* Risk and confidence weigh half of the mean: high and low, they keep it from LOW
\* whatever the other factors are.
LEMMA BadNewsIsNotLow ==
  ASSUME NEW r \in Percent, NEW i \in Percent, NEW n \in Percent, NEW x \in Percent,
         NEW c \in Percent, r >= 60, c <= 40,
         NEW unavailable \in {{}, {"impact"}}
  PROVE  LabelFor(ComputePriority(
           [risk |-> r, impact |-> i, novelty |-> n, complexity |-> x, confidence |-> c],
           unavailable)) \in Labels \ {"LOW"}
<1> DEFINE scores ==
             [risk |-> r, impact |-> i, novelty |-> n, complexity |-> x, confidence |-> c]
           priority == ComputePriority(scores, unavailable)
<1>1. /\ Contribution(scores, "risk") = r /\ Contribution(scores, "impact") = i
      /\ Contribution(scores, "novelty") = n /\ Contribution(scores, "complexity") = x
      /\ Contribution(scores, "confidence") = 100 - c
  BY DEF Contribution
<1>2. /\ PRIORITY_WEIGHTS["risk"] = 35 /\ PRIORITY_WEIGHTS["impact"] = 25
      /\ PRIORITY_WEIGHTS["novelty"] = 15 /\ PRIORITY_WEIGHTS["complexity"] = 10
      /\ PRIORITY_WEIGHTS["confidence"] = 15
  BY DEF PRIORITY_WEIGHTS
<1> HIDE DEF scores
<1>3. PICK w \in {0, 25} : w = IF "impact" \in unavailable THEN 0 ELSE PRIORITY_WEIGHTS["impact"]
  BY <1>2
<1>4. /\ priority.raw = 35 * r + w * i + 15 * n + 10 * x + 15 * (100 - c)
      /\ priority.weight = 75 + w
  BY <1>1, <1>2, <1>3 DEF ComputePriority, FACTOR_KEYS
<1>5. w * i >= 0
  BY <1>3 DEF Percent
<1>6. AtLeast(priority, 30) /\ priority.weight # 0
  BY <1>3, <1>4, <1>5 DEF AtLeast, Percent
<1>7. QED
  BY <1>6 DEF LabelFor, Labels, scores
----------------------------------------------------------------------------
WorkRow == [label : Labels, action : RoutingActions, now : 0..Days, deferred : BOOLEAN,
            position : Nat]

\* TypeOK, less the bound on positions of queued rows.
Typed ==
  /\ evidence \in [Tasks -> Evidence]
  /\ at \in [Tasks -> Steps]
  /\ work \in [Tasks -> WorkRow]
  /\ day \in 1..Days
  /\ decisions \in [1..Days -> Nat]
  /\ decided \subseteq Queued
  /\ ahead \in [Tasks -> SUBSET Tasks]
  /\ spentOn \in [Tasks -> 0..Days]

\* There is always a largest position.
PositionsBounded == \E n \in Nat : \A t \in Tasks : work[t].position <= n

\* From the moment it has its position, an item stands behind those that were
\* queued before its routing began, and these stay queued.
StandsBehind(t) ==
  /\ ahead[t] \subseteq Queued
  /\ at[t] \in {"placed", "queued"} =>
       /\ work[t].position > 0
       /\ \A s \in ahead[t] : work[s].position < work[t].position

\* A budget that was spent stays spent.  From the moment the gate has decided, what
\* it decided fits the count since the day it read.
DeferralFits(t) ==
  /\ spentOn[t] # 0 => decisions[spentOn[t]] >= Budget
  /\ at[t] \in {"ruled", "gated", "placed", "queued"} => work[t].now \in 1..Days
  /\ at[t] \in {"gated", "placed", "queued"} =>
       /\ work[t].deferred => decisions[work[t].now] >= Budget
       /\ work[t].action \in DEFERRABLE_ACTIONS /\ spentOn[t] = work[t].now => work[t].deferred

\* What bad news has made of an item at each of its steps.
NewsIsKept(t) ==
  /\ at[t] # "awaiting" /\ BadNews(t) => work[t].label # "LOW"
  /\ at[t] \in {"ruled", "gated", "placed", "queued"} =>
       /\ BadNews(t) => work[t].action # "AUTO_APPROVABLE"
       /\ evidence[t].own /\ evidence[t].flaky => work[t].action \notin DEFERRABLE_ACTIONS
  /\ at[t] \in {"gated", "placed", "queued"} =>
       (evidence[t].own /\ evidence[t].flaky => ~ work[t].deferred)

\* The inductive invariant.
RoutingInv ==
  /\ Typed /\ PositionsBounded
  /\ \A t \in Tasks : StandsBehind(t) /\ DeferralFits(t) /\ NewsIsKept(t)

LEMMA RoutingInit == Init => RoutingInv
<1> SUFFICES ASSUME Init PROVE RoutingInv
  OBVIOUS
<1>1. NoWork \in WorkRow /\ NoWork.position = 0
  BY RoutingBounds DEF NoWork, WorkRow, Labels, RoutingActions
<1>2. Typed
  BY <1>1, RoutingBounds DEF Init, Typed, Steps, Queued
<1>3. PositionsBounded
  BY <1>1 DEF Init, PositionsBounded
<1>4. ASSUME NEW t \in Tasks PROVE StandsBehind(t) /\ DeferralFits(t) /\ NewsIsKept(t)
  BY RoutingBounds DEF Init, StandsBehind, DeferralFits, NewsIsKept
<1>5. QED
  BY <1>2, <1>3, <1>4 DEF RoutingInv

\* A handler's step changes its own item alone: what is left to show of a step.
LEMMA HandlerStep ==
  ASSUME RoutingInv, NEW t \in Tasks, NEW step \in Steps, NEW row \in WorkRow,
         at[t] # "queued", at' = [at EXCEPT ![t] = step], work' = [work EXCEPT ![t] = row],
         UNCHANGED <<evidence, day, decisions, decided>>,
         ahead' \in [Tasks -> SUBSET Tasks], spentOn' \in [Tasks -> 0..Days],
         \A s \in Tasks \ {t} : ahead'[s] = ahead[s] /\ spentOn'[s] = spentOn[s],
         StandsBehind(t)', DeferralFits(t)', NewsIsKept(t)'
  PROVE  RoutingInv'
<1>0. Typed /\ PositionsBounded /\ t \notin Queued
  BY DEF RoutingInv, Queued
<1>1. /\ at'[t] = step /\ work'[t] = row
      /\ \A s \in Tasks \ {t} : at'[s] = at[s] /\ work'[s] = work[s]
  BY <1>0 DEF Typed
<1>2. Queued \subseteq Queued'
  BY <1>0, <1>1 DEF Queued
<1>3. Typed'
  BY <1>0, <1>2 DEF Typed
<1>4. PositionsBounded'
  <2>1. PICK n \in Nat : \A s \in Tasks : work[s].position <= n
    BY <1>0 DEF PositionsBounded
  <2>2. row.position \in Nat /\ n + row.position \in Nat
    BY DEF WorkRow
  <2>3. \A s \in Tasks : work'[s].position <= n + row.position
    <3> TAKE s \in Tasks
    <3>1. work[s].position \in Nat
      BY <1>0 DEF Typed, WorkRow
    <3>2. QED
      BY <1>1, <2>1, <2>2, <3>1
  <2>4. QED
    BY <2>2, <2>3 DEF PositionsBounded
<1>5. ASSUME NEW s \in Tasks \ {t} PROVE StandsBehind(s)' /\ DeferralFits(s)' /\ NewsIsKept(s)'
  <2>1. StandsBehind(s) /\ DeferralFits(s) /\ NewsIsKept(s) /\ t \notin ahead[s]
        /\ ahead[s] \subseteq Tasks
    BY <1>0 DEF RoutingInv, StandsBehind, Typed
  <2>2. StandsBehind(s)'
    BY <1>1, <1>2, <2>1 DEF StandsBehind
  <2>3. DeferralFits(s)' /\ NewsIsKept(s)'
    BY <1>1, <2>1 DEF DeferralFits, NewsIsKept, BadNews
  <2>4. QED
    BY <2>2, <2>3
<1>6. QED
  BY <1>3, <1>4, <1>5 DEF RoutingInv
----------------------------------------------------------------------------
\* An item with another label, action, deferral or position.
LEMMA RowEdited ==
  ASSUME NEW row \in WorkRow, NEW label \in Labels, NEW action \in RoutingActions,
         NEW today \in 0..Days, NEW d \in BOOLEAN, NEW p \in Nat
  PROVE  /\ [row EXCEPT !.label = label] \in WorkRow
         /\ [row EXCEPT !.action = action, !.now = today] \in WorkRow
         /\ [row EXCEPT !.deferred = d] \in WorkRow
         /\ [row EXCEPT !.position = p] \in WorkRow
BY DEF WorkRow

LEMMA LabelTyped == ASSUME NEW priority PROVE LabelFor(priority) \in Labels
BY DEF LabelFor, Labels

LEMMA RuleShape ==
  ASSUME NEW label \in Labels, NEW flaky \in BOOLEAN
  PROVE  /\ MatchRule(label, flaky) \in RoutingActions
         /\ label # "LOW" => MatchRule(label, flaky) # "AUTO_APPROVABLE"
         /\ flaky => MatchRule(label, flaky) \notin DEFERRABLE_ACTIONS
BY DEF MatchRule, RoutingActions, DEFERRABLE_ACTIONS, Labels

LEMMA ScoreKeeps == ASSUME RoutingInv, NEW t \in Tasks, Score(t) PROVE RoutingInv'
<1>0. Typed /\ StandsBehind(t) /\ DeferralFits(t)
  BY DEF RoutingInv
<1> DEFINE e == evidence[t]
           verdict == FetchVerdict(e)
           scores == [risk |-> ExtractRisk(verdict, e.secrets),
                      impact |-> ExtractImpact(e.files, e.critical),
                      novelty |-> ExtractNovelty(PriorCount(t)),
                      complexity |-> ExtractComplexity(e.lines, e.steps),
                      confidence |-> ExtractConfidence(verdict, e.retries)]
           missing == Unavailable(verdict, e.files, e.retries)
<1>1. PICK label : label = LabelFor(ComputePriority(scores, missing))
  OBVIOUS
<1>2. label \in Labels
  BY <1>1, LabelTyped
<1>3. BadNews(t) => label # "LOW"
  <2> SUFFICES ASSUME BadNews(t) PROVE label # "LOW"
    OBVIOUS
  <2>1. e \in Evidence
    BY <1>0 DEF Typed
  <2>2. verdict \in {"FAILED", "FLAKY"}
    BY <2>1, EvidenceAssumption DEF FetchVerdict, BadNews
  <2>3. verdict \in Verdicts
    BY <2>2 DEF Verdicts
  <2>4. PriorCount(t) \in Nat
    <3>1. {s \in Tasks : at[s] \notin {"awaiting", "scored"}} \subseteq Tasks
      OBVIOUS
    <3>2. Cardinality({s \in Tasks : at[s] \notin {"awaiting", "scored"}}) \in Nat
      BY <3>1, TasksAssumption, FS_Subset, FS_CardinalityType
    <3>3. QED
      BY <2>1, <3>2, EvidenceAssumption DEF PriorCount
  <2>5. /\ e.secrets \in BOOLEAN /\ e.files \in Nat /\ e.critical \in Nat /\ e.lines \in Nat
        /\ e.steps \in Nat /\ e.retries \in Nat
    BY <2>1, EvidenceAssumption
  <2>6. /\ ExtractRisk(verdict, e.secrets) \in Percent
        /\ ExtractImpact(e.files, e.critical) \in Percent
        /\ ExtractNovelty(PriorCount(t)) \in Percent
        /\ ExtractComplexity(e.lines, e.steps) \in Percent
        /\ ExtractConfidence(verdict, e.retries) \in Percent
    BY <2>3, <2>4, <2>5, FactorsArePercents
  <2>7. /\ ExtractRisk(verdict, e.secrets) >= 60 /\ ExtractConfidence(verdict, e.retries) <= 40
        /\ missing \in {{}, {"impact"}}
    BY <2>2, <2>5, BadNewsIsScored
  <2>8. QED
    BY <1>1, <2>6, <2>7, BadNewsIsNotLow
<1>4. /\ at[t] = "awaiting" /\ at' = [at EXCEPT ![t] = "scored"]
      /\ work' = [work EXCEPT ![t].label = label]
      /\ UNCHANGED <<evidence, day, decisions, decided, ahead, spentOn>>
  BY <1>1 DEF Score, Advance
<1> HIDE DEF e, verdict, scores, missing
<1>5. PICK row \in WorkRow : row = work[t]
  BY <1>0 DEF Typed
<1>6. PICK new \in WorkRow : new = [row EXCEPT !.label = label]
  BY <1>2 DEF WorkRow
<1>7. work' = [work EXCEPT ![t] = new] /\ new.label = label
  BY <1>4, <1>5, <1>6 DEF WorkRow
<1>8. at'[t] = "scored" /\ work'[t] = new /\ Queued' = Queued /\ evidence' = evidence
  BY <1>0, <1>4, <1>7 DEF Typed, Queued
<1>9. StandsBehind(t)' /\ DeferralFits(t)' /\ NewsIsKept(t)'
  BY <1>0, <1>3, <1>4, <1>7, <1>8 DEF StandsBehind, DeferralFits, NewsIsKept, BadNews
<1>10. QED
  BY <1>0, <1>4, <1>7, <1>9, HandlerStep DEF Typed, Steps

LEMMA SaveAssessmentKeeps ==
  ASSUME RoutingInv, NEW t \in Tasks, SaveAssessment(t) PROVE RoutingInv'
<1>0. Typed /\ StandsBehind(t) /\ DeferralFits(t) /\ NewsIsKept(t)
  BY DEF RoutingInv
<1>1. /\ at[t] = "scored" /\ at' = [at EXCEPT ![t] = "assessed"]
      /\ UNCHANGED <<evidence, work, day, decisions, decided>>
      /\ ahead' = [ahead EXCEPT ![t] = Queued]
      /\ spentOn' = [spentOn EXCEPT ![t] = IF decisions[day] >= Budget THEN day ELSE 0]
  BY DEF SaveAssessment, Advance
<1>2. /\ ahead' \in [Tasks -> SUBSET Tasks] /\ spentOn' \in [Tasks -> 0..Days]
      /\ \A s \in Tasks \ {t} : ahead'[s] = ahead[s] /\ spentOn'[s] = spentOn[s]
      /\ ahead'[t] = Queued /\ spentOn'[t] \in {0, day}
      /\ spentOn'[t] = day => decisions[day] >= Budget
  BY <1>0, <1>1, RoutingBounds DEF Typed, Queued
<1>3. at'[t] = "assessed" /\ Queued' = Queued
  BY <1>0, <1>1 DEF Typed, Queued
<1>4. StandsBehind(t)' /\ NewsIsKept(t)'
  BY <1>0, <1>1, <1>2, <1>3 DEF StandsBehind, NewsIsKept, BadNews
<1>5. DeferralFits(t)'
  BY <1>0, <1>1, <1>2, <1>3, RoutingBounds DEF DeferralFits, Typed
<1>6. work' = [work EXCEPT ![t] = work[t]] /\ work[t] \in WorkRow
  BY <1>0, <1>1 DEF Typed
<1>7. QED
  BY <1>0, <1>1, <1>2, <1>4, <1>5, <1>6, HandlerStep DEF Steps

LEMMA ChooseActionKeeps ==
  ASSUME RoutingInv, NEW t \in Tasks, ChooseAction(t) PROVE RoutingInv'
<1>0. Typed /\ StandsBehind(t) /\ DeferralFits(t) /\ NewsIsKept(t)
  BY DEF RoutingInv
<1>1. PICK row \in WorkRow : row = work[t]
  BY <1>0 DEF Typed
<1>2. PICK flaky \in BOOLEAN : flaky = (evidence[t].own /\ evidence[t].flaky)
  OBVIOUS
<1>3. PICK action \in RoutingActions : action = MatchRule(row.label, flaky)
  BY RuleShape DEF WorkRow
<1>4. /\ at[t] = "assessed" /\ at' = [at EXCEPT ![t] = "ruled"]
      /\ work' = [work EXCEPT ![t].action = action, ![t].now = day]
      /\ UNCHANGED <<evidence, day, decisions, decided, ahead, spentOn>>
  BY <1>1, <1>2, <1>3 DEF ChooseAction, Advance
<1>d. day \in 1..Days /\ day \in 0..Days
  BY <1>0, RoutingBounds DEF Typed
<1>5. PICK new \in WorkRow : new = [row EXCEPT !.action = action, !.now = day]
  BY <1>d, RowEdited, RoutingBounds DEF WorkRow
<1>6. work' = [work EXCEPT ![t] = new] /\ new.label = row.label /\ new.action = action
      /\ new.now = day
  BY <1>1, <1>4, <1>5 DEF WorkRow
<1>7. at'[t] = "ruled" /\ work'[t] = new /\ Queued' = Queued
  BY <1>0, <1>4, <1>6 DEF Typed, Queued
<1>8. /\ row.label # "LOW" => action # "AUTO_APPROVABLE"
      /\ flaky => action \notin DEFERRABLE_ACTIONS
  BY <1>3, RuleShape DEF WorkRow
<1>9. StandsBehind(t)' /\ DeferralFits(t)'
  BY <1>0, <1>d, <1>4, <1>6, <1>7 DEF StandsBehind, DeferralFits
<1>10. NewsIsKept(t)'
  BY <1>0, <1>1, <1>2, <1>4, <1>6, <1>7, <1>8 DEF NewsIsKept, BadNews
<1>11. QED
  BY <1>0, <1>4, <1>6, <1>9, <1>10, HandlerStep DEF Typed, Steps

LEMMA GateOnBudgetKeeps ==
  ASSUME RoutingInv, NEW t \in Tasks, GateOnBudget(t) PROVE RoutingInv'
<1>0. Typed /\ StandsBehind(t) /\ DeferralFits(t) /\ NewsIsKept(t)
  BY DEF RoutingInv
<1>1. PICK row \in WorkRow : row = work[t]
  BY <1>0 DEF Typed
<1>2. PICK d \in BOOLEAN : d = DecideDeferral(row.action, decisions[row.now], Budget)
  BY DEF DecideDeferral
<1>3. /\ at[t] = "ruled" /\ at' = [at EXCEPT ![t] = "gated"]
      /\ work' = [work EXCEPT ![t].deferred = d]
      /\ UNCHANGED <<evidence, day, decisions, decided, ahead, spentOn>>
  BY <1>1, <1>2 DEF GateOnBudget, Advance
<1>5. PICK new \in WorkRow : new = [row EXCEPT !.deferred = d]
  BY RowEdited DEF WorkRow
<1>6. work' = [work EXCEPT ![t] = new] /\ new.deferred = d /\ new.action = row.action
      /\ new.label = row.label /\ new.now = row.now
  BY <1>1, <1>3, <1>5 DEF WorkRow
<1>7. at'[t] = "gated" /\ work'[t] = new /\ Queued' = Queued
  BY <1>0, <1>3, <1>6 DEF Typed, Queued
<1>8. d <=> row.action \in DEFERRABLE_ACTIONS /\ decisions[row.now] >= Budget
  BY <1>2 DEF DecideDeferral
<1>9. StandsBehind(t)'
  BY <1>0, <1>3, <1>7 DEF StandsBehind
<1>10. DeferralFits(t)'
  <2>1. row.now \in 1..Days /\ row.now # 0
    BY <1>0, <1>1, <1>3, RoutingBounds DEF DeferralFits
  <2>2. spentOn[t] = row.now => decisions[row.now] >= Budget
    BY <1>0, <2>1 DEF DeferralFits
  <2>3. QED
    BY <1>0, <1>3, <1>6, <1>7, <1>8, <2>1, <2>2 DEF DeferralFits
<1>11. NewsIsKept(t)'
  BY <1>0, <1>1, <1>3, <1>6, <1>7, <1>8 DEF NewsIsKept, BadNews
<1>12. QED
  BY <1>0, <1>3, <1>6, <1>9, <1>10, <1>11, HandlerStep DEF Typed, Steps

\* The position is one past the largest of the queue.
LEMMA NextIsBehindAll ==
  ASSUME RoutingInv
  PROVE  NextPosition \in Nat \ {0} /\ \A s \in Queued : work[s].position < NextPosition
<1> DEFINE Positions == {work[s].position : s \in Queued} \cup {0}
<1>1. \A s \in Queued : work[s].position \in Nat
  BY DEF RoutingInv, Typed, WorkRow, Queued
<1>2. PICK n \in Nat : \A s \in Tasks : work[s].position <= n
  BY DEF RoutingInv, PositionsBounded
<1>3. Positions \subseteq Nat /\ Positions # {} /\ \A m \in Positions : m <= n
  BY <1>1, <1>2 DEF Queued
<1> HIDE DEF Positions
<1>4. Max(Positions) \in Positions /\ \A m \in Positions : m <= Max(Positions)
  BY <1>3, MaxOfNats
<1>5. PICK m \in Nat : m = Max(Positions) /\ \A q \in Positions : q <= m
  BY <1>3, <1>4
<1>6. NextPosition = m + 1
  BY <1>5 DEF NextPosition, Positions
<1>7. \A s \in Queued : work[s].position \in Positions
  BY DEF Positions
<1>8. \A s \in Queued : work[s].position < m + 1
  BY <1>1, <1>5, <1>7
<1>9. QED
  BY <1>6, <1>8

LEMMA PlaceKeeps == ASSUME RoutingInv, NEW t \in Tasks, Place(t) PROVE RoutingInv'
<1>0. Typed /\ StandsBehind(t) /\ DeferralFits(t) /\ NewsIsKept(t)
  BY DEF RoutingInv
<1>1. PICK row \in WorkRow : row = work[t]
  BY <1>0 DEF Typed
<1>2. PICK p \in Nat \ {0} : p = NextPosition /\ \A s \in Queued : work[s].position < p
  BY NextIsBehindAll
<1>3. /\ at[t] = "gated" /\ at' = [at EXCEPT ![t] = "placed"]
      /\ work' = [work EXCEPT ![t].position = p]
      /\ UNCHANGED <<evidence, day, decisions, decided, ahead, spentOn>>
  BY <1>2 DEF Place, Advance
<1>4. PICK new \in WorkRow : new = [row EXCEPT !.position = p]
  BY RowEdited DEF WorkRow
<1>5. work' = [work EXCEPT ![t] = new] /\ new.position = p /\ new.action = row.action
      /\ new.label = row.label /\ new.now = row.now /\ new.deferred = row.deferred
  BY <1>1, <1>3, <1>4 DEF WorkRow
<1>6. at'[t] = "placed" /\ work'[t] = new /\ Queued' = Queued /\ t \notin Queued
      /\ \A s \in Queued : work'[s] = work[s]
  BY <1>0, <1>3, <1>5 DEF Typed, Queued
<1>7. StandsBehind(t)'
  BY <1>0, <1>2, <1>3, <1>5, <1>6 DEF StandsBehind
<1>8. DeferralFits(t)' /\ NewsIsKept(t)'
  BY <1>0, <1>1, <1>3, <1>5, <1>6 DEF DeferralFits, NewsIsKept, BadNews
<1>9. QED
  BY <1>0, <1>3, <1>5, <1>7, <1>8, HandlerStep DEF Typed, Steps

LEMMA EnqueueKeeps == ASSUME RoutingInv, NEW t \in Tasks, Enqueue(t) PROVE RoutingInv'
<1>0. Typed /\ StandsBehind(t) /\ DeferralFits(t) /\ NewsIsKept(t)
  BY DEF RoutingInv
<1>1. /\ at[t] = "placed" /\ at' = [at EXCEPT ![t] = "queued"]
      /\ UNCHANGED <<evidence, work, day, decisions, decided, ahead, spentOn>>
  BY DEF Enqueue, Advance
<1>2. at'[t] = "queued" /\ Queued \subseteq Queued'
  BY <1>0, <1>1 DEF Typed, Queued
<1>3. StandsBehind(t)' /\ DeferralFits(t)' /\ NewsIsKept(t)'
  BY <1>0, <1>1, <1>2 DEF StandsBehind, DeferralFits, NewsIsKept, BadNews
<1>4. work' = [work EXCEPT ![t] = work[t]] /\ work[t] \in WorkRow
  BY <1>0, <1>1 DEF Typed
<1>5. QED
  BY <1>0, <1>1, <1>3, <1>4, HandlerStep DEF Typed, Steps

LEMMA DecideKeeps == ASSUME RoutingInv, NEW t \in Tasks, Decide(t) PROVE RoutingInv'
<1>0. Typed /\ PositionsBounded
      /\ \A s \in Tasks : StandsBehind(s) /\ DeferralFits(s) /\ NewsIsKept(s)
  BY DEF RoutingInv
<1>1. /\ t \in Queued /\ decided' = decided \cup {t}
      /\ decisions' = [d \in 1..Days |-> decisions[d] + IF d <= day THEN 1 ELSE 0]
      /\ UNCHANGED <<evidence, at, work, day, ahead, spentOn>>
  BY DEF Decide
<1>d. /\ \A d \in 1..Days : decisions[d] \in Nat /\ d \in Int
      /\ day \in Int
  BY <1>0, RoutingBounds DEF Typed
<1>2. /\ decisions' \in [1..Days -> Nat]
      /\ \A d \in 1..Days : decisions'[d] >= decisions[d] /\ decisions[d] \in Nat
  <2>1. ASSUME NEW d \in 1..Days PROVE decisions'[d] \in Nat /\ decisions'[d] >= decisions[d]
    BY <1>d, <1>1
  <2>2. QED
    BY <1>d, <1>1, <2>1
<1>3. Typed' /\ PositionsBounded'
  BY <1>0, <1>1, <1>2 DEF Typed, PositionsBounded, Queued
<1>4. ASSUME NEW s \in Tasks PROVE StandsBehind(s)' /\ DeferralFits(s)' /\ NewsIsKept(s)'
  <2>1. work[s] \in WorkRow /\ spentOn[s] \in 0..Days
    BY <1>0 DEF Typed
  <2>2. spentOn[s] # 0 => spentOn[s] \in 1..Days
    BY <2>1, RoutingBounds
  <2>3. DeferralFits(s)'
    BY <1>0, <1>1, <1>2, <2>2, RoutingBounds DEF DeferralFits
  <2>4. StandsBehind(s)' /\ NewsIsKept(s)'
    BY <1>0, <1>1 DEF StandsBehind, NewsIsKept, BadNews, Queued
  <2>5. QED
    BY <2>3, <2>4
<1>5. QED
  BY <1>3, <1>4 DEF RoutingInv

LEMMA MidnightKeeps == ASSUME RoutingInv, Midnight PROVE RoutingInv'
<1>0. Typed /\ PositionsBounded
      /\ \A s \in Tasks : StandsBehind(s) /\ DeferralFits(s) /\ NewsIsKept(s)
  BY DEF RoutingInv
<1>1. /\ day' = day + 1 /\ day \in 1..Days /\ day' \in 1..Days
      /\ UNCHANGED <<evidence, at, work, decisions, decided, ahead, spentOn>>
  BY <1>0, RoutingBounds DEF Midnight, Typed
<1>2. Typed' /\ PositionsBounded'
  BY <1>0, <1>1 DEF Typed, PositionsBounded, Queued
<1>3. ASSUME NEW s \in Tasks PROVE StandsBehind(s)' /\ DeferralFits(s)' /\ NewsIsKept(s)'
  <2>3. DeferralFits(s)'
    BY <1>0, <1>1 DEF DeferralFits
  <2>4. StandsBehind(s)' /\ NewsIsKept(s)'
    BY <1>0, <1>1 DEF StandsBehind, NewsIsKept, BadNews, Queued
  <2>5. QED
    BY <2>3, <2>4
<1>4. QED
  BY <1>2, <1>3 DEF RoutingInv

LEMMA RoutingNext == RoutingInv /\ [Next]_vars => RoutingInv'
<1> SUFFICES ASSUME RoutingInv, [Next]_vars PROVE RoutingInv'
  OBVIOUS
<1>1. ASSUME NEW t \in Tasks, Handle(t) \/ Decide(t) PROVE RoutingInv'
  BY <1>1, ScoreKeeps, SaveAssessmentKeeps, ChooseActionKeeps, GateOnBudgetKeeps, PlaceKeeps,
     EnqueueKeeps, DecideKeeps DEF Handle
<1>2. CASE Midnight
  BY <1>2, MidnightKeeps
<1>3. CASE UNCHANGED vars
  BY <1>3 DEF vars, RoutingInv, Typed, PositionsBounded, StandsBehind, DeferralFits, NewsIsKept,
              BadNews, Queued
<1>4. QED
  BY <1>1, <1>2, <1>3 DEF Next

LEMMA RoutingAlways == Spec => []RoutingInv
BY RoutingInit, RoutingNext, PTL DEF Spec
----------------------------------------------------------------------------
\* Every routing is well typed, and every queued item has a position.
THEOREM RoutingTyped == Spec => []TypeOK
<1>1. RoutingInv => TypeOK
  BY DEF RoutingInv, Typed, StandsBehind, TypeOK, WorkRow, Queued
<1>2. QED
  BY <1>1, RoutingAlways, PTL

\* Of a change whose latest report failed or was flaky no evidence at all, of any
\* size and history, leaves the review to the machine; a change whose own report
\* is flaky is not deferred either.
THEOREM BadNewsIsSeen == Spec => []BadNewsReachesHumans
<1>1. RoutingInv => BadNewsReachesHumans
  BY DEF RoutingInv, NewsIsKept, BadNewsReachesHumans, BadNews, Queued
<1>2. QED
  BY <1>1, RoutingAlways, PTL

\* However routings interleave, an item stands behind all that were queued
\* before its own routing began.
THEOREM FirstInFirstOut == Spec => []QueueIsFIFO
<1>1. RoutingInv => QueueIsFIFO
  BY DEF RoutingInv, StandsBehind, QueueIsFIFO, Queued
<1>2. QED
  BY <1>1, RoutingAlways, PTL

\* Whenever midnight comes between the clock, the count and the row, an item is
\* deferred only when the decisions since its day began had reached the budget, and
\* always when that day's budget was spent before its routing began.
THEOREM BudgetDefers == Spec => []DeferralFollowsBudget
<1>1. RoutingInv => DeferralFollowsBudget
  BY DEF RoutingInv, DeferralFits, DeferralFollowsBudget, Queued
<1>2. QED
  BY <1>1, RoutingAlways, PTL
=============================================================================
