--------------------------- MODULE AttentionPolicy ---------------------------
(***************************************************************************)
(* The pure part of the attention engine: the five factors of a change,    *)
(* their weighted mean, its label, the ordered rules that turn a label     *)
(* into a queue action, and the budget's deferral.  Scores are percents;   *)
(* the mean is kept as a sum and its weight, so nothing is rounded (the    *)
(* source divides in floating point).                                      *)
(***************************************************************************)
EXTENDS Integers

FACTOR_KEYS == {"risk", "impact", "novelty", "complexity", "confidence"}

PRIORITY_WEIGHTS ==
  [risk |-> 35, impact |-> 25, novelty |-> 15, complexity |-> 10, confidence |-> 15]

Verdicts == {"FAILED", "FLAKY", "PASSED", "none"}
RoutingActions == {"ESCALATE", "REVIEW_REQUIRED", "REVIEW_RECOMMENDED", "AUTO_APPROVABLE"}
Labels == {"CRITICAL", "HIGH", "MEDIUM", "LOW"}

AtMost(cap, n) == IF n > cap THEN cap ELSE n

\* How much a verdict suggests a defect; 0 stands for no verdict.
VerifyRisk(verdict) ==
  CASE verdict = "FAILED" -> 90 [] verdict = "FLAKY" -> 60
    [] verdict = "PASSED" -> 10 [] OTHER -> 0

\* A path that looks like a secret adds to the risk.
ExtractRisk(verdict, secrets) ==
  AtMost(100, VerifyRisk(verdict) + (IF secrets THEN 10 ELSE 0))

\* Half for the number of files, half for the same count with critical paths twice.
ExtractImpact(files, critical) == 5 * AtMost(10, files) + 5 * AtMost(10, files + critical)

ExtractNovelty(prior) == IF prior >= 3 THEN 20 ELSE 100 - 30 * prior

\* Half for changed lines (500 count as all), half for trajectory steps (20).
ExtractComplexity(lines, steps) == (AtMost(500, lines) * 50) \div 500 + (AtMost(20, steps) * 50) \div 20

\* Confidence falls with the verdict's risk and with retries.
ExtractConfidence(verdict, retries) ==
  100 - AtMost(100, VerifyRisk(verdict) + AtMost(50, 15 * retries))

\* The factors that are missing rather than scored.
Unavailable(verdict, files, retries) ==
  (IF verdict = "none" THEN {"risk"} ELSE {})
    \cup (IF files = 0 THEN {"impact"} ELSE {})
    \cup (IF verdict = "none" /\ retries = 0 THEN {"confidence"} ELSE {})

\* Confidence lowers the priority, every other factor raises it.
Contribution(scores, key) == IF key = "confidence" THEN 100 - scores[key] ELSE scores[key]

\* The mean over the available factors, as its numerator and denominator.
ComputePriority(scores, unavailable) ==
  LET total(term) == term.risk + term.impact + term.novelty + term.complexity + term.confidence
      weight == [k \in FACTOR_KEYS |-> IF k \in unavailable THEN 0 ELSE PRIORITY_WEIGHTS[k]]
  IN [raw |-> total([k \in FACTOR_KEYS |-> weight[k] * Contribution(scores, k)]),
      weight |-> total(weight)]

AtLeast(priority, percent) == priority.raw >= percent * priority.weight

\* A change nothing is known of is HIGH.
LabelFor(priority) ==
  IF priority.weight = 0 THEN "HIGH"
  ELSE IF AtLeast(priority, 80) THEN "CRITICAL"
  ELSE IF AtLeast(priority, 60) THEN "HIGH"
  ELSE IF AtLeast(priority, 30) THEN "MEDIUM"
  ELSE "LOW"

\* The first rule that matches decides.
MatchRule(label, flaky) ==
  IF label = "CRITICAL" THEN "ESCALATE"
  ELSE IF label = "HIGH" \/ flaky THEN "REVIEW_REQUIRED"
  ELSE IF label = "MEDIUM" THEN "REVIEW_RECOMMENDED"
  ELSE "AUTO_APPROVABLE"

DEFERRABLE_ACTIONS == {"REVIEW_RECOMMENDED", "AUTO_APPROVABLE"}

\* Mutant: the decision that spends the budget does not count.
DeferralOneLate(action, decisionsToday, budget) ==
  action \in DEFERRABLE_ACTIONS /\ decisionsToday > budget

\* Only a deferrable action waits, once the day's decisions reach the budget.
DecideDeferral(action, decisionsToday, budget) ==
  action \in DEFERRABLE_ACTIONS /\ decisionsToday >= budget
=============================================================================
