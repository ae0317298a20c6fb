----------------------------- MODULE Writeback -----------------------------
(***************************************************************************)
(* POST /api/reviews/:id/decision, MCPWriteBack and its write-back log:    *)
(* a human decision is recorded once, then posted to the host of the pull  *)
(* request as a comment and a status.  Each write is claimed in the log,   *)
(* sent, and finalized in the log; every await is a step of its own, so    *)
(* concurrent requests, a lost answer, a failed statement or the end of    *)
(* the process come between any two.                                       *)
(*                                                                         *)
(* A decision is its payload: review_decisions.dedup_key is a fingerprint  *)
(* of the report, decision, rationale, comment and toggle.                 *)
(***************************************************************************)
EXTENDS Naturals, FiniteSets

CONSTANTS
  Requests,     \* HTTP requests, each served once
  Reports,      \* review reports
  Repo,         \* report -> repository of its pull request
  Number,       \* report -> number of its pull request
  Payloads,     \* the decisions reviewers may send
  LosesAnswers, \* whether the host's answer may be lost after it acted
  MaxFaults,    \* bound on the statements on the log that fail
  MaxCrashes    \* bound on the ends of the API process

Decisions == {"APPROVE", "REJECT", "REQUEST_CHANGES"}
Legs == {"COMMENT", "STATUS"}

ASSUME PayloadsAssumption ==
  \A p \in Payloads :
    p.report \in Reports /\ p.decision \in Decisions /\ p.writeback \in BOOLEAN
ASSUME TargetAssumption == DOMAIN Repo = Reports /\ DOMAIN Number = Reports
ASSUME WritebackBounds ==
  LosesAnswers \in BOOLEAN /\ MaxFaults \in Nat /\ MaxCrashes \in Nat

VARIABLES
  decided,     \* the review_decisions table
  remembered,  \* decisions announced by review.decision_submitted
  log,         \* the writeback_log table: intent -> status, or "NONE"
  posted,      \* intents whose write has taken effect on the host
  doubted,     \* those of them that write() learned to have failed
  enabled,     \* WRITEBACK_<PROVIDER>, read from the environment of the process
  request,     \* request -> where it is
  faults, crashes

vars == <<decided, remembered, log, posted, doubted, enabled, request, faults, crashes>>

\* A write intent; its id is a fingerprint of the decision and the action.
Intents == [of : Payloads, action : Legs]

Statuses == {"NONE", "PENDING", "SUCCEEDED", "FAILED", "DUPLICATE"}
Final == {"SUCCEEDED", "FAILED", "DUPLICATE"}

\* The text a write carries: a rejection's comment includes its report's
\* findings, any other is the reviewer's comment or, without one, the summary.
Body(i) ==
  IF i.action = "COMMENT" /\ i.of.decision = "REJECT"
  THEN <<"findings", i.of.report, i.of.rationale, i.of.comment>>
  ELSE IF i.action = "COMMENT" /\ i.of.comment # "" THEN <<"comment", i.of.comment>>
  ELSE <<"summary", i.of.decision, i.of.rationale>>

\* dedupKey: the pull request's number, the action and the text, for the one
\* provider considered here.
Key(i) == <<Number[i.of.report], i.action, Body(i)>>

Target(i) == <<Repo[i.of.report], Number[i.of.report]>>

Steps == {"idle", "unseen", "recorded", "claim", "call", "answered", "done"}
Replies == {"none", "200", "off", "deduped", "500"}

Init ==
  /\ decided = {}
  /\ remembered = {}
  /\ log = [i \in Intents |-> "NONE"]
  /\ posted = {}
  /\ doubted = {}
  /\ enabled \in BOOLEAN
  /\ request \in [Requests -> {[step |-> "idle", payload |-> p, leg |-> "COMMENT",
                                ok |-> FALSE, reply |-> "none"] : p \in Payloads}]
  /\ faults = 0
  /\ crashes = 0
----------------------------------------------------------------------------
Intent(r) == [of |-> request[r].payload, action |-> request[r].leg]

At(r, step) == request[r].step = step

Goto(r, step) == request' = [request EXCEPT ![r].step = step]

Answer(r, reply) == request' = [request EXCEPT ![r].step = "done", ![r].reply = reply]

\* The route looks for the decision first: a repeated one is answered from the
\* table, whatever became of its writes.
Receive(r) ==
  /\ At(r, "idle")
  /\ \/ request[r].payload \in decided /\ Answer(r, "deduped")
     \/ request[r].payload \notin decided /\ Goto(r, "unseen")
  /\ UNCHANGED <<decided, remembered, log, posted, doubted, enabled, faults, crashes>>

\* Mutant: the write-back gate forgets REQUEST_CHANGES.
WritesBackAny(p) == p.writeback

\* The toggle is on and the decision is one that is written back.
WritesBack(p) == p.writeback /\ p.decision # "REQUEST_CHANGES"

\* The row carries the toggle, so that "nothing was written" is a recorded fact.
Insert(p) == decided' = decided \cup {p}

\* INSERT; a unique violation means another request won since.
Record(r) ==
  /\ At(r, "unseen")
  /\ \/ request[r].payload \in decided /\ Answer(r, "deduped")
     \/ request[r].payload \notin decided /\ Goto(r, "recorded")
  /\ Insert(request[r].payload)
  /\ UNCHANGED <<remembered, log, posted, doubted, enabled, faults, crashes>>

\* The decision is published for memory before the gate is consulted.
Announce(r) ==
  /\ At(r, "recorded")
  /\ remembered' = remembered \cup {request[r].payload}
  /\ \/ WritesBack(request[r].payload) /\ Goto(r, "claim")
     \/ ~ WritesBack(request[r].payload) /\ Answer(r, "off")
  /\ UNCHANGED <<decided, log, posted, doubted, enabled, faults, crashes>>

\* Mutant: the comment's outcome ends the request.
NextLegStops(r) == request' = [request EXCEPT ![r].step = "done", ![r].reply = "200"]

\* write() has returned: the comment is followed by the status, the status by
\* the reply.  Neither a failed nor a skipped write is an error of the request.
NextLeg(r) ==
  request' = IF request[r].leg = "COMMENT"
             THEN [request EXCEPT ![r].leg = "STATUS", ![r].step = "claim"]
             ELSE [request EXCEPT ![r].step = "done", ![r].reply = "200"]

\* Mutant: the partial unique index covers SUCCEEDED rows alone.
HoldsOnceDone == {"SUCCEEDED"}

\* The statuses the partial unique index on dedup_key covers.
Holds == {"PENDING", "SUCCEEDED"}

\* Another row holds the intent's key.
Held(i) == \E j \in Intents \ {i} : log[j] \in Holds /\ Key(j) = Key(i)

\* write() of a provider that was opted out: a success without a row.
OptedOut(r) ==
  /\ At(r, "claim") /\ ~ enabled
  /\ NextLeg(r)
  /\ UNCHANGED <<decided, remembered, log, posted, doubted, enabled, faults, crashes>>

\* claim: insert PENDING on conflict do nothing, else insert DUPLICATE.
Claim(r) ==
  /\ At(r, "claim") /\ enabled
  /\ \/ ~ Held(Intent(r)) /\ log' = [log EXCEPT ![Intent(r)] = "PENDING"] /\ Goto(r, "call")
     \/ Held(Intent(r)) /\ log' = [log EXCEPT ![Intent(r)] = "DUPLICATE"] /\ NextLeg(r)
  /\ UNCHANGED <<decided, remembered, posted, doubted, enabled, faults, crashes>>

\* A claim that throws rolls its row back and ends the request.
ClaimFault(r) ==
  /\ At(r, "claim") /\ enabled /\ faults < MaxFaults
  /\ faults' = faults + 1
  /\ Answer(r, "500")
  /\ UNCHANGED <<decided, remembered, log, posted, doubted, enabled, crashes>>

\* The MCP tool call.  The write takes effect or not, and the answer says so or
\* not: it may time out after the host acted, and a host without a status tool
\* counts as written.
Call(r) ==
  LET i == Intent(r)
      answered(ok) == request' = [request EXCEPT ![r].step = "answered", ![r].ok = ok] IN
  /\ At(r, "call")
  /\ \/ posted' = posted \cup {i} /\ answered(TRUE) /\ UNCHANGED doubted
     \/ /\ LosesAnswers
        /\ posted' = posted \cup {i} /\ doubted' = doubted \cup {i} /\ answered(FALSE)
     \/ answered(FALSE) /\ UNCHANGED <<posted, doubted>>
     \/ i.action = "STATUS" /\ answered(TRUE) /\ UNCHANGED <<posted, doubted>>
  /\ UNCHANGED <<decided, remembered, log, enabled, faults, crashes>>

\* finalize: the row becomes SUCCEEDED, unless the index then refuses it and it
\* becomes DUPLICATE; a failed answer makes it FAILED.
Finalize(r) ==
  LET i == Intent(r) IN
  /\ At(r, "answered")
  /\ log' = [log EXCEPT ![i] =
       IF ~ request[r].ok THEN "FAILED" ELSE IF Held(i) THEN "DUPLICATE" ELSE "SUCCEEDED"]
  /\ NextLeg(r)
  /\ UNCHANGED <<decided, remembered, posted, doubted, enabled, faults, crashes>>

\* A finalizing UPDATE that throws after success is caught like a failure of
\* the host; one that throws in the catch block ends the request.
AfterFault(r) ==
  IF request[r].ok THEN request' = [request EXCEPT ![r].ok = FALSE] ELSE Answer(r, "500")

FinalizeFault(r) ==
  /\ At(r, "answered") /\ faults < MaxFaults
  /\ faults' = faults + 1
  /\ AfterFault(r)
  /\ doubted' = IF request[r].ok THEN doubted \cup ({Intent(r)} \cap posted) ELSE doubted
  /\ UNCHANGED <<decided, remembered, log, posted, enabled, crashes>>

\* The API process ends: requests being served are cut off, and the next one
\* starts with the environment it is given.
Crash ==
  /\ crashes < MaxCrashes
  /\ crashes' = crashes + 1
  /\ request' = [r \in Requests |->
       IF At(r, "idle") \/ At(r, "done") THEN request[r]
       ELSE [request[r] EXCEPT !.step = "done"]]
  /\ enabled' \in BOOLEAN
  /\ UNCHANGED <<decided, remembered, log, posted, doubted, faults>>

Serve(r) ==
  \/ Receive(r) \/ Record(r) \/ Announce(r)
  \/ OptedOut(r) \/ Claim(r) \/ ClaimFault(r) \/ Call(r) \/ Finalize(r) \/ FinalizeFault(r)

Next == (\E r \in Requests : Serve(r)) \/ Crash

Spec == Init /\ [][Next]_vars

\* A request that was received is served to its end by the event loop, and the
\* MCP client's timeout answers every call.  Nothing makes clients send one.
FairSpec ==
  Spec /\ \A r \in Requests : WF_vars(Serve(r) /\ ~ At(r, "idle"))
----------------------------------------------------------------------------
\* The host sees each distinct write once, however requests race, stop and come
\* again, but for the writes whose success write() took for a failure: their
\* answer was lost, or the UPDATE that was to record it threw.
RepeatsAreInDoubt ==
  \A i, j \in posted \ doubted : Key(i) = Key(j) => i = j

\* What the log says is what happened: a confirmed comment is on the host, a
\* skipped or unclaimed write is not, nor is a failed one unless it is in doubt,
\* and only recorded decisions with the toggle on are written at all.
LogTellsTheTruth ==
  \A i \in Intents :
    /\ log[i] = "SUCCEEDED" /\ i.action = "COMMENT" => i \in posted
    /\ i \in posted => log[i] \notin {"NONE", "DUPLICATE"}
    /\ i \in posted \ doubted => log[i] # "FAILED"
    /\ log[i] # "NONE" => /\ i.of \in remembered
                          /\ i.of.writeback /\ i.of.decision # "REQUEST_CHANGES"

\* A decision recorded with the toggle on gets both its writes into the log
\* with a final status, whoever recorded it and whatever else is sent, unless
\* the provider is opted out, the process ends or a statement on the log fails.
WritesGetFinal ==
  \A p \in Payloads :
    (p \in decided /\ p.writeback /\ p.decision # "REQUEST_CHANGES" /\ enabled)
      ~> (\/ \A leg \in Legs : log[[of |-> p, action |-> leg]] \in Final
          \/ faults > 0 \/ crashes > 0)
----------------------------------------------------------------------------
\* What the documentation says, and the code does not do.

\* dedupKey: intents are the same write iff they target the same item (with the
\* same content), so a skipped write has a twin on its own pull request.
DuplicatesShareTarget ==
  \A i \in Intents : log[i] = "DUPLICATE" =>
    \E j \in Intents \ {i} : log[j] # "NONE" /\ Key(j) = Key(i) /\ Target(j) = Target(i)
=============================================================================
