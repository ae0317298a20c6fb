--------------------------- MODULE WritebackProofs ---------------------------
(***************************************************************************)
(* What TLAPS proves of Writeback, for any requests, reports and payloads, *)
(* any number of faults and crashes, and whether answers are lost or not:  *)
(* the write-back log tells the truth about the host, and the host sees no *)
(* write twice but those whose success was taken for a failure.            *)
(***************************************************************************)
EXTENDS Writeback, TLAPS

RequestRow == [step : Steps, payload : Payloads, leg : Legs, ok : BOOLEAN, reply : Replies]

Typed ==
  /\ remembered \subseteq decided /\ decided \subseteq Payloads
  /\ log \in [Intents -> Statuses]
  /\ posted \subseteq Intents
  /\ request \in [Requests -> RequestRow]

\* The steps of a request that has recorded its decision.
Served(r) == request[r].step \in {"recorded", "claim", "call", "answered"}

\* A decision has one request that writes it back: the unique fingerprint lets
\* one INSERT through.
OneServer ==
  \A r \in Requests : Served(r) =>
    /\ request[r].payload \in decided
    /\ \A s \in Requests : Served(s) /\ request[s].payload = request[r].payload => s = r

\* What the log holds of a request's writes at each of its steps.
LogFollows(r) ==
  /\ request[r].step \in {"idle", "unseen", "recorded"} => request[r].leg = "COMMENT"
  /\ request[r].step = "recorded" =>
       \A i \in Intents : i.of = request[r].payload => log[i] = "NONE"
  /\ request[r].step = "claim" => log[Intent(r)] = "NONE"
  /\ request[r].step \in {"call", "answered"} => log[Intent(r)] = "PENDING"
  /\ request[r].step \in {"claim", "call", "answered"} =>
       /\ request[r].payload \in remembered /\ WritesBack(request[r].payload)
       /\ request[r].leg = "COMMENT" =>
            log[[of |-> request[r].payload, action |-> "STATUS"]] = "NONE"
  /\ request[r].step = "answered" /\ request[r].ok /\ request[r].leg = "COMMENT" =>
       Intent(r) \in posted
  /\ request[r].step = "call" => Intent(r) \notin posted
  /\ request[r].step = "answered" /\ ~ request[r].ok => Intent(r) \notin posted \ doubted

\* Of the writes with one key, one holds it: what the partial unique index is for.
KeyHasOneHolder ==
  \A i, j \in Intents : log[i] \in Holds /\ log[j] \in Holds /\ Key(i) = Key(j) => i = j

\* The inductive invariant.
WriteInv ==
  /\ Typed /\ OneServer /\ (\A r \in Requests : LogFollows(r))
  /\ KeyHasOneHolder /\ LogTellsTheTruth
----------------------------------------------------------------------------
LEMMA WriteInit == Init => WriteInv
<1> SUFFICES ASSUME Init PROVE WriteInv
  OBVIOUS
<1>1. \A r \in Requests : /\ request[r] \in RequestRow /\ request[r].step = "idle"
                          /\ request[r].leg = "COMMENT"
  <2> TAKE r \in Requests
  <2>1. PICK p \in Payloads :
          request[r] = [step |-> "idle", payload |-> p, leg |-> "COMMENT", ok |-> FALSE,
                        reply |-> "none"]
    BY DEF Init
  <2>2. QED
    BY <2>1 DEF RequestRow, Steps, Legs, Replies
<1>2. request \in [Requests -> RequestRow]
  BY <1>1 DEF Init
<1>3. Typed
  BY <1>2 DEF Init, Typed, Statuses
<1>4. OneServer /\ \A r \in Requests : LogFollows(r)
  BY <1>1 DEF OneServer, LogFollows, Served
<1>5. KeyHasOneHolder /\ LogTellsTheTruth
  BY DEF Init, KeyHasOneHolder, LogTellsTheTruth, Holds, Intents
<1>6. QED
  BY <1>3, <1>4, <1>5 DEF WriteInv

\* A request that goes on touches its own row, at most its own intent in the log
\* and on the host, and at most adds its decision.
LEMMA RequestGoesOn ==
  ASSUME WriteInv, NEW r \in Requests, NEW x \in RequestRow,
         request' = [request EXCEPT ![r] = x], x.payload = request[r].payload,
         decided \subseteq decided', decided' \subseteq Payloads,
         remembered \subseteq remembered', remembered' \subseteq decided',
         x.step \in {"recorded", "claim", "call", "answered"} =>
           x.payload \in decided' /\ (Served(r) \/ x.payload \notin decided),
         log' \in [Intents -> Statuses], \A i \in Intents \ {Intent(r)} : log'[i] = log[i],
         Served(r) \/ log' = log,
         posted \subseteq posted', posted' \subseteq Intents,
         \A i \in posted' : i \in posted \/ (Served(r) /\ i = Intent(r)),
         \A i \in posted' \ doubted' : i \in posted \ doubted \/ (Served(r) /\ i = Intent(r)),
         LogFollows(r)', KeyHasOneHolder', LogTellsTheTruth'
  PROVE  WriteInv'
<1>0. Typed /\ OneServer /\ \A s \in Requests : LogFollows(s)
  BY DEF WriteInv
<1>1. request'[r] = x /\ \A s \in Requests \ {r} : request'[s] = request[s]
  BY <1>0 DEF Typed
<1>2. Typed'
  BY <1>0 DEF Typed
<1>3. OneServer'
  BY <1>0, <1>1 DEF OneServer, Served
<1>4. ASSUME NEW s \in Requests \ {r} PROVE LogFollows(s)'
  <2>1. Intent(s)' = Intent(s) /\ request'[s] = request[s] /\ LogFollows(s)
    BY <1>0, <1>1 DEF Intent
  <2>2. request[s] \in RequestRow
    BY <1>0 DEF Typed
  <2>3. \A leg \in Legs : [of |-> request[s].payload, action |-> leg] \in Intents
    BY <2>2 DEF RequestRow, Intents
  <2>4. Served(s) => \A i \in Intents : i.of = request[s].payload => log'[i] = log[i]
    <3> SUFFICES ASSUME Served(s), Served(r), NEW i \in Intents, i.of = request[s].payload
                 PROVE  i # Intent(r)
      OBVIOUS
    <3>1. request[s].payload # request[r].payload
      BY <1>0 DEF OneServer
    <3>2. QED
      BY <3>1 DEF Intent
  <2>5. Served(s) => /\ log'[Intent(s)] = log[Intent(s)]
                     /\ log'[[of |-> request[s].payload, action |-> "STATUS"]]
                          = log[[of |-> request[s].payload, action |-> "STATUS"]]
    BY <2>2, <2>3, <2>4 DEF Intent, RequestRow, Legs
  <2>6. Served(s) => /\ Intent(s) \in posted' => Intent(s) \in posted
                     /\ Intent(s) \in posted' \ doubted' => Intent(s) \in posted \ doubted
    <3> SUFFICES ASSUME Served(s), Served(r) PROVE Intent(s) # Intent(r)
      OBVIOUS
    <3>1. request[s].payload # request[r].payload
      BY <1>0 DEF OneServer
    <3>2. QED
      BY <3>1 DEF Intent
  <2>7. QED
    BY <2>1, <2>4, <2>5, <2>6 DEF LogFollows, Served
<1>5. QED
  BY <1>2, <1>3, <1>4 DEF WriteInv

\* A request's row with another step, leg and outcome.
LEMMA RowEdited ==
  ASSUME NEW row \in RequestRow, NEW step \in Steps, NEW leg \in Legs, NEW ok \in BOOLEAN,
         NEW reply \in Replies
  PROVE  /\ [row EXCEPT !.step = step] \in RequestRow
         /\ [row EXCEPT !.step = step, !.reply = reply] \in RequestRow
         /\ [row EXCEPT !.step = step, !.ok = ok] \in RequestRow
         /\ [row EXCEPT !.leg = leg, !.step = step] \in RequestRow
         /\ [row EXCEPT !.ok = ok] \in RequestRow
BY DEF RequestRow

LEMMA GotoRow ==
  ASSUME Typed, NEW r \in Requests, NEW step \in Steps, Goto(r, step)
  PROVE  \E x \in RequestRow :
           /\ request' = [request EXCEPT ![r] = x]
           /\ x.payload = request[r].payload /\ x.step = step /\ x.leg = request[r].leg
<1>1. PICK row \in RequestRow : row = request[r]
  BY DEF Typed
<1>2. [row EXCEPT !.step = step] \in RequestRow
  BY RowEdited DEF Legs, Replies
<1>3. request' = [request EXCEPT ![r] = [row EXCEPT !.step = step]]
  BY <1>1 DEF Goto
<1>4. QED
  BY <1>1, <1>2, <1>3 DEF RequestRow

LEMMA AnswerRow ==
  ASSUME Typed, NEW r \in Requests, NEW reply \in Replies, Answer(r, reply)
  PROVE  \E x \in RequestRow :
           /\ request' = [request EXCEPT ![r] = x]
           /\ x.payload = request[r].payload /\ x.step = "done"
<1>1. PICK row \in RequestRow : row = request[r]
  BY DEF Typed
<1>2. [row EXCEPT !.step = "done", !.reply = reply] \in RequestRow
  BY RowEdited DEF Legs, Steps
<1>3. request' = [request EXCEPT ![r] = [row EXCEPT !.step = "done", !.reply = reply]]
  BY <1>1 DEF Answer
<1>4. QED
  BY <1>1, <1>2, <1>3 DEF RequestRow

\* After the comment comes the status, after the status the reply.
LEMMA NextLegRow ==
  ASSUME Typed, NEW r \in Requests, NextLeg(r)
  PROVE  \E x \in RequestRow :
           /\ request' = [request EXCEPT ![r] = x]
           /\ x.payload = request[r].payload
           /\ \/ request[r].leg = "COMMENT" /\ x.leg = "STATUS" /\ x.step = "claim"
              \/ x.step = "done"
<1>1. PICK row \in RequestRow : row = request[r]
  BY DEF Typed
<1>2. CASE row.leg = "COMMENT"
  <2>1. [row EXCEPT !.leg = "STATUS", !.step = "claim"] \in RequestRow
    BY RowEdited DEF Legs, Steps, Replies
  <2>2. request' = [request EXCEPT ![r] = [row EXCEPT !.leg = "STATUS", !.step = "claim"]]
    BY <1>1, <1>2 DEF NextLeg
  <2>3. QED
    BY <1>1, <1>2, <2>1, <2>2 DEF RequestRow
<1>3. CASE row.leg # "COMMENT"
  <2>1. [row EXCEPT !.step = "done", !.reply = "200"] \in RequestRow
    BY RowEdited DEF Legs, Steps, Replies
  <2>2. request' = [request EXCEPT ![r] = [row EXCEPT !.step = "done", !.reply = "200"]]
    BY <1>1, <1>3 DEF NextLeg
  <2>3. QED
    BY <1>1, <2>1, <2>2 DEF RequestRow
<1>4. QED
  BY <1>2, <1>3

\* What a request writes, it writes under one of the intents.
LEMMA IntentTyped ==
  ASSUME Typed, NEW r \in Requests
  PROVE  /\ Intent(r) \in Intents
         /\ Intent(r).of = request[r].payload /\ Intent(r).action = request[r].leg
BY DEF Typed, Intent, Intents, RequestRow
----------------------------------------------------------------------------
LEMMA ReceiveKeeps == ASSUME WriteInv, NEW r \in Requests, Receive(r) PROVE WriteInv'
<1>0. Typed /\ LogFollows(r) /\ KeyHasOneHolder /\ LogTellsTheTruth
  BY DEF WriteInv
<1>1. UNCHANGED <<decided, remembered, log, posted, doubted>> /\ KeyHasOneHolder'
      /\ LogTellsTheTruth'
  BY <1>0 DEF Receive, KeyHasOneHolder, LogTellsTheTruth
<1>2. PICK x \in RequestRow :
        /\ request' = [request EXCEPT ![r] = x] /\ x.payload = request[r].payload
        /\ x.step = "done" \/ (x.step = "unseen" /\ x.leg = request[r].leg)
  BY <1>0, GotoRow, AnswerRow DEF Receive, Steps, Replies
<1>3. request'[r] = x
  BY <1>0, <1>2 DEF Typed
<1>4. LogFollows(r)'
  BY <1>0, <1>2, <1>3 DEF LogFollows, Receive, At
<1>5. QED
  BY <1>0, <1>1, <1>2, <1>4, RequestGoesOn DEF Typed

LEMMA RecordKeeps == ASSUME WriteInv, NEW r \in Requests, Record(r) PROVE WriteInv'
<1>0. Typed /\ LogFollows(r) /\ KeyHasOneHolder /\ LogTellsTheTruth
  BY DEF WriteInv
<1>1. UNCHANGED <<remembered, log, posted, doubted>> /\ KeyHasOneHolder' /\ LogTellsTheTruth'
  BY <1>0 DEF Record, KeyHasOneHolder, LogTellsTheTruth
<1>2. decided' = decided \cup {request[r].payload} /\ request[r].payload \in Payloads
  BY <1>0 DEF Record, Insert, Typed, RequestRow
<1>3. PICK x \in RequestRow :
        /\ request' = [request EXCEPT ![r] = x] /\ x.payload = request[r].payload
        /\ \/ x.step = "done"
           \/ x.step = "recorded" /\ x.leg = request[r].leg /\ request[r].payload \notin decided
  BY <1>0, GotoRow, AnswerRow DEF Record, Steps, Replies
<1>4. request'[r] = x
  BY <1>0, <1>3 DEF Typed
<1>5. request[r].payload \notin decided =>
        \A i \in Intents : i.of = request[r].payload => log[i] = "NONE"
  BY <1>0 DEF LogTellsTheTruth, Typed
<1>6. LogFollows(r)'
  BY <1>0, <1>1, <1>3, <1>4, <1>5 DEF LogFollows, Record, At
<1>7. QED
  BY <1>0, <1>1, <1>2, <1>3, <1>6, RequestGoesOn DEF Typed

LEMMA AnnounceKeeps == ASSUME WriteInv, NEW r \in Requests, Announce(r) PROVE WriteInv'
<1>0. Typed /\ OneServer /\ LogFollows(r) /\ KeyHasOneHolder /\ LogTellsTheTruth
  BY DEF WriteInv
<1>1. UNCHANGED <<decided, log, posted, doubted>> /\ KeyHasOneHolder'
  BY <1>0 DEF Announce, KeyHasOneHolder
<1>2. /\ remembered' = remembered \cup {request[r].payload} /\ Served(r)
      /\ request[r].payload \in decided /\ request[r].step = "recorded"
  BY <1>0 DEF Announce, OneServer, Served, At
<1>3. LogTellsTheTruth'
  BY <1>0, <1>1, <1>2 DEF LogTellsTheTruth
<1>4. PICK x \in RequestRow :
        /\ request' = [request EXCEPT ![r] = x] /\ x.payload = request[r].payload
        /\ \/ x.step = "done"
           \/ x.step = "claim" /\ x.leg = request[r].leg /\ WritesBack(request[r].payload)
  BY <1>0, GotoRow, AnswerRow DEF Announce, Steps, Replies
<1>5. request'[r] = x
  BY <1>0, <1>4 DEF Typed
<1>6. /\ log[Intent(r)] = "NONE"
      /\ log[[of |-> request[r].payload, action |-> "STATUS"]] = "NONE"
  <2>1. [of |-> request[r].payload, action |-> "STATUS"] \in Intents
    BY <1>0 DEF Typed, RequestRow, Intents, Legs
  <2>2. QED
    BY <1>0, <1>2, <2>1, IntentTyped DEF LogFollows
<1>7. LogFollows(r)'
  BY <1>1, <1>2, <1>4, <1>5, <1>6 DEF LogFollows, Intent
<1>8. QED
  BY <1>0, <1>1, <1>2, <1>3, <1>4, <1>7, RequestGoesOn DEF Typed

LEMMA ClaimKeeps == ASSUME WriteInv, NEW r \in Requests, Claim(r) PROVE WriteInv'
<1>0. Typed /\ LogFollows(r) /\ KeyHasOneHolder /\ LogTellsTheTruth
  BY DEF WriteInv
<1>1. /\ UNCHANGED <<decided, remembered, posted, doubted>> /\ request[r].step = "claim" /\ Served(r)
      /\ log[Intent(r)] = "NONE" /\ request[r].payload \in remembered
      /\ WritesBack(request[r].payload)
  BY <1>0 DEF Claim, At, LogFollows, Served
<1>2. Intent(r) \in Intents /\ Intent(r).of = request[r].payload /\ Intent(r) \notin posted
  BY <1>0, <1>1, IntentTyped DEF LogTellsTheTruth
<1>3. CASE ~ Held(Intent(r)) /\ log' = [log EXCEPT ![Intent(r)] = "PENDING"] /\ Goto(r, "call")
  <2>1. /\ log'[Intent(r)] = "PENDING" /\ \A i \in Intents \ {Intent(r)} : log'[i] = log[i]
        /\ log' \in [Intents -> Statuses]
    BY <1>0, <1>2, <1>3 DEF Typed, Statuses
  <2>2. KeyHasOneHolder'
    <3>1. \A j \in Intents \ {Intent(r)} : log[j] \in Holds => Key(j) # Key(Intent(r))
      BY <1>3 DEF Held
    <3>2. QED
      BY <1>0, <1>2, <2>1, <3>1 DEF KeyHasOneHolder
  <2>3. LogTellsTheTruth'
    BY <1>0, <1>1, <1>2, <2>1 DEF LogTellsTheTruth, WritesBack
  <2>4. PICK x \in RequestRow :
          /\ request' = [request EXCEPT ![r] = x] /\ x.payload = request[r].payload
          /\ x.step = "call" /\ x.leg = request[r].leg
    BY <1>0, <1>3, GotoRow DEF Steps
  <2>5. request'[r] = x /\ Intent(r)' = Intent(r)
    BY <1>0, <2>4 DEF Typed, Intent
  <2>6. request[r].leg = "COMMENT" =>
          log'[[of |-> request[r].payload, action |-> "STATUS"]] = "NONE"
    <3>1. SUFFICES ASSUME request[r].leg = "COMMENT"
                   PROVE  log'[[of |-> request[r].payload, action |-> "STATUS"]] = "NONE"
      OBVIOUS
    <3>2. [of |-> request[r].payload, action |-> "STATUS"] \in Intents \ {Intent(r)}
      BY <1>0, <3>1 DEF Typed, RequestRow, Intents, Legs, Intent
    <3>3. QED
      BY <1>0, <1>1, <2>1, <3>1, <3>2 DEF LogFollows
  <2>7. LogFollows(r)'
    BY <1>1, <1>2, <2>1, <2>4, <2>5, <2>6 DEF LogFollows
  <2>8. QED
    BY <1>0, <1>1, <2>1, <2>2, <2>3, <2>4, <2>7, RequestGoesOn DEF Typed, Served, OneServer, WriteInv
<1>4. CASE Held(Intent(r)) /\ log' = [log EXCEPT ![Intent(r)] = "DUPLICATE"] /\ NextLeg(r)
  <2>1. /\ log'[Intent(r)] = "DUPLICATE" /\ \A i \in Intents \ {Intent(r)} : log'[i] = log[i]
        /\ log' \in [Intents -> Statuses]
    BY <1>0, <1>2, <1>4 DEF Typed, Statuses
  <2>2. KeyHasOneHolder'
    BY <1>0, <2>1 DEF KeyHasOneHolder, Holds
  <2>3. LogTellsTheTruth'
    BY <1>0, <1>1, <1>2, <2>1 DEF LogTellsTheTruth, WritesBack
  <2>4. PICK x \in RequestRow :
          /\ request' = [request EXCEPT ![r] = x] /\ x.payload = request[r].payload
          /\ \/ request[r].leg = "COMMENT" /\ x.leg = "STATUS" /\ x.step = "claim"
             \/ x.step = "done"
    BY <1>0, <1>4, NextLegRow
  <2>5. request'[r] = x
    BY <1>0, <2>4 DEF Typed
  <2>6. LogFollows(r)'
    <3>1. CASE x.step = "done"
      BY <2>5, <3>1 DEF LogFollows
    <3>2. CASE request[r].leg = "COMMENT" /\ x.leg = "STATUS" /\ x.step = "claim"
      <4>1. Intent(r)' = [of |-> request[r].payload, action |-> "STATUS"]
        BY <2>4, <2>5, <3>2 DEF Intent
      <4>2. [of |-> request[r].payload, action |-> "STATUS"] \in Intents \ {Intent(r)}
        BY <1>0, <3>2 DEF Typed, RequestRow, Intents, Legs, Intent
      <4>3. log'[Intent(r)'] = "NONE"
        BY <1>0, <1>1, <2>1, <3>2, <4>1, <4>2 DEF LogFollows
      <4>4. QED
        BY <1>1, <2>4, <2>5, <3>2, <4>3 DEF LogFollows
    <3>3. QED
      BY <2>4, <3>1, <3>2
  <2>7. QED
    BY <1>0, <1>1, <2>1, <2>2, <2>3, <2>4, <2>6, RequestGoesOn DEF Typed, Served, OneServer, WriteInv
<1>5. QED
  BY <1>3, <1>4 DEF Claim

LEMMA OptedOutKeeps == ASSUME WriteInv, NEW r \in Requests, OptedOut(r) PROVE WriteInv'
<1>0. Typed /\ LogFollows(r) /\ KeyHasOneHolder /\ LogTellsTheTruth
  BY DEF WriteInv
<1>1. /\ UNCHANGED <<decided, remembered, log, posted, doubted>> /\ KeyHasOneHolder'
      /\ LogTellsTheTruth' /\ request[r].step = "claim" /\ Served(r)
  BY <1>0 DEF OptedOut, At, KeyHasOneHolder, LogTellsTheTruth, Served
<1>2. PICK x \in RequestRow :
        /\ request' = [request EXCEPT ![r] = x] /\ x.payload = request[r].payload
        /\ \/ request[r].leg = "COMMENT" /\ x.leg = "STATUS" /\ x.step = "claim"
           \/ x.step = "done"
  BY <1>0, NextLegRow DEF OptedOut
<1>3. request'[r] = x
  BY <1>0, <1>2 DEF Typed
<1>4. LogFollows(r)'
  <2>1. CASE x.step = "done"
    BY <1>3, <2>1 DEF LogFollows
  <2>2. CASE request[r].leg = "COMMENT" /\ x.leg = "STATUS" /\ x.step = "claim"
    <3>1. Intent(r)' = [of |-> request[r].payload, action |-> "STATUS"]
      BY <1>2, <1>3, <2>2 DEF Intent
    <3>2. log'[Intent(r)'] = "NONE"
      BY <1>0, <1>1, <2>2, <3>1 DEF LogFollows
    <3>3. QED
      BY <1>0, <1>1, <1>2, <1>3, <2>2, <3>2 DEF LogFollows
  <2>3. QED
    BY <1>2, <2>1, <2>2
<1>5. QED
  BY <1>0, <1>1, <1>2, <1>4, RequestGoesOn DEF Typed, Served, OneServer, WriteInv

LEMMA ClaimFaultKeeps == ASSUME WriteInv, NEW r \in Requests, ClaimFault(r) PROVE WriteInv'
<1>0. Typed /\ KeyHasOneHolder /\ LogTellsTheTruth
  BY DEF WriteInv
<1>1. /\ UNCHANGED <<decided, remembered, log, posted, doubted>> /\ KeyHasOneHolder'
      /\ LogTellsTheTruth'
  BY <1>0 DEF ClaimFault, KeyHasOneHolder, LogTellsTheTruth
<1>2. PICK x \in RequestRow :
        /\ request' = [request EXCEPT ![r] = x] /\ x.payload = request[r].payload
        /\ x.step = "done"
  BY <1>0, AnswerRow DEF ClaimFault, Replies
<1>3. LogFollows(r)'
  BY <1>0, <1>2 DEF Typed, LogFollows
<1>4. QED
  BY <1>0, <1>1, <1>2, <1>3, RequestGoesOn DEF Typed

LEMMA CallKeeps == ASSUME WriteInv, NEW r \in Requests, Call(r) PROVE WriteInv'
<1>0. Typed /\ LogFollows(r) /\ KeyHasOneHolder /\ LogTellsTheTruth
  BY DEF WriteInv
<1>1. /\ UNCHANGED <<decided, remembered, log>> /\ KeyHasOneHolder' /\ Served(r)
      /\ request[r].step = "call" /\ log[Intent(r)] = "PENDING"
  BY <1>0 DEF Call, At, KeyHasOneHolder, LogFollows, Served
<1>2. Intent(r) \in Intents /\ Intent(r).action = request[r].leg
  BY <1>0, IntentTyped
<1>3. PICK ok \in BOOLEAN :
        /\ request' = [request EXCEPT ![r].step = "answered", ![r].ok = ok]
        /\ posted' \in {posted, posted \cup {Intent(r)}}
        /\ posted' \ doubted' \subseteq (posted \ doubted) \cup {Intent(r)}
        /\ ok /\ request[r].leg = "COMMENT" => Intent(r) \in posted'
        /\ ~ ok => Intent(r) \notin posted' \ doubted'
  <2>1. Intent(r) \notin posted
    BY <1>0, <1>1 DEF LogFollows
  <2>2. QED
    BY <1>2, <2>1 DEF Call
<1>4. LogTellsTheTruth'
  BY <1>0, <1>1, <1>3 DEF LogTellsTheTruth
<1>5. PICK x \in RequestRow :
        /\ request' = [request EXCEPT ![r] = x] /\ x.payload = request[r].payload
        /\ x.step = "answered" /\ x.leg = request[r].leg /\ x.ok = ok
  <2>1. PICK row \in RequestRow : row = request[r]
    BY <1>0 DEF Typed
  <2>2. [row EXCEPT !.step = "answered", !.ok = ok] \in RequestRow
    BY RowEdited DEF Legs, Steps, Replies
  <2>3. request' = [request EXCEPT ![r] = [row EXCEPT !.step = "answered", !.ok = ok]]
    BY <1>3, <2>1
  <2>4. QED
    BY <2>1, <2>2, <2>3 DEF RequestRow
<1>6. request'[r] = x /\ Intent(r)' = Intent(r)
  BY <1>0, <1>5 DEF Typed, Intent
<1>7. LogFollows(r)'
  BY <1>0, <1>1, <1>3, <1>5, <1>6 DEF LogFollows
<1>8. QED
  BY <1>0, <1>1, <1>2, <1>3, <1>4, <1>5, <1>7, RequestGoesOn DEF Typed, Served, OneServer, WriteInv

LEMMA FinalizeKeeps == ASSUME WriteInv, NEW r \in Requests, Finalize(r) PROVE WriteInv'
<1>0. Typed /\ LogFollows(r) /\ KeyHasOneHolder /\ LogTellsTheTruth
  BY DEF WriteInv
<1>1. /\ UNCHANGED <<decided, remembered, posted, doubted>> /\ request[r].step = "answered" /\ Served(r)
      /\ log[Intent(r)] = "PENDING" /\ request[r].payload \in remembered
      /\ WritesBack(request[r].payload) /\ NextLeg(r)
  BY <1>0 DEF Finalize, At, LogFollows, Served
<1>2. Intent(r) \in Intents /\ Intent(r).of = request[r].payload
      /\ Intent(r).action = request[r].leg
  BY <1>0, IntentTyped
<1>3. ~ Held(Intent(r))
  BY <1>0, <1>1, <1>2 DEF Held, KeyHasOneHolder, Holds
<1>4. PICK s \in {"FAILED", "SUCCEEDED"} :
        /\ log' = [log EXCEPT ![Intent(r)] = s]
        /\ s = (IF request[r].ok THEN "SUCCEEDED" ELSE "FAILED")
  BY <1>3 DEF Finalize
<1>5. /\ log'[Intent(r)] = s /\ \A i \in Intents \ {Intent(r)} : log'[i] = log[i]
      /\ log' \in [Intents -> Statuses]
  BY <1>0, <1>2, <1>4 DEF Typed, Statuses
<1>6. KeyHasOneHolder'
  BY <1>0, <1>1, <1>2, <1>5 DEF KeyHasOneHolder, Holds
<1>7. s = "SUCCEEDED" /\ Intent(r).action = "COMMENT" => Intent(r) \in posted
  BY <1>0, <1>1, <1>2, <1>4 DEF LogFollows
<1>8. s = "FAILED" => Intent(r) \notin posted \ doubted
  BY <1>0, <1>1, <1>4 DEF LogFollows
<1>13. LogTellsTheTruth'
  BY <1>0, <1>1, <1>2, <1>5, <1>7, <1>8 DEF LogTellsTheTruth, WritesBack
<1>9. PICK x \in RequestRow :
        /\ request' = [request EXCEPT ![r] = x] /\ x.payload = request[r].payload
        /\ \/ request[r].leg = "COMMENT" /\ x.leg = "STATUS" /\ x.step = "claim"
           \/ x.step = "done"
  BY <1>0, <1>1, NextLegRow
<1>10. request'[r] = x
  BY <1>0, <1>9 DEF Typed
<1>11. LogFollows(r)'
  <2>1. CASE x.step = "done"
    BY <1>10, <2>1 DEF LogFollows
  <2>2. CASE request[r].leg = "COMMENT" /\ x.leg = "STATUS" /\ x.step = "claim"
    <3>1. Intent(r)' = [of |-> request[r].payload, action |-> "STATUS"]
      BY <1>9, <1>10, <2>2 DEF Intent
    <3>2. [of |-> request[r].payload, action |-> "STATUS"] \in Intents \ {Intent(r)}
      BY <1>0, <2>2 DEF Typed, RequestRow, Intents, Legs, Intent
    <3>3. log'[Intent(r)'] = "NONE"
      BY <1>0, <1>1, <1>5, <2>2, <3>1, <3>2 DEF LogFollows
    <3>4. QED
      BY <1>1, <1>9, <1>10, <2>2, <3>3 DEF LogFollows
  <2>3. QED
    BY <1>9, <2>1, <2>2
<1>12. QED
  BY <1>0, <1>1, <1>5, <1>6, <1>13, <1>9, <1>11, RequestGoesOn DEF Typed, Served, OneServer, WriteInv

LEMMA FinalizeFaultKeeps == ASSUME WriteInv, NEW r \in Requests, FinalizeFault(r) PROVE WriteInv'
<1>0. Typed /\ LogFollows(r) /\ KeyHasOneHolder /\ LogTellsTheTruth
  BY DEF WriteInv
<1>1. /\ UNCHANGED <<decided, remembered, log, posted>> /\ KeyHasOneHolder' /\ LogTellsTheTruth'
      /\ request[r].step = "answered" /\ Served(r) /\ posted' \ doubted' \subseteq posted \ doubted
      /\ Intent(r) \notin posted' \ doubted'
  BY <1>0 DEF FinalizeFault, At, KeyHasOneHolder, LogTellsTheTruth, Served, LogFollows
<1>2. PICK x \in RequestRow :
        /\ request' = [request EXCEPT ![r] = x] /\ x.payload = request[r].payload
        /\ x.step = "done" \/ (x.step = "answered" /\ x.leg = request[r].leg /\ ~ x.ok)
  <2>1. CASE request[r].ok
    <3>1. PICK row \in RequestRow : row = request[r]
      BY <1>0 DEF Typed
    <3>2. [row EXCEPT !.ok = FALSE] \in RequestRow
      BY RowEdited DEF Legs, Steps, Replies
    <3>3. request' = [request EXCEPT ![r] = [row EXCEPT !.ok = FALSE]]
      BY <2>1, <3>1 DEF FinalizeFault, AfterFault
    <3>4. QED
      BY <1>1, <3>1, <3>2, <3>3 DEF RequestRow
  <2>2. CASE ~ request[r].ok
    BY <1>0, <2>2, AnswerRow DEF FinalizeFault, AfterFault, Replies
  <2>3. QED
    BY <2>1, <2>2
<1>3. request'[r] = x
  BY <1>0, <1>2 DEF Typed
<1>4. LogFollows(r)'
  BY <1>0, <1>1, <1>2, <1>3 DEF LogFollows, Intent
<1>5. QED
  BY <1>0, <1>1, <1>2, <1>4, RequestGoesOn DEF Typed, Served, OneServer, WriteInv

\* A cut-off request is done; its intents stay as they are in the log.
LEMMA CrashKeeps == ASSUME WriteInv, Crash PROVE WriteInv'
<1>0. Typed /\ OneServer /\ (\A r \in Requests : LogFollows(r)) /\ KeyHasOneHolder
      /\ LogTellsTheTruth
  BY DEF WriteInv
<1>1. UNCHANGED <<decided, remembered, log, posted, doubted>>
  BY DEF Crash
<1> DEFINE New(r) == IF At(r, "idle") \/ At(r, "done") THEN request[r]
                     ELSE [request[r] EXCEPT !.step = "done"]
<1>2. ASSUME NEW r \in Requests
      PROVE  /\ New(r) \in RequestRow /\ New(r).payload = request[r].payload
             /\ New(r) = request[r] \/ New(r).step = "done"
  <2>1. PICK row \in RequestRow : row = request[r]
    BY <1>0 DEF Typed
  <2>2. [row EXCEPT !.step = "done"] \in RequestRow
    BY RowEdited DEF Legs, Steps, Replies
  <2>3. QED
    BY <2>1, <2>2 DEF RequestRow
<1>3. request' = [r \in Requests |-> New(r)]
  BY DEF Crash
<1> HIDE DEF New
<1>4. Typed'
  BY <1>0, <1>1, <1>2, <1>3 DEF Typed
<1>5. OneServer'
  BY <1>0, <1>1, <1>2, <1>3 DEF OneServer, Served
<1>6. ASSUME NEW r \in Requests PROVE LogFollows(r)'
  <2>1. request'[r] = New(r)
    BY <1>3
  <2>2. CASE New(r) = request[r]
    BY <1>0, <1>1, <2>1, <2>2 DEF LogFollows, Intent
  <2>3. CASE New(r).step = "done"
    BY <2>1, <2>3 DEF LogFollows
  <2>4. QED
    BY <1>2, <2>2, <2>3
<1>7. KeyHasOneHolder' /\ LogTellsTheTruth'
  BY <1>0, <1>1 DEF KeyHasOneHolder, LogTellsTheTruth
<1>8. QED
  BY <1>4, <1>5, <1>6, <1>7 DEF WriteInv
----------------------------------------------------------------------------
LEMMA WriteNext == WriteInv /\ [Next]_vars => WriteInv'
<1> SUFFICES ASSUME WriteInv, [Next]_vars PROVE WriteInv'
  OBVIOUS
<1>1. ASSUME NEW r \in Requests, Serve(r) PROVE WriteInv'
  BY <1>1, ReceiveKeeps, RecordKeeps, AnnounceKeeps, OptedOutKeeps, ClaimKeeps,
     ClaimFaultKeeps, CallKeeps, FinalizeKeeps, FinalizeFaultKeeps DEF Serve
<1>2. CASE Crash
  BY <1>2, CrashKeeps
<1>3. CASE UNCHANGED vars
  BY <1>3 DEF vars, WriteInv, Typed, OneServer, Served, LogFollows, Intent, KeyHasOneHolder,
              LogTellsTheTruth
<1>4. QED
  BY <1>1, <1>2, <1>3 DEF Next

LEMMA WriteAlways == Spec => []WriteInv
BY WriteInit, WriteNext, PTL DEF Spec

\* A comment the log calls SUCCEEDED is on the host, one it calls DUPLICATE or
\* does not know is not, and only recorded decisions with the toggle on are
\* written, whatever requests race, answers are lost and processes end.
THEOREM LogIsTrue == Spec => []LogTellsTheTruth
<1>1. WriteInv => LogTellsTheTruth
  BY DEF WriteInv
<1>2. QED
  BY <1>1, WriteAlways, PTL

\* The partial unique index does its work: no two claims of one write are live
\* at once.
THEOREM ClaimsAreExclusive == Spec => []KeyHasOneHolder
<1>1. WriteInv => KeyHasOneHolder
  BY DEF WriteInv
<1>2. QED
  BY <1>1, WriteAlways, PTL

\* The host sees each distinct write once but for those whose success was taken
\* for a failure, for any requests, whatever answers are lost, statements fail
\* and processes end: a write that is not in doubt holds its key for good.
THEOREM RepeatsInDoubt == Spec => []RepeatsAreInDoubt
<1>1. WriteInv => RepeatsAreInDoubt
  <2> SUFFICES ASSUME WriteInv PROVE RepeatsAreInDoubt
    OBVIOUS
  <2>1. \A i \in posted \ doubted : i \in Intents /\ log[i] \in Holds
    BY DEF WriteInv, Typed, LogTellsTheTruth, Statuses, Holds
  <2>2. QED
    BY <2>1 DEF WriteInv, KeyHasOneHolder, RepeatsAreInDoubt
<1>2. QED
  BY <1>1, WriteAlways, PTL
=============================================================================
