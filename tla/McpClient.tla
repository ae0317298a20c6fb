------------------------------ MODULE McpClient ------------------------------
(***************************************************************************)
(* McpServerRegistry, McpClientImpl and the stdio transport for one        *)
(* configured server: a call gets the shared client, or starts a server    *)
(* process of its own when it finds none, sends one request and waits for  *)
(* its answer, its timer, the end of the process or closeAll.              *)
(***************************************************************************)
EXTENDS Naturals, FiniteSets

CONSTANT Calls  \* registry.get followed by one request, each

ASSUME CallsAssumption == IsFiniteSet(Calls)

VARIABLES
  shared,   \* the registry's client for the server, or 0
  head,     \* client -> "none", "open" or "closed"
  process,  \* client -> its server process: "none", "running" or "gone"
  nextId,   \* client -> next JSON-RPC id
  pending,  \* client -> its table of waiting requests
  asked,    \* client -> requests its server has received and not answered
  call,     \* call -> how far it is: step and the client it uses
  outcome,  \* call -> "none", "refused", or the call whose answer it was given
  closing   \* closeAll: "no", "closing" or "done"

mcpVars == <<shared, head, process, nextId, pending, asked, call, outcome, closing>>

Clients == 1..Cardinality(Calls)

\* A request, identified on the wire by its id alone.
Request == [id : Nat, of : Calls]

McpInit ==
  /\ shared = 0
  /\ head = [k \in Clients |-> "none"]
  /\ process = [k \in Clients |-> "none"]
  /\ nextId = [k \in Clients |-> 1]
  /\ pending = [k \in Clients |-> {}]
  /\ asked = [k \in Clients |-> {}]
  /\ call = [c \in Calls |-> [step |-> "idle", on |-> 0]]
  /\ outcome = [c \in Calls |-> "none"]
  /\ closing = "no"

At(c, step) == call[c].step = step

\* Get returns the shared client, live or not, or spawns a server process.
Get(c) ==
  /\ At(c, "idle")
  /\ \/ /\ shared # 0
        /\ call' = [call EXCEPT ![c] = [step |-> "ready", on |-> shared]]
        /\ UNCHANGED process
     \/ /\ shared = 0
        /\ \E k \in Clients :
             /\ process[k] = "none" /\ \A j \in Clients : j < k => process[j] # "none"
             /\ process' = [process EXCEPT ![k] = "running"]
             /\ call' = [call EXCEPT ![c] = [step |-> "starting", on |-> k]]
  /\ UNCHANGED <<shared, head, nextId, pending, asked, outcome, closing>>

\* After the awaited start the client is built and stored under the name.
Connected(c) ==
  /\ At(c, "starting")
  /\ call' = [call EXCEPT ![c].step = "ready"]
  /\ head' = [head EXCEPT ![call[c].on] = "open"]
  /\ shared' = call[c].on
  /\ UNCHANGED <<process, nextId, pending, asked, outcome, closing>>

\* Settling a promise; a second settlement has no effect.
Settle(calls, result) ==
  /\ outcome' = [c \in Calls |-> IF c \in calls THEN result ELSE outcome[c]]
  /\ call' = [c \in Calls |-> IF c \in calls THEN [call[c] EXCEPT !.step = "done"] ELSE call[c]]

\* Mutant: an id is free again when its request is no longer waiting.
FreeId(k) == Cardinality(pending[k]) + 1

FreshId(k) == nextId[k]

\* A closed client, and a transport whose process is gone, refuse at once.
Send(c) ==
  LET k == call[c].on IN
  /\ At(c, "ready") /\ head[k] = "open" /\ process[k] = "running"
  /\ nextId' = [nextId EXCEPT ![k] = @ + 1]
  /\ pending' = [pending EXCEPT ![k] = @ \cup {[id |-> FreshId(k), of |-> c]}]
  /\ asked' = [asked EXCEPT ![k] = @ \cup {[id |-> FreshId(k), of |-> c]}]
  /\ call' = [call EXCEPT ![c].step = "waiting"]
  /\ UNCHANGED <<shared, head, process, outcome, closing>>

Refuse(c) ==
  LET k == call[c].on IN
  /\ At(c, "ready") /\ (head[k] = "closed" \/ process[k] = "gone")
  /\ nextId' = IF head[k] = "open" THEN [nextId EXCEPT ![k] = @ + 1] ELSE nextId
  /\ Settle({c}, "refused")
  /\ UNCHANGED <<shared, head, process, pending, asked, closing>>

\* The server answers a request, perhaps after its caller gave up; the answer
\* settles whatever request waits under its id.
Answer(k, r) ==
  LET heard == {w \in pending[k] : w.id = r.id} IN
  /\ r \in asked[k] /\ process[k] = "running"
  /\ asked' = [asked EXCEPT ![k] = @ \ {r}]
  /\ pending' = [pending EXCEPT ![k] = @ \ heard]
  /\ Settle({w.of : w \in heard}, r.of)
  /\ UNCHANGED <<shared, head, process, nextId, closing>>

\* A timed out or answered request leaves the table.
Forget(k, c) == {w \in pending[k] : w.of # c}

\* The request's timer fires.
Timeout(c) ==
  LET k == call[c].on IN
  /\ At(c, "waiting") /\ c \in {w.of : w \in pending[k]}
  /\ pending' = [pending EXCEPT ![k] = Forget(k, c)]
  /\ Settle({c}, "refused")
  /\ UNCHANGED <<shared, head, process, nextId, asked, closing>>

\* Mutant: the timers are cleared and nobody is told.
RejectNobody(k) == {}

\* Everyone in the table is told, and the table is emptied with its timers.
RejectAllPending(k) == {w.of : w \in pending[k]}

\* The server process ends by itself.  The close reaches the client only once
\* it has registered its handler; the registry is not told.
Exit(k) ==
  /\ process[k] = "running"
  /\ process' = [process EXCEPT ![k] = "gone"]
  /\ asked' = [asked EXCEPT ![k] = {}]
  /\ Settle(RejectAllPending(k), "refused")
  /\ pending' = [pending EXCEPT ![k] = {}]
  /\ UNCHANGED <<shared, head, nextId, closing>>

\* closeAll closes every client of the map and kills their processes ...
CloseAll ==
  /\ closing = "no"
  /\ closing' = "closing"
  /\ IF shared = 0
     THEN UNCHANGED <<head, process, asked, pending, outcome, call>>
     ELSE /\ head' = [head EXCEPT ![shared] = "closed"]
          /\ process' = [process EXCEPT ![shared] = "gone"]
          /\ asked' = [asked EXCEPT ![shared] = {}]
          /\ pending' = [pending EXCEPT ![shared] = {}]
          /\ Settle(RejectAllPending(shared), "refused")
  /\ UNCHANGED <<shared, nextId>>

\* ... and empties the map when they have all stopped.
ClearClients ==
  /\ closing = "closing"
  /\ closing' = "done"
  /\ shared' = 0
  /\ UNCHANGED <<head, process, nextId, pending, asked, call, outcome>>

CallProgress(c) == Get(c) \/ Connected(c) \/ Send(c) \/ Refuse(c) \/ Timeout(c)

McpNext ==
  \/ \E c \in Calls : CallProgress(c)
  \/ \E k \in Clients : Exit(k) \/ \E r \in asked[k] : Answer(k, r)
  \/ CloseAll \/ ClearClients

McpSpec == McpInit /\ [][McpNext]_mcpVars

-----------------------------------------------------------------------------
McpTypeOK ==
  /\ shared \in {0} \cup Clients
  /\ head \in [Clients -> {"none", "open", "closed"}]
  /\ process \in [Clients -> {"none", "running", "gone"}]
  /\ nextId \in [Clients -> Nat]
  /\ \A k \in Clients : pending[k] \subseteq Request /\ asked[k] \subseteq Request
  /\ \A k \in Clients : \A v, w \in pending[k] : v.id = w.id => v = w
  /\ call \in [Calls -> [step : {"idle", "starting", "ready", "waiting", "done"},
                         on : {0} \cup Clients]]
  /\ DOMAIN outcome = Calls
  /\ closing \in {"no", "closing", "done"}

\* An answer reaches the request it was sent for, however late it comes and
\* whatever has timed out and been sent meanwhile.
AnswersReachTheirRequest == \A c \in Calls : outcome[c] \in {"none", "refused", c}

\* Every call ends: a server that is silent, dies or is shut down leaves no
\* caller waiting.
CallsEnd == \A c \in Calls : call[c].step # "idle" ~> At(c, "done")
=============================================================================
