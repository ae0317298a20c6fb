---------------------------- MODULE ServicesProofs ----------------------------
(***************************************************************************)
(* What TLAPS proves of McpClient, for any number of calls and however     *)
(* late the server answers, of SignIn, for any times to live and any       *)
(* number of logins, requests and restarts, and of the five services as    *)
(* they are put together for the runs: every one is well typed.            *)
(***************************************************************************)
EXTENDS MCServices, StoreProofs

\* McpClient.

CallSteps == {"idle", "starting", "ready", "waiting", "done"}
CallRow == [step : CallSteps, on : {0} \cup Clients]

\* The parts of McpTypeOK the argument needs.
McpTyped ==
  /\ shared \in {0} \cup Clients
  /\ nextId \in [Clients -> Nat]
  /\ pending \in [Clients -> SUBSET Request]
  /\ asked \in [Clients -> SUBSET Request]
  /\ call \in [Calls -> CallRow]
  /\ outcome \in [Calls -> {"none", "refused"} \cup Calls]

\* A call that has chosen a client keeps it.
HasClient ==
  \A c \in Calls : call[c].step \in {"starting", "ready", "waiting"} => call[c].on \in Clients

\* An id is used once per client: among the requests that wait and those the
\* server has yet to answer, one id means one request, and the next id is free.
IdsAreUsedOnce ==
  \A k \in Clients :
    /\ \A r \in pending[k] \cup asked[k] : r.id < nextId[k]
    /\ \A r, w \in pending[k] \cup asked[k] : r.id = w.id => r = w

McpInv == McpTyped /\ HasClient /\ IdsAreUsedOnce /\ AnswersReachTheirRequest
----------------------------------------------------------------------------
LEMMA McpInvInit == McpInit => McpInv
BY DEF McpInit, McpInv, McpTyped, HasClient, IdsAreUsedOnce, AnswersReachTheirRequest, CallRow,
       CallSteps

\* Whoever is settled is done, and is given the result.
LEMMA SettleShape ==
  ASSUME McpTyped, HasClient, NEW calls, NEW result \in {"none", "refused"} \cup Calls,
         Settle(calls, result)
  PROVE  /\ call' \in [Calls -> CallRow] /\ HasClient'
         /\ outcome' \in [Calls -> {"none", "refused"} \cup Calls]
         /\ \A c \in Calls : outcome'[c] = IF c \in calls THEN result ELSE outcome[c]
<1> DEFINE New(c) == IF c \in calls THEN [call[c] EXCEPT !.step = "done"] ELSE call[c]
<1>1. ASSUME NEW c \in Calls
      PROVE  /\ New(c) \in CallRow
             /\ New(c) = call[c] \/ New(c).step = "done"
  <2>1. call[c] \in CallRow
    BY DEF McpTyped
  <2>2. QED
    BY <2>1 DEF CallRow, CallSteps
<1>2. call' = [c \in Calls |-> New(c)]
  BY DEF Settle
<1> HIDE DEF New
<1>3. call' \in [Calls -> CallRow] /\ HasClient'
  BY <1>1, <1>2 DEF HasClient
<1>4. /\ outcome' \in [Calls -> {"none", "refused"} \cup Calls]
      /\ \A c \in Calls : outcome'[c] = IF c \in calls THEN result ELSE outcome[c]
  BY DEF Settle, McpTyped
<1>5. QED
  BY <1>3, <1>4

\* Requests that leave the tables leave the ids of the others as they were.
LEMMA FewerRequests ==
  ASSUME McpTyped, IdsAreUsedOnce,
         pending' \in [Clients -> SUBSET Request], asked' \in [Clients -> SUBSET Request],
         nextId' \in [Clients -> Nat],
         \A k \in Clients : /\ pending'[k] \subseteq pending[k] /\ asked'[k] \subseteq asked[k]
                            /\ nextId'[k] >= nextId[k]
  PROVE  IdsAreUsedOnce'
BY DEF IdsAreUsedOnce, McpTyped, Request

\* Ending everyone in a client's table with a refusal.
LEMMA RefusalStep ==
  ASSUME McpInv, NEW calls, Settle(calls, "refused"), shared' \in {0} \cup Clients,
         pending' \in [Clients -> SUBSET Request], asked' \in [Clients -> SUBSET Request],
         nextId' \in [Clients -> Nat],
         \A k \in Clients : /\ pending'[k] \subseteq pending[k] /\ asked'[k] \subseteq asked[k]
                            /\ nextId'[k] >= nextId[k]
  PROVE  McpInv'
<1>1. /\ call' \in [Calls -> CallRow] /\ HasClient'
      /\ outcome' \in [Calls -> {"none", "refused"} \cup Calls]
      /\ \A c \in Calls : outcome'[c] = IF c \in calls THEN "refused" ELSE outcome[c]
  BY SettleShape DEF McpInv
<1>2. AnswersReachTheirRequest'
  BY <1>1 DEF McpInv, AnswersReachTheirRequest
<1>3. QED
  BY <1>1, <1>2, FewerRequests DEF McpInv, McpTyped

\* A request is put on the wire under an id no other request has.
LEMMA SendStep ==
  ASSUME McpInv, NEW c \in Calls, Send(c)
  PROVE  McpInv'
<1> DEFINE k == call[c].on
           r == [id |-> nextId[k], of |-> c]
<1>1. k \in Clients /\ nextId[k] \in Nat /\ r \in Request
  BY DEF Send, At, McpInv, HasClient, McpTyped, Request
<1>2. /\ nextId' = [nextId EXCEPT ![k] = @ + 1]
      /\ pending' = [pending EXCEPT ![k] = @ \cup {r}]
      /\ asked' = [asked EXCEPT ![k] = @ \cup {r}]
      /\ call' = [call EXCEPT ![c].step = "waiting"]
      /\ UNCHANGED <<shared, outcome>>
  BY DEF Send, FreshId
<1>3. /\ [call[c] EXCEPT !.step = "waiting"] \in CallRow
      /\ [call[c] EXCEPT !.step = "waiting"].on = k
  <2>1. call[c] \in CallRow
    BY DEF McpInv, McpTyped
  <2>2. QED
    BY <2>1 DEF CallRow, CallSteps
<1>4. r.id = nextId[k] /\ \A w \in Request : w.id \in Nat
  BY DEF Request
<1> HIDE DEF k, r
<1>5. McpTyped' /\ HasClient'
  BY <1>1, <1>2, <1>3 DEF McpInv, McpTyped, HasClient
<1>6. ASSUME NEW j \in Clients
      PROVE  /\ \A v \in pending'[j] \cup asked'[j] : v.id < nextId'[j]
             /\ \A v, w \in pending'[j] \cup asked'[j] : v.id = w.id => v = w
  <2>1. CASE j # k
    BY <1>1, <1>2, <2>1 DEF McpInv, McpTyped, IdsAreUsedOnce
  <2>2. CASE j = k
    <3>1. /\ pending'[k] \cup asked'[k] = pending[k] \cup asked[k] \cup {r}
          /\ nextId'[k] = nextId[k] + 1
      BY <1>1, <1>2 DEF McpInv, McpTyped
    <3>2. \A v \in pending[k] \cup asked[k] : v.id \in Nat /\ v.id < nextId[k]
      BY <1>1, <1>4 DEF McpInv, McpTyped, IdsAreUsedOnce
    <3>3. QED
      BY <1>1, <1>4, <2>2, <3>1, <3>2 DEF McpInv, IdsAreUsedOnce
  <2>3. QED
    BY <2>1, <2>2
<1>7. QED
  BY <1>2, <1>5, <1>6 DEF McpInv, IdsAreUsedOnce, AnswersReachTheirRequest

\* An answer settles what waits under its id, which can only be its request.
LEMMA AnswerStep ==
  ASSUME McpInv, NEW k \in Clients, NEW r \in asked[k], Answer(k, r)
  PROVE  McpInv'
<1> DEFINE heard == {w \in pending[k] : w.id = r.id}
<1>1. r \in Request /\ r.of \in Calls
  BY DEF McpInv, McpTyped, Request
<1>2. \A w \in heard : w.of = r.of
  BY DEF McpInv, IdsAreUsedOnce
<1>3. /\ Settle({w.of : w \in heard}, r.of)
      /\ asked' = [asked EXCEPT ![k] = @ \ {r}]
      /\ pending' = [pending EXCEPT ![k] = @ \ heard]
      /\ UNCHANGED <<shared, nextId>>
  BY DEF Answer
<1>4. /\ call' \in [Calls -> CallRow] /\ HasClient'
      /\ outcome' \in [Calls -> {"none", "refused"} \cup Calls]
      /\ \A c \in Calls : outcome'[c] = IF c \in {w.of : w \in heard} THEN r.of ELSE outcome[c]
  BY <1>1, <1>3, SettleShape DEF McpInv
<1>5. AnswersReachTheirRequest'
  BY <1>2, <1>4 DEF McpInv, AnswersReachTheirRequest
<1> HIDE DEF heard
<1>6. /\ pending' \in [Clients -> SUBSET Request] /\ asked' \in [Clients -> SUBSET Request]
      /\ \A j \in Clients : pending'[j] \subseteq pending[j] /\ asked'[j] \subseteq asked[j]
  BY <1>3 DEF McpInv, McpTyped
<1>7. nextId' \in [Clients -> Nat] /\ \A j \in Clients : nextId'[j] >= nextId[j]
  BY <1>3 DEF McpInv, McpTyped
<1>8. IdsAreUsedOnce'
  BY <1>6, <1>7, FewerRequests DEF McpInv
<1>9. QED
  BY <1>3, <1>4, <1>5, <1>6, <1>7, <1>8 DEF McpInv, McpTyped

\* Choosing or starting a client touches no table.
LEMMA ConnectStep ==
  ASSUME McpInv, NEW c \in Calls, Get(c) \/ Connected(c)
  PROVE  McpInv'
<1>1. UNCHANGED <<nextId, pending, asked, outcome>>
  BY DEF Get, Connected
<1>2. call[c] \in CallRow
  BY DEF McpInv, McpTyped
<1>3. PICK row \in CallRow :
        /\ call' = [call EXCEPT ![c] = row] /\ row.on \in Clients
        /\ shared' \in {0} \cup Clients
  <2>1. CASE Get(c)
    <3>1. PICK k \in Clients, step \in {"ready", "starting"} :
            call' = [call EXCEPT ![c] = [step |-> step, on |-> k]]
      BY <2>1 DEF Get, McpInv, McpTyped
    <3>2. [step |-> step, on |-> k] \in CallRow
      BY DEF CallRow, CallSteps
    <3>3. QED
      BY <2>1, <3>1, <3>2 DEF Get, McpInv, McpTyped
  <2>2. CASE Connected(c)
    <3>1. call' = [call EXCEPT ![c] = [call[c] EXCEPT !.step = "ready"]]
          /\ call[c].on \in Clients /\ shared' = call[c].on
      BY <2>2 DEF Connected, At, McpInv, HasClient
    <3>2. /\ [call[c] EXCEPT !.step = "ready"] \in CallRow
          /\ [call[c] EXCEPT !.step = "ready"].on = call[c].on
      BY <1>2 DEF CallRow, CallSteps
    <3>3. QED
      BY <3>1, <3>2
  <2>3. QED
    BY <2>1, <2>2
<1>4. McpTyped' /\ HasClient'
  BY <1>1, <1>3 DEF McpInv, McpTyped, HasClient
<1>5. QED
  BY <1>1, <1>4 DEF McpInv, IdsAreUsedOnce, AnswersReachTheirRequest

LEMMA McpInvStep == McpInv /\ [McpNext]_mcpVars => McpInv'
<1> SUFFICES ASSUME McpInv, [McpNext]_mcpVars PROVE McpInv'
  OBVIOUS
<1>1. ASSUME NEW c \in Calls, Refuse(c) PROVE McpInv'
  <2>1. nextId' \in [Clients -> Nat] /\ \A k \in Clients : nextId'[k] >= nextId[k]
    <3>1. nextId' = [nextId EXCEPT ![call[c].on] = @ + 1] \/ nextId' = nextId
      BY <1>1 DEF Refuse
    <3>2. nextId \in [Clients -> Nat] /\ call[c].on \in Clients
      BY <1>1 DEF Refuse, At, McpInv, McpTyped, HasClient
    <3>3. QED
      BY <3>1, <3>2
  <2>2. Settle({c}, "refused") /\ UNCHANGED <<shared, pending, asked>>
    BY <1>1 DEF Refuse
  <2>3. QED
    BY <2>1, <2>2, RefusalStep DEF McpInv, McpTyped
<1>2. ASSUME NEW c \in Calls, Timeout(c) PROVE McpInv'
  <2>1. /\ pending' = [pending EXCEPT ![call[c].on] = Forget(call[c].on, c)]
        /\ Settle({c}, "refused") /\ UNCHANGED <<shared, nextId, asked>>
    BY <1>2 DEF Timeout
  <2>2. /\ pending' \in [Clients -> SUBSET Request]
        /\ \A k \in Clients : pending'[k] \subseteq pending[k]
    BY <2>1 DEF Forget, McpInv, McpTyped
  <2>3. \A k \in Clients : nextId'[k] >= nextId[k] /\ asked'[k] \subseteq asked[k]
    BY <2>1 DEF McpInv, McpTyped
  <2>4. QED
    BY <2>1, <2>2, <2>3, RefusalStep DEF McpInv, McpTyped
<1>3. ASSUME NEW k \in Clients, Exit(k) PROVE McpInv'
  <2>1. /\ asked' = [asked EXCEPT ![k] = {}] /\ pending' = [pending EXCEPT ![k] = {}]
        /\ Settle(RejectAllPending(k), "refused") /\ UNCHANGED <<shared, nextId>>
    BY <1>3 DEF Exit
  <2>2. /\ pending' \in [Clients -> SUBSET Request] /\ asked' \in [Clients -> SUBSET Request]
        /\ \A j \in Clients : /\ pending'[j] \subseteq pending[j] /\ asked'[j] \subseteq asked[j]
                              /\ nextId'[j] >= nextId[j]
    BY <2>1 DEF McpInv, McpTyped
  <2>3. QED
    BY <2>1, <2>2, RefusalStep DEF McpInv, McpTyped
<1>4. ASSUME CloseAll PROVE McpInv'
  <2>1. CASE shared = 0
    BY <1>4, <2>1 DEF CloseAll, McpInv, McpTyped, HasClient, IdsAreUsedOnce, AnswersReachTheirRequest
  <2>2. CASE shared # 0
    <3>1. /\ asked' = [asked EXCEPT ![shared] = {}] /\ pending' = [pending EXCEPT ![shared] = {}]
          /\ Settle(RejectAllPending(shared), "refused") /\ UNCHANGED <<shared, nextId>>
      BY <1>4, <2>2 DEF CloseAll
    <3>2. shared \in Clients /\ nextId \in [Clients -> Nat]
          /\ pending \in [Clients -> SUBSET Request] /\ asked \in [Clients -> SUBSET Request]
      BY <2>2 DEF McpInv, McpTyped
    <3>3. /\ pending' \in [Clients -> SUBSET Request] /\ asked' \in [Clients -> SUBSET Request]
          /\ \A j \in Clients : pending'[j] \subseteq pending[j] /\ asked'[j] \subseteq asked[j]
      BY <3>1, <3>2
    <3>4. \A j \in Clients : nextId'[j] >= nextId[j]
      BY <3>1, <3>2
    <3>5. QED
      BY <3>1, <3>2, <3>3, <3>4, RefusalStep DEF McpInv, McpTyped
  <2>3. QED
    BY <2>1, <2>2
<1>5. CASE ClearClients \/ UNCHANGED mcpVars
  BY <1>5 DEF ClearClients, mcpVars, McpInv, McpTyped, HasClient, IdsAreUsedOnce,
     AnswersReachTheirRequest
<1>6. QED
  BY <1>1, <1>2, <1>3, <1>4, <1>5, SendStep, AnswerStep, ConnectStep DEF McpNext, CallProgress

LEMMA McpCorrect == McpSpec => []McpInv
BY McpInvInit, McpInvStep, PTL DEF McpSpec

\* For any number of calls and clients, an answer settles the call it was sent
\* for or nobody, whatever timed out, died or was shut down before it came.
THEOREM AnswersAreOwn == McpSpec => []AnswersReachTheirRequest
<1>1. McpInv => AnswersReachTheirRequest
  BY DEF McpInv
<1>2. QED
  BY <1>1, McpCorrect, PTL

\* The statuses of clients and servers, and of closeAll.
McpShape ==
  /\ head \in [Clients -> {"none", "open", "closed"}]
  /\ process \in [Clients -> {"none", "running", "gone"}]
  /\ closing \in {"no", "closing", "done"}

LEMMA McpShapeInit == McpInit => McpShape
BY DEF McpInit, McpShape

LEMMA McpShapeStep == McpInv /\ McpShape /\ [McpNext]_mcpVars => McpShape'
<1> SUFFICES ASSUME McpInv, McpShape, [McpNext]_mcpVars PROVE McpShape'
  OBVIOUS
<1> USE DEF McpShape
<1>1. ASSUME NEW c \in Calls, CallProgress(c) PROVE McpShape'
  BY <1>1 DEF CallProgress, Get, Connected, Send, Refuse, Timeout
<1>2. ASSUME NEW k \in Clients, Exit(k) \/ \E r \in asked[k] : Answer(k, r) PROVE McpShape'
  BY <1>2 DEF Exit, Answer
<1>3. CASE CloseAll \/ ClearClients \/ UNCHANGED mcpVars
  BY <1>3 DEF CloseAll, ClearClients, mcpVars
<1>4. QED
  BY <1>1, <1>2, <1>3 DEF McpNext

----------------------------------------------------------------------------
\* SignIn.

CallbackSteps ==
  {"idle", "exchanging", "finding", "inserting", "updating", "creating", "done", "refused"}
RequestSteps == {"idle", "finding", "loading", "admitted", "anonymous"}

CallbackRow == [step : CallbackSteps, of : SUBSET Logins, roles : Roles]
Session == [expires : Nat, tokenUntil : Nat, tokenRoles : Roles, revoked : BOOLEAN]
RequestRow == [step : RequestSteps, sid : SUBSET Callbacks, roles : SUBSET Roles,
               held : SUBSET Roles, late : BOOLEAN]

SignTyped ==
  /\ clock \in Nat
  /\ callback \in [Callbacks -> CallbackRow]
  /\ sessions \in [Callbacks -> Session]
  /\ request \in [Requests -> RequestRow]
  /\ users \in Seq(Roles)
  /\ granted \in Roles

\* A state is spent by the callback that takes it: no other callback holds it,
\* and it is no longer in the map.
StatesAreSpent ==
  /\ \A k, j \in Callbacks : callback[k].of \cap callback[j].of # {} => k = j
  /\ \A k \in Callbacks : callback[k].of \cap DOMAIN pendingLogins = {}
  /\ \A k \in Callbacks : ~ (callback[k].step \in {"idle", "refused"}) => callback[k].of # {}

\* The users row holds what an administrator last set, and is there for every
\* session and every login about to update it.
RowIsGranted ==
  /\ users = << >> => granted = DEFAULT_ROLES
  /\ users # << >> => users[1] = granted
  /\ \A k \in Callbacks :
       callback[k].step \in {"updating", "creating", "done"} => users # << >>

\* A request is about a session that exists; one that came late finds it revoked
\* or expired for ever; one that goes on holds the roles now granted.
RequestsAreBound ==
  \A r \in Requests : request[r].step # "idle" =>
    /\ \E k \in Callbacks : request[r].sid = {k} /\ CallbackAt(k, "done")
    /\ request[r].late => \A k \in request[r].sid : ~ FoundActive(k)
    /\ request[r].step \in {"loading", "admitted"} => ~ request[r].late
    /\ granted \in request[r].held

SignInv == SignTyped /\ StatesAreSpent /\ RowIsGranted /\ RequestsAreBound /\ AccessIsCurrent
----------------------------------------------------------------------------
LEMMA SignInvInit == SignInit => SignInv
BY SignInAssumption
   DEF SignInit, SignInv, SignTyped, StatesAreSpent, RowIsGranted, RequestsAreBound, AccessIsCurrent,
       CallbackRow, CallbackSteps, Session, RequestRow, RequestSteps, NoSession, Roles,
       DEFAULT_ROLES, RequestAt

\* What a step of a callback or a request does to its own row, and to no other.
LEMMA CallbackMoves ==
  ASSUME SignTyped, NEW k \in Callbacks, NEW step \in CallbackSteps, NEW roles \in Roles,
         \/ callback' = [callback EXCEPT ![k].step = step]
         \/ callback' = [callback EXCEPT ![k].step = step, ![k].roles = roles]
  PROVE  /\ callback' \in [Callbacks -> CallbackRow]
         /\ \A j \in Callbacks \ {k} : callback'[j] = callback[j]
         /\ callback'[k].of = callback[k].of /\ callback'[k].step = step
<1>1. callback[k] \in CallbackRow /\ callback \in [Callbacks -> CallbackRow]
  BY DEF SignTyped
<1>2. /\ [callback[k] EXCEPT !.step = step] \in CallbackRow
      /\ [callback[k] EXCEPT !.step = step].step = step
      /\ [callback[k] EXCEPT !.step = step].of = callback[k].of
      /\ [callback[k] EXCEPT !.step = step, !.roles = roles] \in CallbackRow
      /\ [callback[k] EXCEPT !.step = step, !.roles = roles].step = step
      /\ [callback[k] EXCEPT !.step = step, !.roles = roles].of = callback[k].of
  BY <1>1 DEF CallbackRow
<1>3. \/ callback' = [callback EXCEPT ![k] = [callback[k] EXCEPT !.step = step]]
      \/ callback' = [callback EXCEPT ![k] = [callback[k] EXCEPT !.step = step, !.roles = roles]]
  OBVIOUS
<1>4. QED
  BY <1>1, <1>2, <1>3

LEMMA RequestMoves ==
  ASSUME SignTyped, NEW r \in Requests, NEW row \in RequestRow,
         request' = [request EXCEPT ![r] = row]
  PROVE  /\ request' \in [Requests -> RequestRow]
         /\ \A j \in Requests \ {r} : request'[j] = request[j]
         /\ request'[r] = row
BY DEF SignTyped

LEMMA SessionMoves ==
  ASSUME SignTyped, NEW k \in Callbacks, NEW row \in Session,
         sessions' = [sessions EXCEPT ![k] = row]
  PROVE  /\ sessions' \in [Callbacks -> Session]
         /\ \A j \in Callbacks \ {k} : sessions'[j] = sessions[j]
         /\ sessions'[k] = row
BY DEF SignTyped

\* A step of a callback that has taken a state spends no other.
LEMMA StatesStaySpent ==
  ASSUME StatesAreSpent, NEW k \in Callbacks,
         ~ (callback[k].step \in {"idle", "refused"}), callback'[k].of = callback[k].of,
         \A j \in Callbacks \ {k} : callback'[j] = callback[j], UNCHANGED pendingLogins
  PROVE  StatesAreSpent'
BY DEF StatesAreSpent

\* A request is not disturbed while sessions only end and the roles stay.
LEMMA RequestsStayBound ==
  ASSUME RequestsAreBound, AccessIsCurrent, UNCHANGED <<request, granted>>,
         \A k \in Callbacks : CallbackAt(k, "done") =>
           CallbackAt(k, "done")' /\ (~ FoundActive(k) => ~ FoundActive(k)')
  PROVE  RequestsAreBound' /\ AccessIsCurrent'
BY DEF RequestsAreBound, AccessIsCurrent, RequestAt

LEMMA CallbackStep ==
  ASSUME SignInv, NEW k \in Callbacks,
         Exchange(k) \/ FindUser(k) \/ UpdateUser(k) \/ InsertUser(k) \/ CreateSession(k)
  PROVE  SignInv'
<1>1. callback[k].step \in {"exchanging", "finding", "updating", "inserting", "creating"}
      /\ UNCHANGED <<clock, pendingLogins, request, granted>>
  BY DEF Exchange, FindUser, UpdateUser, InsertUser, CreateSession, CallbackAt
<1>2. /\ users' \in Seq(Roles)
      /\ \/ users' = users
         \/ users = << >> /\ users' # << >> /\ users'[1] = DEFAULT_ROLES
  <2>1. CASE UNCHANGED users
    BY <2>1 DEF SignInv, SignTyped
  <2>2. CASE UpdateUser(k)
    BY <2>2 DEF SignInv, SignTyped, UpdateUser, LoggedIn
  <2>3. CASE users = << >> /\ users' = Append(users, DEFAULT_ROLES)
    BY <2>3 DEF SignInv, SignTyped, Roles, DEFAULT_ROLES
  <2>4. QED
    BY <2>1, <2>2, <2>3
       DEF Exchange, FindUser, InsertUser, SubIsFree, CreateSession
<1>3. PICK step \in CallbackSteps, roles \in Roles :
        /\ \/ callback' = [callback EXCEPT ![k].step = step]
           \/ callback' = [callback EXCEPT ![k].step = step, ![k].roles = roles]
        /\ step \in {"updating", "creating", "done"} => users' # << >>
  <2>1. CASE Exchange(k)
    BY <2>1 DEF Exchange, CallbackSteps, Roles
  <2>2. CASE FindUser(k)
    BY <2>2 DEF FindUser, CallbackSteps, Roles
  <2>3. CASE UpdateUser(k)
    <3>1. users # << >>
      BY <2>3 DEF SignInv, RowIsGranted, UpdateUser, CallbackAt
    <3>2. users'[1] \in Roles /\ users' # << >>
      BY <1>2, <3>1
    <3>3. QED
      BY <2>3, <3>2 DEF UpdateUser, CallbackSteps
  <2>4. CASE InsertUser(k)
    BY <1>2, <2>4 DEF InsertUser, SubIsFree, CallbackSteps, Roles, DEFAULT_ROLES
  <2>5. CASE CreateSession(k)
    BY <2>5 DEF CreateSession, CallbackAt, SignInv, RowIsGranted, CallbackSteps, Roles
  <2>6. QED
    BY <2>1, <2>2, <2>3, <2>4, <2>5
<1>4. /\ callback' \in [Callbacks -> CallbackRow]
      /\ \A j \in Callbacks \ {k} : callback'[j] = callback[j]
      /\ callback'[k].of = callback[k].of /\ callback'[k].step = step
  BY <1>3, CallbackMoves DEF SignInv
<1>5. StatesAreSpent'
  BY <1>1, <1>4, StatesStaySpent DEF SignInv
<1>6. RowIsGranted'
  BY <1>1, <1>2, <1>3, <1>4 DEF SignInv, RowIsGranted
<1>7. /\ sessions' \in [Callbacks -> Session]
      /\ \A j \in Callbacks \ {k} : sessions'[j] = sessions[j]
  <2>1. CASE UNCHANGED sessions
    BY <2>1 DEF SignInv, SignTyped
  <2>2. CASE CreateSession(k)
    <3>1. callback[k].roles \in Roles /\ clock + SessionTtl \in Nat /\ clock + TokenTtl \in Nat
      BY SignInAssumption DEF SignInv, SignTyped, CallbackRow
    <3>2. [expires |-> clock + SessionTtl, tokenUntil |-> clock + TokenTtl,
           tokenRoles |-> callback[k].roles, revoked |-> FALSE] \in Session
      BY <3>1 DEF Session
    <3>3. QED
      BY <2>2, <3>2, SessionMoves DEF CreateSession, SignInv
  <2>3. QED
    BY <2>1, <2>2 DEF Exchange, FindUser, UpdateUser, InsertUser
<1>8. RequestsAreBound' /\ AccessIsCurrent'
  <2>1. \A j \in Callbacks : CallbackAt(j, "done") =>
          CallbackAt(j, "done")' /\ (~ FoundActive(j) => ~ FoundActive(j)')
    BY <1>1, <1>4, <1>7 DEF CallbackAt, FoundActive, Expired
  <2>2. QED
    BY <1>1, <2>1, RequestsStayBound DEF SignInv
<1>9. QED
  BY <1>1, <1>2, <1>4, <1>5, <1>6, <1>7, <1>8 DEF SignInv, SignTyped

\* login and the two ends of a callback's state.
LEMMA LoginStep ==
  ASSUME SignInv, NEW s \in Logins, Login(s)
  PROVE  SignInv'
<1>1. UNCHANGED <<clock, callback, users, sessions, request, granted>>
  BY DEF Login
<1>2. DOMAIN pendingLogins' \subseteq DOMAIN pendingLogins \cup {s}
  BY DEF Login, Fresh
<1>3. \A k \in Callbacks : s \notin callback[k].of
  BY DEF Login
<1>4. QED
  BY <1>1, <1>2, <1>3, RequestsStayBound
     DEF SignInv, SignTyped, StatesAreSpent, RowIsGranted, CallbackAt, FoundActive, Expired

LEMMA TakeStateStep ==
  ASSUME SignInv, NEW k \in Callbacks, NEW s \in Logins, Callback(k, s)
  PROVE  SignInv'
<1>1. UNCHANGED <<clock, users, sessions, request, granted>> /\ callback[k].step = "idle"
  BY DEF Callback, CallbackAt
<1>2. PICK step \in {"exchanging", "refused"}, of \in SUBSET Logins :
        /\ callback' = [callback EXCEPT ![k] = [callback[k] EXCEPT !.step = step, !.of = of]]
        /\ \/ step = "refused" /\ of = callback[k].of /\ UNCHANGED pendingLogins
           \/ /\ step = "exchanging" /\ of = {s} /\ s \in DOMAIN pendingLogins
              /\ DOMAIN pendingLogins' = DOMAIN pendingLogins \ {s}
  <2>1. CASE s \in DOMAIN pendingLogins
    BY <2>1 DEF Callback, ForgetState
  <2>2. CASE s \notin DOMAIN pendingLogins
    <3>1. callback[k] \in CallbackRow
      BY DEF SignInv, SignTyped
    <3>2. /\ callback[k].of \in SUBSET Logins
          /\ [callback[k] EXCEPT !.step = "refused"]
               = [callback[k] EXCEPT !.step = "refused", !.of = callback[k].of]
      BY <3>1 DEF CallbackRow
    <3>3. callback' = [callback EXCEPT ![k] = [callback[k] EXCEPT !.step = "refused"]]
      BY <2>2 DEF Callback
    <3>4. QED
      BY <2>2, <3>2, <3>3 DEF Callback
  <2>3. QED
    BY <2>1, <2>2
<1>3. /\ [callback[k] EXCEPT !.step = step, !.of = of] \in CallbackRow
      /\ [callback[k] EXCEPT !.step = step, !.of = of].step = step
      /\ [callback[k] EXCEPT !.step = step, !.of = of].of = of
  <2>1. callback[k] \in CallbackRow
    BY DEF SignInv, SignTyped
  <2>2. QED
    BY <2>1 DEF CallbackRow, CallbackSteps
<1>4. /\ callback' \in [Callbacks -> CallbackRow]
      /\ \A j \in Callbacks \ {k} : callback'[j] = callback[j]
      /\ callback'[k].of = of /\ callback'[k].step = step
  BY <1>2, <1>3 DEF SignInv, SignTyped
<1>5. StatesAreSpent'
  BY <1>1, <1>2, <1>4 DEF SignInv, StatesAreSpent
<1>6. RowIsGranted'
  BY <1>1, <1>2, <1>4 DEF SignInv, RowIsGranted
<1>7. \A j \in Callbacks : CallbackAt(j, "done") =>
        CallbackAt(j, "done")' /\ (~ FoundActive(j) => ~ FoundActive(j)')
  BY <1>1, <1>4 DEF CallbackAt, FoundActive, Expired
<1>8. QED
  BY <1>1, <1>4, <1>5, <1>6, <1>7, RequestsStayBound DEF SignInv, SignTyped

LEMMA LogoutStep ==
  ASSUME SignInv, NEW k \in Callbacks, Logout(k)
  PROVE  SignInv'
<1>1. UNCHANGED <<clock, pendingLogins, callback, users, request, granted>>
  BY DEF Logout
<1>2. /\ [sessions[k] EXCEPT !.revoked = TRUE] \in Session
      /\ [sessions[k] EXCEPT !.revoked = TRUE].revoked
  <2>1. sessions[k] \in Session
    BY DEF SignInv, SignTyped
  <2>2. QED
    BY <2>1 DEF Session
<1>3. sessions' = [sessions EXCEPT ![k] = [sessions[k] EXCEPT !.revoked = TRUE]]
  BY DEF Logout
<1>4. /\ sessions' \in [Callbacks -> Session] /\ sessions'[k].revoked
      /\ \A j \in Callbacks \ {k} : sessions'[j] = sessions[j]
  BY <1>2, <1>3, SessionMoves DEF SignInv
<1>5. \A j \in Callbacks : CallbackAt(j, "done") =>
        CallbackAt(j, "done")' /\ (~ FoundActive(j) => ~ FoundActive(j)')
  BY <1>1, <1>4 DEF CallbackAt, FoundActive, Expired
<1>6. RequestsAreBound' /\ AccessIsCurrent'
  BY <1>1, <1>5, RequestsStayBound DEF SignInv
<1>7. QED
  BY <1>1, <1>4, <1>6 DEF SignInv, SignTyped, StatesAreSpent, RowIsGranted

\* The administrator's grant reaches the row and everyone then being served.
LEMMA GrantStep ==
  ASSUME SignInv, NEW role \in Roles, Grant(role)
  PROVE  SignInv'
<1>1. UNCHANGED <<clock, pendingLogins, callback, sessions>> /\ granted' = role
  BY DEF Grant
<1>2. users' \in Seq(Roles) /\ users' # << >> /\ users'[1] = role
  BY DEF Grant, SignInv, SignTyped
<1>3. /\ request' \in [Requests -> RequestRow]
      /\ \A r \in Requests :
           /\ request'[r].step = request[r].step /\ request'[r].sid = request[r].sid
           /\ request'[r].late = request[r].late /\ request'[r].roles = request[r].roles
           /\ request'[r].held = request[r].held \cup {role}
  <2> DEFINE New(r) == [request[r] EXCEPT !.held = @ \cup {role}]
  <2>1. ASSUME NEW r \in Requests
        PROVE  /\ New(r) \in RequestRow
               /\ New(r).step = request[r].step /\ New(r).sid = request[r].sid
               /\ New(r).late = request[r].late /\ New(r).roles = request[r].roles
               /\ New(r).held = request[r].held \cup {role}
    <3>1. request[r] \in RequestRow
      BY DEF SignInv, SignTyped
    <3>2. QED
      BY <3>1 DEF RequestRow
  <2>2. request' = [r \in Requests |-> New(r)]
    BY DEF Grant
  <2> HIDE DEF New
  <2>3. QED
    BY <2>1, <2>2
<1>4. RequestsAreBound'
  BY <1>1, <1>3 DEF SignInv, RequestsAreBound, CallbackAt, FoundActive, Expired
<1>5. AccessIsCurrent'
  BY <1>3 DEF SignInv, AccessIsCurrent, RequestAt
<1>6. QED
  BY <1>1, <1>2, <1>3, <1>4, <1>5 DEF SignInv, SignTyped, StatesAreSpent, RowIsGranted

\* The three steps of a request.
LEMMA RequestStep ==
  ASSUME SignInv, NEW r \in Requests,
         \/ FindSession(r) \/ LoadUser(r)
         \/ \E k \in Callbacks, bearer \in BOOLEAN : Arrive(r, k, bearer)
  PROVE  SignInv'
<1>1. UNCHANGED <<clock, pendingLogins, callback, users, sessions, granted>>
  BY DEF FindSession, LoadUser, Arrive
<1>2. request[r] \in RequestRow
  BY DEF SignInv, SignTyped
<1> DEFINE Bound(row) ==
             /\ \E k \in Callbacks : row.sid = {k} /\ CallbackAt(k, "done")
             /\ row.late => \A k \in row.sid : ~ FoundActive(k)
             /\ row.step \in {"loading", "admitted"} => ~ row.late
             /\ granted \in row.held
             /\ row.step = "admitted" => row.roles \subseteq row.held
<1>3. \E row \in RequestRow : request' = [request EXCEPT ![r] = row] /\ Bound(row)
  <2>1. CASE FindSession(r)
    <3> DEFINE step == IF \E k \in request[r].sid : FoundActive(k) THEN "loading" ELSE "anonymous"
               row == [request[r] EXCEPT !.step = step]
    <3>1. request' = [request EXCEPT ![r] = row] /\ request[r].step = "finding"
      BY <2>1 DEF FindSession, RequestAt
    <3>2. /\ row \in RequestRow /\ row.step = step /\ row.sid = request[r].sid
          /\ row.late = request[r].late /\ row.held = request[r].held
      BY <1>2 DEF RequestRow, RequestSteps
    <3>3. request[r].late => step = "anonymous"
      BY <3>1 DEF SignInv, RequestsAreBound
    <3>4. step # "admitted"
      OBVIOUS
    <3> HIDE DEF row, step
    <3>5. QED
      BY <3>1, <3>2, <3>3, <3>4 DEF SignInv, RequestsAreBound
  <2>2. CASE LoadUser(r)
    <3> DEFINE row == [request[r] EXCEPT !.step = "admitted", !.roles = LoadedRoles(r)]
    <3>1. request' = [request EXCEPT ![r] = row] /\ request[r].step = "loading"
      BY <2>2 DEF LoadUser, RequestAt
    <3>2. PICK k \in Callbacks : request[r].sid = {k} /\ CallbackAt(k, "done")
      BY <3>1 DEF SignInv, RequestsAreBound
    <3>3. LoadedRoles(r) = {granted} /\ granted \in Roles
      BY <3>2 DEF LoadedRoles, SignInv, SignTyped, RowIsGranted, CallbackAt
    <3>4. /\ row \in RequestRow /\ row.step = "admitted" /\ row.sid = request[r].sid
          /\ row.late = request[r].late /\ row.held = request[r].held /\ row.roles = {granted}
      BY <1>2, <3>3 DEF RequestRow, RequestSteps
    <3> HIDE DEF row
    <3>5. QED
      BY <3>1, <3>4 DEF SignInv, RequestsAreBound
  <2>3. ASSUME NEW k \in Callbacks, NEW bearer \in BOOLEAN, Arrive(r, k, bearer)
        PROVE  \E row \in RequestRow : request' = [request EXCEPT ![r] = row] /\ Bound(row)
    <3> DEFINE step == IF bearer /\ clock >= sessions[k].tokenUntil THEN "anonymous" ELSE "finding"
               row == [step |-> step, sid |-> {k}, roles |-> {}, held |-> {granted},
                       late |-> sessions[k].revoked \/ Expired(k)]
    <3>1. request' = [request EXCEPT ![r] = row] /\ CallbackAt(k, "done")
      BY <2>3 DEF Arrive
    <3>2. step \in {"anonymous", "finding"}
      OBVIOUS
    <3>3. granted \in Roles /\ (sessions[k].revoked \/ Expired(k)) \in BOOLEAN
      BY DEF SignInv, SignTyped, Session, Expired
    <3> HIDE DEF step
    <3>4. row \in RequestRow
      BY <3>2, <3>3 DEF RequestRow, RequestSteps
    <3>5. Bound(row)
      BY <3>1, <3>2 DEF FoundActive
    <3>6. QED
      BY <3>1, <3>4, <3>5
  <2>4. QED
    BY <2>1, <2>2, <2>3
<1>4. PICK row \in RequestRow : request' = [request EXCEPT ![r] = row] /\ Bound(row)
  BY <1>3
<1>5. /\ request' \in [Requests -> RequestRow] /\ request'[r] = row
      /\ \A q \in Requests \ {r} : request'[q] = request[q]
  BY <1>4, RequestMoves DEF SignInv
<1>6. RequestsAreBound'
  BY <1>1, <1>4, <1>5 DEF SignInv, RequestsAreBound, CallbackAt, FoundActive, Expired
<1>7. AccessIsCurrent'
  BY <1>4, <1>5 DEF SignInv, AccessIsCurrent, RequestAt
<1>8. QED
  BY <1>1, <1>5, <1>6, <1>7 DEF SignInv, SignTyped, StatesAreSpent, RowIsGranted

\* Time passes, and the pruner forgets old states.
LEMMA TimeStep ==
  ASSUME SignInv, Tick \/ Prune
  PROVE  SignInv'
<1>1. UNCHANGED <<callback, users, sessions, request, granted>>
  BY DEF Tick, Prune
<1>2. clock' \in Nat /\ clock' >= clock /\ DOMAIN pendingLogins' \subseteq DOMAIN pendingLogins
  BY DEF Tick, Prune, Fresh, SignInv, SignTyped
<1>3. \A k \in Callbacks : CallbackAt(k, "done") =>
        CallbackAt(k, "done")' /\ (~ FoundActive(k) => ~ FoundActive(k)')
  BY <1>1, <1>2 DEF CallbackAt, FoundActive, Expired, SignInv, SignTyped, Session
<1>4. RequestsAreBound' /\ AccessIsCurrent'
  BY <1>1, <1>3, RequestsStayBound DEF SignInv
<1>5. QED
  BY <1>1, <1>2, <1>4 DEF SignInv, SignTyped, StatesAreSpent, RowIsGranted

\* A restart ends what was in flight and forgets the states handed out.
LEMMA RestartStep ==
  ASSUME SignInv, Restart
  PROVE  SignInv'
<1>1. UNCHANGED <<clock, users, sessions, granted>> /\ DOMAIN pendingLogins' = {}
  BY DEF Restart
<1>2. /\ callback' \in [Callbacks -> CallbackRow]
      /\ \A k \in Callbacks :
           /\ callback'[k].of = callback[k].of
           /\ \/ callback'[k].step = callback[k].step /\ callback[k].step \in {"idle", "done"}
              \/ callback'[k].step = "refused" /\ ~ CallbackAt(k, "done")
  <2> DEFINE New(k) == IF callback[k].step \in {"idle", "done"} THEN callback[k]
                       ELSE [callback[k] EXCEPT !.step = "refused"]
  <2>1. ASSUME NEW k \in Callbacks
        PROVE  /\ New(k) \in CallbackRow /\ New(k).of = callback[k].of
               /\ \/ New(k).step = callback[k].step /\ callback[k].step \in {"idle", "done"}
                  \/ New(k).step = "refused" /\ ~ CallbackAt(k, "done")
    <3>1. callback[k] \in CallbackRow
      BY DEF SignInv, SignTyped
    <3>2. QED
      BY <3>1 DEF CallbackRow, CallbackSteps, CallbackAt
  <2>2. callback' = [k \in Callbacks |-> New(k)]
    BY DEF Restart
  <2> HIDE DEF New
  <2>3. QED
    BY <2>1, <2>2
<1>3. /\ request' \in [Requests -> RequestRow]
      /\ \A r \in Requests :
           \/ request'[r] = request[r]
           \/ /\ request'[r].step = "anonymous" /\ request[r].step # "idle"
              /\ request'[r].sid = request[r].sid /\ request'[r].late = request[r].late
              /\ request'[r].held = request[r].held
  <2> DEFINE New(r) == IF request[r].step \in {"idle", "admitted"} THEN request[r]
                       ELSE [request[r] EXCEPT !.step = "anonymous"]
  <2>1. ASSUME NEW r \in Requests
        PROVE  /\ New(r) \in RequestRow
               /\ \/ New(r) = request[r]
                  \/ /\ New(r).step = "anonymous" /\ request[r].step # "idle"
                     /\ New(r).sid = request[r].sid /\ New(r).late = request[r].late
                     /\ New(r).held = request[r].held
    <3>1. request[r] \in RequestRow
      BY DEF SignInv, SignTyped
    <3>2. QED
      BY <3>1 DEF RequestRow, RequestSteps
  <2>2. request' = [r \in Requests |-> New(r)]
    BY DEF Restart
  <2> HIDE DEF New
  <2>3. QED
    BY <2>1, <2>2
<1>4. StatesAreSpent'
  BY <1>1, <1>2 DEF SignInv, StatesAreSpent
<1>5. RowIsGranted'
  BY <1>1, <1>2 DEF SignInv, RowIsGranted
<1>6. RequestsAreBound'
  BY <1>1, <1>2, <1>3 DEF SignInv, RequestsAreBound, CallbackAt, FoundActive, Expired
<1>7. AccessIsCurrent'
  BY <1>3 DEF SignInv, AccessIsCurrent, RequestAt
<1>8. QED
  BY <1>1, <1>2, <1>3, <1>4, <1>5, <1>6, <1>7 DEF SignInv, SignTyped

LEMMA SignInvStep == SignInv /\ [SignNext]_signVars => SignInv'
<1> SUFFICES ASSUME SignInv, [SignNext]_signVars PROVE SignInv'
  OBVIOUS
<1>1. CASE UNCHANGED signVars
  BY <1>1 DEF signVars, SignInv, SignTyped, StatesAreSpent, RowIsGranted, RequestsAreBound,
     AccessIsCurrent, CallbackAt, RequestAt, FoundActive, Expired
<1>2. QED
  BY <1>1, LoginStep, TakeStateStep, CallbackStep, LogoutStep, RequestStep, GrantStep, TimeStep,
     RestartStep DEF SignNext

LEMMA SignCorrect == SignSpec => []SignInv
BY SignInvInit, SignInvStep, PTL DEF SignSpec

\* However many callbacks bring the same state, and however they interleave, a
\* login opens one session at most.
THEOREM SessionIsSingle == SignSpec => []OneSessionPerLogin
<1>1. SignInv => OneSessionPerLogin
  BY DEF SignInv, StatesAreSpent, OneSessionPerLogin, CallbackAt
<1>2. QED
  BY <1>1, SignCorrect, PTL

\* For any times to live and any number of grants and restarts, an admitted
\* request came before its session ended and acts with roles the row then held.
THEOREM AdmittedIsCurrent == SignSpec => []AccessIsCurrent
<1>1. SignInv => AccessIsCurrent
  BY DEF SignInv
<1>2. QED
  BY <1>1, SignCorrect, PTL

\* The bounds of sign-in: one users row at most, and a session only for a
\* callback that is done.
SignBounds ==
  /\ clock <= MaxTime
  /\ DOMAIN pendingLogins \subseteq Logins
  /\ users = << >> \/ \E role \in Roles : users = <<role>>
  /\ \A k \in Callbacks : sessions[k] # NoSession => CallbackAt(k, "done")

LEMMA SignBoundsInit == SignInit => SignBounds
BY SignInAssumption DEF SignInit, SignBounds, SignInAssumption

LEMMA SignBoundsStep == SignInv /\ SignBounds /\ [SignNext]_signVars => SignBounds'
<1> SUFFICES ASSUME SignInv, SignBounds, [SignNext]_signVars PROVE SignBounds'
  OBVIOUS
<1> USE DEF SignBounds
<1>1. ASSUME NEW s \in Logins, Login(s) PROVE SignBounds'
  BY <1>1 DEF Login, Fresh, CallbackAt
<1>2. ASSUME NEW s \in Logins, NEW k \in Callbacks, Callback(k, s) PROVE SignBounds'
  BY <1>2 DEF Callback, ForgetState, CallbackAt, SignInv, SignTyped
<1>3. ASSUME NEW k \in Callbacks, Exchange(k) \/ FindUser(k) \/ UpdateUser(k) PROVE SignBounds'
  <2>1. ~ CallbackAt(k, "done") /\ \A j \in Callbacks \ {k} : callback'[j] = callback[j]
    BY <1>3 DEF Exchange, FindUser, UpdateUser, CallbackAt, SignInv, SignTyped
  <2>2. UNCHANGED <<clock, pendingLogins, sessions>>
    BY <1>3 DEF Exchange, FindUser, UpdateUser
  <2>3. users' = users
    <3>1. CASE UpdateUser(k)
      BY <3>1 DEF UpdateUser, LoggedIn, SignInv, SignTyped
    <3>2. QED
      BY <1>3, <3>1 DEF Exchange, FindUser
  <2>4. QED
    BY <2>1, <2>2, <2>3 DEF CallbackAt
<1>4. ASSUME NEW k \in Callbacks, InsertUser(k) PROVE SignBounds'
  <2>1. ~ CallbackAt(k, "done") /\ \A j \in Callbacks \ {k} : callback'[j] = callback[j]
    BY <1>4 DEF InsertUser, CallbackAt, SignInv, SignTyped
  <2>2. UNCHANGED <<clock, pendingLogins, sessions>>
    BY <1>4 DEF InsertUser
  <2>3. users' = users \/ users' = <<DEFAULT_ROLES>>
    <3>1. \A role \in Roles : Append(<< >>, role) = <<role>>
      OBVIOUS
    <3>2. users' = users \/ users' = Append(<< >>, DEFAULT_ROLES)
      BY <1>4 DEF InsertUser, SubIsFree
    <3>3. QED
      BY <3>1, <3>2 DEF Roles, DEFAULT_ROLES
  <2>4. QED
    BY <2>1, <2>2, <2>3 DEF CallbackAt, Roles, DEFAULT_ROLES
<1>5. ASSUME NEW k \in Callbacks, CreateSession(k) PROVE SignBounds'
  BY <1>5 DEF CreateSession, CallbackAt, SignInv, SignTyped
<1>6. ASSUME NEW k \in Callbacks, Logout(k) PROVE SignBounds'
  BY <1>6 DEF Logout, CallbackAt, SignInv, SignTyped
<1>7. ASSUME NEW r \in Requests,
             FindSession(r) \/ LoadUser(r) \/ \E k \in Callbacks, bearer \in BOOLEAN : Arrive(r, k, bearer)
      PROVE  SignBounds'
  BY <1>7 DEF FindSession, LoadUser, Arrive, CallbackAt
<1>8. ASSUME NEW role \in Roles, Grant(role) PROVE SignBounds'
  <2>1. UNCHANGED <<clock, pendingLogins, callback, sessions>> /\ users # << >>
        /\ users' = [users EXCEPT ![1] = role]
    BY <1>8 DEF Grant
  <2>2. users' = <<role>>
    BY <2>1
  <2>3. QED
    BY <2>1, <2>2 DEF CallbackAt
<1>9. ASSUME Tick \/ Prune PROVE SignBounds'
  <2>1. UNCHANGED <<callback, sessions, users>> /\ DOMAIN pendingLogins' \subseteq Logins
    BY <1>9 DEF Tick, Prune, Fresh
  <2>2. clock' <= MaxTime
    BY <1>9, SignInAssumption DEF Tick, Prune, SignInv, SignTyped, SignInAssumption
  <2>3. QED
    BY <2>1, <2>2 DEF CallbackAt
<1>10. ASSUME Restart PROVE SignBounds'
  BY <1>10 DEF Restart, CallbackAt
<1>11. CASE UNCHANGED signVars
  BY <1>11 DEF signVars, CallbackAt
<1>12. QED
  BY <1>1, <1>2, <1>3, <1>4, <1>5, <1>6, <1>7, <1>8, <1>9, <1>10, <1>11 DEF SignNext

----------------------------------------------------------------------------
\* The five services in one instance.

\* What is known of each service in every state of the instance.
ServicesInv ==
  /\ StreamInv /\ MemoryInv
  /\ CacheInv /\ CacheBounds
  /\ McpInv /\ McpShape
  /\ SignInv /\ SignBounds

\* A step of the instance is a step of one service that leaves the others alone.
LEMMA ServicesStep ==
  ASSUME [ServicesNext]_servicesVars
  PROVE  /\ [StreamNext]_streamVars /\ [MemoryNext]_memoryVars /\ [CacheNext]_cacheVars
         /\ [McpNext]_mcpVars /\ [SignNext]_signVars
BY DEF ServicesNext, servicesVars

LEMMA ServicesCorrect == ServicesSpec => []ServicesInv
<1>1. ServicesInit => ServicesInv
  BY StreamInvInit, MemoryInvInit, CacheInvInit, CacheBoundsInit, McpInvInit, McpShapeInit,
     SignInvInit, SignBoundsInit DEF ServicesInit, ServicesInv
<1>2. ServicesInv /\ [ServicesNext]_servicesVars => ServicesInv'
  BY ServicesStep, StreamInvStep, MemoryInvStep, CacheInvStep, CacheBoundsStep, McpInvStep,
     McpShapeStep, SignInvStep, SignBoundsStep DEF ServicesInv
<1>3. QED
  BY <1>1, <1>2, PTL DEF ServicesSpec

\* Every reachable state of the five services is well typed, whatever the sets of
\* handlers, calls, ingests, collects and logins and whatever the bounds.
THEOREM ServicesTyped == ServicesSpec => []ServicesTypeOK
<1>1. McpInv /\ McpShape => McpTypeOK
  BY DEF McpInv, McpShape, McpTyped, IdsAreUsedOnce, McpTypeOK, CallRow, CallSteps
<1>2. ASSUME SignInv, SignBounds PROVE SignTypeOK
  <2>1. /\ \A k \in Callbacks : callback[k].step \in CallbackSteps
        /\ \A r \in Requests : request[r].step \in RequestSteps
    BY <1>2 DEF SignInv, SignTyped, CallbackRow, RequestRow
  <2>2. clock \in 0..MaxTime
    BY <1>2, SignInAssumption DEF SignInv, SignTyped, SignBounds, SignInAssumption
  <2>3. QED
    BY <1>2, <2>1, <2>2 DEF SignBounds, SignTypeOK, CallbackSteps, RequestSteps
<1>3. ServicesInv => ServicesTypeOK
  BY <1>1, <1>2, StoresTyped DEF ServicesInv, ServicesTypeOK
<1>4. QED
  BY <1>3, ServicesCorrect, PTL
===============================================================================
