------------------------------- MODULE SignIn -------------------------------
(***************************************************************************)
(* The OIDC sign-in of one person: login and callback, AuthService's       *)
(* find-or-create of the users row, the sessions rows, and the check every *)
(* request passes (registerAuthHook).  Logins, callbacks, requests, logout *)
(* and an administrator's change of roles interleave at every await.       *)
(***************************************************************************)
EXTENDS Integers, Sequences, FiniteSets

CONSTANTS
  Logins,     \* values of state that /login hands out
  Callbacks,  \* requests to /callback, the same state more than once included
  Requests,   \* authenticated requests
  LoginTtl,   \* PENDING_TTL_MS
  TokenTtl,   \* DEFAULT_TOKEN_TTL_MS
  SessionTtl, \* DEFAULT_SESSION_TTL_MS
  MaxTime,    \* bound on the clock
  MaxGrants,  \* bound on changes of roles
  MaxRestarts \* bound on restarts of the server

ASSUME SignInAssumption ==
  /\ IsFiniteSet(Logins \cup Callbacks \cup Requests)
  /\ {LoginTtl, TokenTtl, SessionTtl, MaxTime, MaxGrants, MaxRestarts} \subseteq Nat

Roles == {"OPERATOR", "ADMIN"}
DEFAULT_ROLES == "OPERATOR"

VARIABLES
  clock,
  pendingLogins, \* state -> when it was issued, for those in the map
  callback,      \* callback -> its step, its state and the roles it has read
  users,         \* the users rows of the person: their roles
  sessions,      \* callback -> the session it created, or NoSession
  request,       \* request -> its step, session and what it was given
  granted,       \* the roles last set by an administrator, or the default
  grants, restarts

signVars == <<clock, pendingLogins, callback, users, sessions, request, granted, grants, restarts>>

NoSession == [expires |-> 0, tokenUntil |-> 0, tokenRoles |-> DEFAULT_ROLES, revoked |-> TRUE]

SignInit ==
  /\ clock = 0
  /\ pendingLogins = [s \in {} |-> 0]
  /\ callback = [k \in Callbacks |-> [step |-> "idle", of |-> {}, roles |-> DEFAULT_ROLES]]
  /\ users = << >>
  /\ sessions = [k \in Callbacks |-> NoSession]
  /\ request = [r \in Requests |->
                 [step |-> "idle", sid |-> {}, roles |-> {}, held |-> {}, late |-> FALSE]]
  /\ granted = DEFAULT_ROLES
  /\ grants = 0 /\ restarts = 0

CallbackAt(k, step) == callback[k].step = step
RequestAt(r, step) == request[r].step = step

Fresh == {s \in DOMAIN pendingLogins : clock - pendingLogins[s] <= LoginTtl}

\* login prunes the map, which holds expired states until then, and adds one.
Login(s) ==
  /\ s \notin DOMAIN pendingLogins /\ \A k \in Callbacks : s \notin callback[k].of
  /\ pendingLogins' = [p \in Fresh \cup {s} |-> IF p = s THEN clock ELSE pendingLogins[p]]
  /\ UNCHANGED <<clock, callback, users, sessions, request, granted, grants, restarts>>

\* Mutant: the state is forgotten only when the session has been created.
ForgetLater(s) == pendingLogins

ForgetState(s) == [p \in DOMAIN pendingLogins \ {s} |-> pendingLogins[p]]

\* callback takes its state out of the map before its first await; a state
\* that is not there is answered 400.
Callback(k, s) ==
  /\ CallbackAt(k, "idle")
  /\ IF s \in DOMAIN pendingLogins
     THEN /\ pendingLogins' = ForgetState(s)
          /\ callback' = [callback EXCEPT ![k].step = "exchanging", ![k].of = {s}]
     ELSE /\ callback' = [callback EXCEPT ![k].step = "refused"]
          /\ UNCHANGED pendingLogins
  /\ UNCHANGED <<clock, users, sessions, request, granted, grants, restarts>>

\* The provider answers the exchange and the user info, or fails.
Exchange(k) ==
  /\ CallbackAt(k, "exchanging")
  /\ \E step \in {"finding", "refused"} : callback' = [callback EXCEPT ![k].step = step]
  /\ UNCHANGED <<clock, pendingLogins, users, sessions, request, granted, grants, restarts>>

FindUser(k) ==
  /\ CallbackAt(k, "finding")
  /\ callback' = [callback EXCEPT ![k].step = IF users = << >> THEN "inserting" ELSE "updating"]
  /\ UNCHANGED <<clock, pendingLogins, users, sessions, request, granted, grants, restarts>>

LoggedIn(roles) == roles

UpdateUser(k) ==
  /\ CallbackAt(k, "updating")
  /\ users' = [u \in DOMAIN users |-> LoggedIn(users[u])]
  /\ callback' = [callback EXCEPT ![k].step = "creating", ![k].roles = users'[1]]
  /\ UNCHANGED <<clock, pendingLogins, sessions, request, granted, grants, restarts>>

\* Mutant: oidc_sub is indexed but not unique.
NotUnique == TRUE

SubIsFree == users = << >>

\* Of two first logins one violates the unique constraint and is answered 500.
InsertUser(k) ==
  /\ CallbackAt(k, "inserting")
  /\ IF SubIsFree
     THEN /\ users' = Append(users, DEFAULT_ROLES)
          /\ callback' = [callback EXCEPT ![k].step = "creating", ![k].roles = DEFAULT_ROLES]
     ELSE /\ callback' = [callback EXCEPT ![k].step = "refused"]
          /\ UNCHANGED users
  /\ UNCHANGED <<clock, pendingLogins, sessions, request, granted, grants, restarts>>

\* createSession, the cookie and the token, whose claims repeat the roles the
\* login has read.
CreateSession(k) ==
  /\ CallbackAt(k, "creating")
  /\ sessions' = [sessions EXCEPT ![k] =
                    [expires |-> clock + SessionTtl, tokenUntil |-> clock + TokenTtl,
                     tokenRoles |-> callback[k].roles, revoked |-> FALSE]]
  /\ callback' = [callback EXCEPT ![k].step = "done"]
  /\ UNCHANGED <<clock, pendingLogins, users, request, granted, grants, restarts>>

\* logout, and its repetition, stamp a row that is not revoked yet.
Logout(k) ==
  /\ CallbackAt(k, "done") /\ ~ sessions[k].revoked
  /\ sessions' = [sessions EXCEPT ![k].revoked = TRUE]
  /\ UNCHANGED <<clock, pendingLogins, callback, users, request, granted, grants, restarts>>

\* An administrator sets the person's roles in the users row.
Grant(role) ==
  /\ grants < MaxGrants /\ users # << >>
  /\ grants' = grants + 1
  /\ users' = [users EXCEPT ![1] = role]
  /\ granted' = role
  /\ request' = [r \in Requests |-> [request[r] EXCEPT !.held = @ \cup {role}]]
  /\ UNCHANGED <<clock, pendingLogins, callback, sessions, restarts>>

Expired(k) == sessions[k].expires < clock

\* A request brings the cookie or the token; an expired token counts as none.
Arrive(r, k, bearer) ==
  /\ RequestAt(r, "idle") /\ CallbackAt(k, "done")
  /\ request' = [request EXCEPT ![r] =
                   [step |-> IF bearer /\ clock >= sessions[k].tokenUntil THEN "anonymous" ELSE "finding",
                    sid |-> {k}, roles |-> {}, held |-> {granted},
                    late |-> sessions[k].revoked \/ Expired(k)]]
  /\ UNCHANGED <<clock, pendingLogins, callback, users, sessions, granted, grants, restarts>>

\* findActiveSession, and the comparison of expires_at.
FoundActive(k) == ~ sessions[k].revoked /\ ~ Expired(k)

FindSession(r) ==
  /\ RequestAt(r, "finding")
  /\ request' = [request EXCEPT ![r].step =
                   IF \E k \in request[r].sid : FoundActive(k) THEN "loading" ELSE "anonymous"]
  /\ UNCHANGED <<clock, pendingLogins, callback, users, sessions, granted, grants, restarts>>

\* Mutant: the principal has the roles claimed by the token.
ClaimedRoles(r) == {sessions[k].tokenRoles : k \in request[r].sid}

LoadedRoles(r) == {users[1]}

\* loadUser: the request goes on with the roles of the row.
LoadUser(r) ==
  /\ RequestAt(r, "loading")
  /\ request' = [request EXCEPT ![r].step = "admitted", ![r].roles = LoadedRoles(r)]
  /\ UNCHANGED <<clock, pendingLogins, callback, users, sessions, granted, grants, restarts>>

Tick ==
  /\ clock < MaxTime
  /\ clock' = clock + 1
  /\ UNCHANGED <<pendingLogins, callback, users, sessions, request, granted, grants, restarts>>

\* The pruner's timer.
Prune ==
  /\ pendingLogins' = [p \in Fresh |-> pendingLogins[p]]
  /\ UNCHANGED <<clock, callback, users, sessions, request, granted, grants, restarts>>

\* The server restarts: the map of states and what was in flight are gone.
Restart ==
  /\ restarts < MaxRestarts
  /\ restarts' = restarts + 1
  /\ pendingLogins' = [s \in {} |-> 0]
  /\ callback' = [k \in Callbacks |-> IF callback[k].step \in {"idle", "done"} THEN callback[k]
                                      ELSE [callback[k] EXCEPT !.step = "refused"]]
  /\ request' = [r \in Requests |-> IF request[r].step \in {"idle", "admitted"} THEN request[r]
                                    ELSE [request[r] EXCEPT !.step = "anonymous"]]
  /\ UNCHANGED <<clock, users, sessions, granted, grants>>

SignNext ==
  \/ \E s \in Logins : Login(s) \/ \E k \in Callbacks : Callback(k, s)
  \/ \E k \in Callbacks :
       Exchange(k) \/ FindUser(k) \/ UpdateUser(k) \/ InsertUser(k) \/ CreateSession(k) \/ Logout(k)
  \/ \E r \in Requests :
       FindSession(r) \/ LoadUser(r)
       \/ \E k \in Callbacks, bearer \in BOOLEAN : Arrive(r, k, bearer)
  \/ (\E role \in Roles : Grant(role)) \/ Tick \/ Prune \/ Restart

SignSpec == SignInit /\ [][SignNext]_signVars

-----------------------------------------------------------------------------
\* Well typed, and the person has one users row at most.
SignTypeOK ==
  /\ clock \in 0..MaxTime
  /\ DOMAIN pendingLogins \subseteq Logins
  /\ users = << >> \/ users \in {<<role>> : role \in Roles}
  /\ \A k \in Callbacks :
       /\ callback[k].step \in {"idle", "exchanging", "finding", "inserting", "updating",
                                "creating", "done", "refused"}
       /\ sessions[k] # NoSession => CallbackAt(k, "done")
  /\ \A r \in Requests :
       request[r].step \in {"idle", "finding", "loading", "admitted", "anonymous"}

\* A login opens at most one session, however often its callback is requested.
OneSessionPerLogin ==
  \A k, j \in Callbacks :
    CallbackAt(k, "done") /\ CallbackAt(j, "done") /\ callback[k].of = callback[j].of => k = j

\* "A leaked signed token is dead the moment its session is revoked", and a new
\* login "never rewrites roles" (auth-service.ts:6-12): a request that comes
\* after the logout, or after the session's end, is never admitted, by cookie or
\* by token; one that is acts with roles an administrator had set while it was
\* served, whatever its token claims and whatever logins were under way.
AccessIsCurrent ==
  \A r \in Requests : RequestAt(r, "admitted") =>
    ~ request[r].late /\ request[r].roles \subseteq request[r].held
=============================================================================
