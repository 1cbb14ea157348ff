---------------------------- MODULE AuthSession ----------------------------
(***************************************************************************)
(* The sessions of one user in one browser: the tabs of the web client     *)
(* (frontend/src/auth/AuthContext.tsx, core/auth/authSessionService.ts,    *)
(* api/auth.ts, api/client.ts), the cookie they share and the server's     *)
(* refresh tokens (RefreshTokens).                                         *)
(*                                                                         *)
(* An Activation is one async function of a tab that is waiting for the    *)
(* answer to a request. A request carries the cookie and the access token  *)
(* of the moment it was sent; several may be under way, and their answers  *)
(* arrive in any order. A 401 starts the refresh of the access token while *)
(* the error goes on to the caller, which does nothing more that matters   *)
(* here: the activation that asked becomes the one that recovers.          *)
(***************************************************************************)
EXTENDS RefreshTokens, Naturals

CONSTANTS
  Tab,        (* the tabs of the browser                                  *)
  Flow,       (* the activations that may exist at a time                 *)
  TabOf,      (* the tab each runs in                                     *)
  Fault,      (* what may go wrong, a subset of FaultKind                 *)
  MaxFaults   (* bound: how many things go wrong                          *)

\* "network": a request or its answer is lost; "late": a request arrives after
\* its sender has given it up; "crash": the server dies during a refresh;
\* "misread": refresh_store.json cannot be read once; "reload": a tab with
\* something under way is reloaded; "expiry": a refresh token expires.
FaultKind == {"network", "late", "crash", "misread", "reload", "expiry"}

ASSUME TabOfAssumption == TabOf \in [Flow -> Tab]
ASSUME FaultAssumption == Fault \subseteq FaultKind
ASSUME BoundAssumption == MaxFaults \in Nat

VARIABLES
  jar,        (* the browser's cookie refresh_token, or NoToken           *)
  access,     (* whether each tab has an access token the server accepts  *)
  state,      (* each tab: "closed", "loading", "guest" or "authed"       *)
  flow,       (* each activation: op, call, and what travels with it      *)
  late,       (* requests under way whose sender has stopped waiting      *)
  faults,     (* how many things have gone wrong                          *)
  (* history *)
  answered,   (* the tokens the server has put in an answer               *)
  lost,       (* the tokens of answers that reach nobody                  *)
  reused,     (* the families in which a reuse was detected               *)
  misread,    (* whether the store has ever been misread                  *)
  loggedOut   (* the tabs whose last user action was to log out           *)

tabVars == <<access, state>>
history == <<answered, lost, reused, misread, loggedOut>>
vars == <<storeVars, jar, tabVars, flow, late, faults, history>>

Op == {"initialize", "authenticate", "call", "recover", "logout"}

\* The requests each operation makes.
CallsOf(op) ==
  CASE op = "none" -> {"none"}
    [] op = "initialize" -> {"status", "refresh", "me"}
    [] op = "authenticate" -> {"login", "me"}
    [] op = "call" -> {"api"}
    [] op = "recover" -> {"refresh", "me"}
    [] op = "logout" -> {"logout"}

Cookie == Token \cup {NoToken}

\* cookie and bearer were sent; answer and given have come back.
Activation ==
  [op : Op \cup {"none"}, call : UNION {CallsOf(op) : op \in Op \cup {"none"}},
   cookie : Cookie, bearer : BOOLEAN,
   answer : {"none", "ok", "canRefresh", "refused"}, given : Cookie]

TypeOK ==
  /\ StoreTypeOK
  /\ jar \in Cookie
  /\ access \in [Tab -> BOOLEAN]
  /\ state \in [Tab -> {"closed", "loading", "guest", "authed"}]
  /\ flow \in [Flow -> Activation]
  /\ \A f \in Flow : flow[f].call \in CallsOf(flow[f].op)
  /\ late \in SUBSET [call : {"refresh", "logout"}, cookie : Cookie]
  /\ faults \in 0 .. MaxFaults
  /\ answered \in SUBSET drawn
  /\ lost \in SUBSET answered
  /\ reused \in SUBSET drawn
  /\ misread \in BOOLEAN
  /\ loggedOut \in SUBSET Tab

Sent(op, call, cookie, bearer) ==
  [op |-> op, call |-> call, cookie |-> cookie, bearer |-> bearer,
   answer |-> "none", given |-> NoToken]

Idle == Sent("none", "none", NoToken, FALSE)

Init ==
  /\ StoreInit
  /\ jar = NoToken
  /\ access = [tab \in Tab |-> FALSE]
  /\ state = [tab \in Tab |-> "closed"]
  /\ flow = [f \in Flow |-> Idle]
  /\ late = {}
  /\ faults = 0
  /\ answered = {}
  /\ lost = {}
  /\ reused = {}
  /\ misread = FALSE
  /\ loggedOut = {}

-----------------------------------------------------------------------------
(* Helpers                                                                 *)

Goto(f, activation) == flow' = [flow EXCEPT ![f] = activation]

Happens(kind) ==
  /\ kind \in Fault
  /\ faults < MaxFaults
  /\ faults' = faults + 1

\* Bound: what an activation begins, or a late request, draws at most one token;
\* nothing is begun unless there is one left for each.
Room ==
  Cardinality({f \in Flow : flow[f] # Idle}) + Cardinality(late)
    < Cardinality(Token \ drawn)

Asked(f, call) == flow[f].call = call /\ flow[f].answer = "none"
Answers(f, call, answer) == flow[f].call = call /\ flow[f].answer = answer

Answer(f, answer, given) ==
  /\ Goto(f, [flow[f] EXCEPT !.answer = answer, !.given = given])
  /\ answered' = answered \cup ({given} \ {NoToken})

\* applyAuthState({ status: "guest" }), which also clears the access token.
BecomeGuest(tab) ==
  /\ state' = [state EXCEPT ![tab] = "guest"]
  /\ access' = [access EXCEPT ![tab] = FALSE]

BecomeAuthed(tab) ==
  /\ state' = [state EXCEPT ![tab] = "authed"]
  /\ UNCHANGED access

\* tokenManager.setToken, the cookie being set by the same answer; then
\* refreshUserState asks who the user is.
TakeTokens(f) ==
  /\ jar' = flow[f].given
  /\ access' = [access EXCEPT ![TabOf[f]] = TRUE]
  /\ Goto(f, Sent(flow[f].op, "me", flow[f].given, TRUE))
  /\ UNCHANGED state

-----------------------------------------------------------------------------
(* What users do                                                           *)

\* A tab is opened, or reloaded with nothing under way: AuthProvider mounts.
Load(f) ==
  LET tab == TabOf[f] IN
  /\ \A g \in Flow : TabOf[g] = tab => flow[g] = Idle
  /\ Room
  /\ state' = [state EXCEPT ![tab] = "loading"]
  /\ access' = [access EXCEPT ![tab] = FALSE]
  /\ loggedOut' = loggedOut \ {tab}
  /\ Goto(f, Sent("initialize", "status", jar, FALSE))
  /\ UNCHANGED <<storeVars, jar, late, faults, answered, lost, reused, misread>>

\* The login page sends a user who is authed away, and is busy until its one
\* login ends. (Registering, and a login that is refused, concern no token.)
Authenticate(f) ==
  LET tab == TabOf[f] IN
  /\ flow[f] = Idle
  /\ Room
  /\ state[tab] \in {"loading", "guest"}
  /\ \A g \in Flow : TabOf[g] = tab => flow[g].op # "authenticate"
  /\ loggedOut' = loggedOut \ {tab}
  /\ Goto(f, Sent("authenticate", "login", jar, FALSE))
  /\ UNCHANGED <<storeVars, jar, tabVars, late, faults, answered, lost, reused, misread>>

\* Any request to the API that needs an access token: a sync.
Call(f) ==
  LET tab == TabOf[f] IN
  /\ flow[f] = Idle
  /\ Room
  /\ state[tab] = "authed"
  /\ Goto(f, Sent("call", "api", jar, access[tab]))
  /\ UNCHANGED <<storeVars, jar, tabVars, late, faults, history>>

Logout(f) ==
  LET tab == TabOf[f] IN
  /\ flow[f] = Idle
  /\ Room
  /\ state[tab] = "authed"
  /\ Goto(f, Sent("logout", "logout", jar, access[tab]))
  /\ UNCHANGED <<storeVars, jar, tabVars, late, faults, history>>

-----------------------------------------------------------------------------
(* The server                                                              *)

\* POST /auth/login.
ServeLogin(f) ==
  /\ Asked(f, "login")
  /\ Login
  /\ Answer(f, "ok", Fresh)
  /\ UNCHANGED <<jar, tabVars, late, faults, lost, reused, misread, loggedOut>>

\* POST /auth/refresh. (The deletion of the cookie after a reuse is lost: it is
\* made on a response that the HTTPException replaces.)
ServeRefresh(f) ==
  LET t == flow[f].cookie IN
  /\ Asked(f, "refresh")
  /\ \/ Rotate(t) /\ Answer(f, "ok", Fresh) /\ UNCHANGED reused
     \/ /\ RevokeReused(t)
        /\ Answer(f, "refused", NoToken)
        /\ reused' = reused \cup {store[t].family}
     \/ RefuseRefresh(t) /\ Answer(f, "refused", NoToken) /\ UNCHANGED reused
  /\ UNCHANGED <<jar, tabVars, late, faults, lost, misread, loggedOut>>

\* GET /auth/status. A token that was replaced can refresh, it says.
ServeStatus(f) ==
  /\ Asked(f, "status")
  /\ Answer(f, IF flow[f].bearer THEN "ok" ELSE
               IF Active(flow[f].cookie) THEN "canRefresh" ELSE "refused", NoToken)
  /\ UNCHANGED <<storeVars, jar, tabVars, late, faults, lost, reused, misread, loggedOut>>

\* POST /auth/logout: require_auth comes first.
ServeLogout(f) ==
  /\ Asked(f, "logout")
  /\ \/ flow[f].bearer /\ Revoke(flow[f].cookie) /\ Answer(f, "ok", NoToken)
     \/ ~flow[f].bearer /\ UNCHANGED storeVars /\ Answer(f, "refused", NoToken)
  /\ UNCHANGED <<jar, tabVars, late, faults, lost, reused, misread, loggedOut>>

\* GET /auth/me and the rest of the API: require_auth.
ServeAuthorized(f) ==
  /\ Asked(f, "me") \/ Asked(f, "api")
  /\ Answer(f, IF flow[f].bearer THEN "ok" ELSE "refused", NoToken)
  /\ UNCHANGED <<storeVars, jar, tabVars, late, faults, lost, reused, misread, loggedOut>>

\* A request is served while one reading of the store fails. (A logout is then
\* answered ok, having revoked nothing; a status is answered without a refresh.)
ServeBlindly(f) ==
  LET t == flow[f].cookie IN
  /\ Happens("misread")
  /\ misread' = TRUE
  /\ \/ Asked(f, "login") /\ LoginBlind /\ Answer(f, "ok", Fresh)
     \/ Asked(f, "refresh") /\ RotateBlind(t) /\ Answer(f, "ok", Fresh)
     \/ Asked(f, "refresh") /\ RotateCut(t) /\ Answer(f, "ok", Fresh)
     \/ Asked(f, "refresh") /\ UNCHANGED storeVars /\ Answer(f, "refused", NoToken)
     \/ /\ Asked(f, "logout") /\ flow[f].bearer
        /\ UNCHANGED storeVars /\ Answer(f, "ok", NoToken)
     \/ /\ Asked(f, "status") /\ ~flow[f].bearer
        /\ UNCHANGED storeVars /\ Answer(f, "refused", NoToken)
  /\ UNCHANGED <<jar, tabVars, late, lost, reused, loggedOut>>

\* A late request is served; nobody reads the answer.
LateArrives(r) ==
  LET t == r.cookie IN
  /\ late' = late \ {r}
  /\ \/ /\ r.call = "refresh" /\ Rotate(t)
        /\ answered' = answered \cup {Fresh}
        /\ lost' = lost \cup {Fresh}
        /\ UNCHANGED reused
     \/ /\ r.call = "refresh" /\ RevokeReused(t)
        /\ reused' = reused \cup {store[t].family}
        /\ UNCHANGED <<answered, lost>>
     \/ r.call = "refresh" /\ RefuseRefresh(t) /\ UNCHANGED <<answered, lost, reused>>
     \/ r.call = "logout" /\ Revoke(t) /\ UNCHANGED <<answered, lost, reused>>
  /\ UNCHANGED <<jar, tabVars, flow, faults, misread, loggedOut>>

-----------------------------------------------------------------------------
(* The answers                                                             *)

\* AuthSessionService.initialize.
StatusAnswered(f) ==
  /\ \/ Answers(f, "status", "ok") /\ BecomeAuthed(TabOf[f]) /\ Goto(f, Idle)
     \/ /\ Answers(f, "status", "canRefresh")
        /\ Goto(f, Sent("initialize", "refresh", jar, FALSE))
        /\ UNCHANGED tabVars
     \/ Answers(f, "status", "refused") /\ BecomeGuest(TabOf[f]) /\ Goto(f, Idle)
  /\ UNCHANGED <<storeVars, jar, late, faults, history>>

\* initialize and recoverFromUnauthorized.
RefreshAnswered(f) ==
  /\ \/ Answers(f, "refresh", "ok") /\ TakeTokens(f)
     \/ /\ Answers(f, "refresh", "refused")
        /\ BecomeGuest(TabOf[f])
        /\ Goto(f, Idle)
        /\ UNCHANGED jar
  /\ UNCHANGED <<storeVars, late, faults, history>>

\* authenticate.
LoginAnswered(f) ==
  /\ Answers(f, "login", "ok")
  /\ TakeTokens(f)
  /\ UNCHANGED <<storeVars, late, faults, history>>

\* refreshUserState: a 401 makes a guest.
MeAnswered(f) ==
  /\ \/ Answers(f, "me", "ok") /\ BecomeAuthed(TabOf[f])
     \/ Answers(f, "me", "refused") /\ BecomeGuest(TabOf[f])
  /\ Goto(f, Idle)
  /\ UNCHANGED <<storeVars, jar, late, faults, history>>

\* The tab becomes a guest's whatever the answer is; a 401 starts a recovery.
LogoutAnswered(f) ==
  /\ \/ Answers(f, "logout", "ok") /\ jar' = NoToken /\ Goto(f, Idle)
     \/ /\ Answers(f, "logout", "refused")
        /\ Goto(f, Sent("recover", "refresh", jar, FALSE))
        /\ UNCHANGED jar
  /\ BecomeGuest(TabOf[f])
  /\ loggedOut' = loggedOut \cup {TabOf[f]}
  /\ UNCHANGED <<storeVars, late, faults, answered, lost, reused, misread>>

\* Mutant: a request that is refused is sent again.
ApiAnsweredRepeating(f) ==
  /\ \/ Answers(f, "api", "ok") /\ Goto(f, Idle)
     \/ /\ Answers(f, "api", "refused")
        /\ Goto(f, Sent("call", "api", jar, access[TabOf[f]]))
  /\ UNCHANGED <<storeVars, jar, tabVars, late, faults, history>>

ApiAnswered(f) ==
  /\ \/ Answers(f, "api", "ok") /\ Goto(f, Idle) /\ UNCHANGED access
     \/ /\ Answers(f, "api", "refused")
        /\ access' = [access EXCEPT ![TabOf[f]] = FALSE]
        /\ Goto(f, Sent("recover", "refresh", jar, FALSE))
  /\ UNCHANGED <<storeVars, jar, state, late, faults, history>>

-----------------------------------------------------------------------------
(* What goes wrong                                                         *)

\* The effect of a network error on the tab: status and refresh answer that
\* there is no session, initialize catches everything, logout goes on; what
\* authenticate, an API call or a recovery throws changes nothing.
Thrown(f) ==
  LET quiet == \/ flow[f].call \in {"login", "api"}
               \/ flow[f].call = "me" /\ flow[f].op # "initialize"
  IN /\ \/ quiet /\ UNCHANGED tabVars
        \/ ~quiet /\ BecomeGuest(TabOf[f])
     /\ loggedOut' = IF flow[f].call = "logout"
                     THEN loggedOut \cup {TabOf[f]}
                     ELSE loggedOut

\* The request of f, served or not, has no sender any more.
Abandoned(flows) == lost' = lost \cup ({flow[f].given : f \in flows} \ {NoToken})

\* The request is lost, or the answer.
NetworkError(f) ==
  /\ Happens("network")
  /\ flow[f] # Idle
  /\ Thrown(f)
  /\ Abandoned({f})
  /\ Goto(f, Idle)
  /\ UNCHANGED <<storeVars, jar, late, answered, reused, misread>>

\* The connection fails for the sender, but the request is on its way.
RequestLate(f) ==
  /\ Happens("late")
  /\ \/ Asked(f, "refresh")
     \/ Asked(f, "logout") /\ flow[f].bearer
  /\ late' = late \cup {[call |-> flow[f].call, cookie |-> flow[f].cookie]}
  /\ Thrown(f)
  /\ Goto(f, Idle)
  /\ UNCHANGED <<storeVars, jar, answered, lost, reused, misread>>

\* The server dies between the two saves of a rotation.
ServerDies(f) ==
  /\ Happens("crash")
  /\ Asked(f, "refresh")
  /\ RotateCut(flow[f].cookie)
  /\ Thrown(f)
  /\ Goto(f, Idle)
  /\ UNCHANGED <<jar, late, answered, lost, reused, misread>>

\* A tab is reloaded with something under way.
Reload(f) ==
  LET tab == TabOf[f]
      dropped == {g \in Flow : TabOf[g] = tab} IN
  /\ Happens("reload")
  /\ flow[f] # Idle
  /\ Room
  /\ Abandoned(dropped)
  /\ flow' = [g \in Flow |->
                IF g = f THEN Sent("initialize", "status", jar, FALSE) ELSE
                IF g \in dropped THEN Idle ELSE flow[g]]
  /\ state' = [state EXCEPT ![tab] = "loading"]
  /\ access' = [access EXCEPT ![tab] = FALSE]
  /\ loggedOut' = loggedOut \ {tab}
  /\ UNCHANGED <<storeVars, jar, late, answered, reused, misread>>

TokenExpires(t) ==
  /\ Happens("expiry")
  /\ Expire(t)
  /\ UNCHANGED <<jar, tabVars, flow, late, history>>

\* The 15 minutes of an access token are over: from here on the server treats
\* a request that carries it as one that carries none.
AccessExpires(tab) ==
  /\ access[tab]
  /\ access' = [access EXCEPT ![tab] = FALSE]
  /\ UNCHANGED <<storeVars, jar, state, flow, late, faults, history>>

-----------------------------------------------------------------------------
(* Specification                                                           *)

Begin(f) == Load(f) \/ Authenticate(f) \/ Call(f) \/ Logout(f)

Serve(f) ==
  \/ ServeLogin(f) \/ ServeRefresh(f) \/ ServeStatus(f)
  \/ ServeLogout(f) \/ ServeAuthorized(f)

Answered(f) ==
  \/ StatusAnswered(f) \/ RefreshAnswered(f) \/ LoginAnswered(f)
  \/ MeAnswered(f) \/ LogoutAnswered(f) \/ ApiAnswered(f)

GoWrong(f) ==
  \/ NetworkError(f) \/ RequestLate(f) \/ ServerDies(f)
  \/ ServeBlindly(f) \/ Reload(f)

Next ==
  \/ \E f \in Flow : Begin(f) \/ Serve(f) \/ Answered(f) \/ GoWrong(f)
  \/ \E r \in late : LateArrives(r)
  \/ \E t \in Token : TokenExpires(t)
  \/ \E tab \in Tab : AccessExpires(tab)

Spec == Init /\ [][Next]_vars

\* The server answers what reaches it and the event loop delivers the answer.
Fairness == \A f \in Flow : WF_vars(Serve(f) \/ Answered(f))

FairSpec == Spec /\ Fairness

-----------------------------------------------------------------------------
(* Properties                                                              *)

\* Once a reuse of a token is detected, every token of its family is revoked
\* and stays so: nobody can go on with that login (revoke_family). Provided the
\* store could be read.
ReusedFamilyIsDead ==
  ~misread => \A t \in Token :
                Known(t) /\ store[t].family \in reused => store[t].revoked

\* A login is usable by one token at a time: of the tokens the server has ever
\* answered, no two of one family are accepted by /auth/refresh, whatever
\* crashes and repetitions there were.
OneUsableToken ==
  ~misread => \A s, t \in answered :
                Usable(s) /\ Usable(t) /\ store[s].family = store[t].family => s = t

\* A token that is no longer accepted (replaced, revoked, expired or forgotten)
\* is never accepted again.
UnusableStaysUnusable ==
  [][\A t \in drawn : ~Usable(t) => ~Usable(t)']_vars

\* The browser's cookie lags behind the server only while the answer that
\* replaces it is under way, or if that answer was lost: two refreshes of its
\* own, or a lost answer, are the only ways to be taken for a thief.
JarIsCurrent ==
  Known(jar) /\ store[jar].replacedBy # NoToken =>
    \/ store[jar].replacedBy \in lost
    \/ \E f \in Flow : flow[f].given = store[jar].replacedBy

\* A tab whose user has logged out shows a guest until the user logs in again
\* or loads the page.
LogoutSticks == \A tab \in loggedOut : state[tab] # "authed"

\* Whatever is begun ends.
ActivationsEnd == \A f \in Flow : flow[f] # Idle ~> flow[f] = Idle
=============================================================================
