------------------------------- MODULE Login -------------------------------
(***************************************************************************)
(* Login states, browser sessions and revoked bearer tokens: the handlers  *)
(* of /api/v1/auth, the authentication of every request of the API and of  *)
(* the MCP gateway, and the retention pass that deletes their rows.        *)
(*                                                                         *)
(* A handler is a thread of the API or the gateway that serves one request *)
(* at a time; each of its store calls is a step, and the identity provider *)
(* is asked between two of them.  One provider, one clock: time passes     *)
(* between steps, and a call uses the time of its step.  The tokens the    *)
(* provider issues are external: Issued says what each one claims.         *)
(***************************************************************************)
EXTENDS Integers, FiniteSets

CONSTANTS
  Handler,      \* threads that serve requests
  LoginState,   \* opaque state parameters: one per login that is started
  Session,      \* opaque cookies: one per session, numbered as they are drawn
  Token,        \* bearer and ID tokens
  Issued,       \* what a token claims: [expires, subject, sid]
  Sid, Subject, \* the provider's session ids and users
  NoSid,        \* a token without a sid claim
  Bearer,       \* the origin of a session no login state led to
  Local,        \* the token of a session opened with a password
  StateTTL,     \* AuthLoginStateTTL
  SessionTTL,   \* AuthSessionTTL
  Leeway,       \* the sixty seconds validateClaims adds to a token's life
  MaxTime       \* bound: the clock stops here

Time  == 0 .. MaxTime
Never == -1                          \* a timestamp column that is NULL

ASSUME LoginAssumption ==
  /\ Issued \in [Token -> [expires : Time, subject : Subject, sid : Sid \cup {NoSid}]]
  /\ {StateTTL, SessionTTL, Leeway, MaxTime} \cup Session \subseteq Nat
  /\ Local \notin Token /\ Bearer \notin LoginState /\ Token \cap Session = {}

VARIABLES
  mode,      \* the AuthMode the processes run with
  now,       \* the clock
  states,    \* auth_login_states: the row of each state parameter
  sessions,  \* auth_sessions: the row of each cookie
  revoked,   \* auth_token_revocations: expires_at of each token's row, or Never
  handler,   \* what each handler is about to do
  pass,      \* the retention pass under way
  dead       \* history: sessions and tokens whose revocation has been stored

vars == <<mode, now, states, sessions, revoked, handler, pass, dead>>

Unused  == [row |-> "unused"]
Idle    == [step |-> "idle"]
Resting == [step |-> "rest", cutoff |-> 0]

\* No cookie or state parameter is drawn twice: a deleted row leaves its origin.
DeletedRow == [row : {"deleted"}, origin : LoginState \cup {Bearer}]
StateRow ==
  [row : {"stored"}, origin : LoginState,
   expires : 0 .. MaxTime + StateTTL, consumed : Time \cup {Never}]
SessionRow ==
  [row : {"stored"}, token : Token \cup {Local}, origin : LoginState \cup {Bearer},
   expires : 0 .. MaxTime + SessionTTL, revoked : Time \cup {Never}]
Work ==
  {Idle}
    \cup [step : {"exchange"}, origin : LoginState]
    \cup [step : {"identify"}, origin : LoginState, token : Token]
    \cup [step : {"create"}, origin : LoginState \cup {Bearer}, token : Token \cup {Local}]
    \cup [step : {"verify"}, for : {"request", "session"}, token : Token, missed : BOOLEAN]
    \cup [step : {"revoke_token"}, token : Token, cookie : Session \cup {Local}]
    \cup [step : {"revoke_session"}, cookie : Session]

-----------------------------------------------------------------------------
(* What the tables and the verifier answer. *)

Stored(table, k) == table[k].row = "stored"

\* GetAuthSession finds the row of a cookie.
Usable(s) ==
  /\ Stored(sessions, s)
  /\ sessions[s].revoked = Never
  /\ sessions[s].expires > now

ConsumableTwice(l) == Stored(states, l) /\ states[l].expires > now   \* a lost condition

\* ConsumeAuthLoginState updates the row of a state parameter.
Consumable(l) ==
  /\ Stored(states, l)
  /\ states[l].consumed = Never
  /\ states[l].expires > now

IsAuthTokenRevoked(t) == revoked[t] > now

\* validateClaims: a token is good until Leeway after it has expired.
ValidToken(t) == Issued[t].expires >= now - Leeway

\* An OIDC session ends with its token at the latest.
SessionExpiryOfTTL(t) == now + SessionTTL                            \* a lost minimum
SessionExpiry(t) ==
  IF t \in Token /\ Issued[t].expires < now + SessionTTL
  THEN Issued[t].expires ELSE now + SessionTTL

\* The revocation of a token is kept until the token expires.
RevocationExpiryOfSession(t) == now + SessionTTL                     \* the session's lifetime
RevocationExpiry(t) == Issued[t].expires

Goto(h, work) == handler' = [handler EXCEPT ![h] = work]
Rows == <<states, sessions, revoked>>

-----------------------------------------------------------------------------
Init ==
  /\ mode \in {"oidc", "local"}
  /\ now = 0
  /\ states = [l \in LoginState |-> Unused]
  /\ sessions = [s \in Session |-> Unused]
  /\ revoked = [t \in Token |-> Never]
  /\ handler = [h \in Handler |-> Idle]
  /\ pass = Resting
  /\ dead = {}

TimePasses ==
  /\ now < MaxTime
  /\ now' = now + 1
  /\ UNCHANGED <<mode, Rows, handler, pass, dead>>

-----------------------------------------------------------------------------
(* Logging in. *)

\* GET /auth/login stores a login state and sends the browser to the provider.
AuthLogin(l) ==
  /\ mode = "oidc"
  /\ states[l] = Unused
  /\ states' = [states EXCEPT ![l] =
       [row |-> "stored", origin |-> l, expires |-> now + StateTTL, consumed |-> Never]]
  /\ UNCHANGED <<mode, now, sessions, revoked, handler, pass, dead>>

\* GET /auth/callback: the state parameter is consumed in one statement.
AuthCallback(h, l) ==
  /\ handler[h] = Idle
  /\ mode = "oidc"
  /\ Consumable(l)
  /\ states' = [states EXCEPT ![l].consumed = now]
  /\ Goto(h, [step |-> "exchange", origin |-> l])
  /\ UNCHANGED <<mode, now, sessions, revoked, pass, dead>>

\* The provider answers the code with an ID token; an error ends the request
\* (Fail).
ExchangeAuthCode(h, t) ==
  /\ handler[h].step = "exchange"
  /\ Goto(h, [step |-> "identify", origin |-> handler[h].origin, token |-> t])
  /\ UNCHANGED <<mode, now, Rows, pass, dead>>

\* The ID token is verified; one that is not valid, or whose nonce is another
\* login's, ends the request (Fail).
IdentifyUser(h) ==
  /\ handler[h].step = "identify"
  /\ ValidToken(handler[h].token)
  /\ Goto(h, [step |-> "create", origin |-> handler[h].origin, token |-> handler[h].token])
  /\ UNCHANGED <<mode, now, Rows, pass, dead>>

\* POST /auth/session of the local mode: the password is right.
PasswordLogin(h) ==
  /\ handler[h] = Idle
  /\ mode = "local"
  /\ Goto(h, [step |-> "create", origin |-> Bearer, token |-> Local])
  /\ UNCHANGED <<mode, now, Rows, pass, dead>>

NewSession(work) ==
  [row |-> "stored", token |-> work.token, origin |-> work.origin,
   expires |-> SessionExpiry(work.token), revoked |-> Never]

\* createAuthSessionWithExternalID stores the row and sets the cookie.
CreateAuthSession(h, s) ==
  /\ handler[h].step = "create"
  /\ sessions[s] = Unused /\ \A r \in Session : r < s => sessions[r] # Unused
  /\ sessions' = [sessions EXCEPT ![s] = NewSession(handler[h])]
  /\ Goto(h, Idle)
  /\ UNCHANGED <<mode, now, states, revoked, pass, dead>>

-----------------------------------------------------------------------------
(* Authenticating a request: a cookie is looked up in one step (Usable); a  *)
(* request that has none, or one that is refused, goes on with its token.   *)

\* A bearer token is looked up among the revoked ones.  A lookup the database
\* does not answer counts as "not revoked", so that a revoked token may get on
\* as well.  History: `missed` when the database has answered that a revoked
\* token is not.
BearerLookup(h, t, for) ==
  /\ handler[h] = Idle
  /\ mode = "oidc"
  /\ Goto(h, [step |-> "verify", for |-> for, token |-> t,
              missed |-> t \in dead /\ ~IsAuthTokenRevoked(t)])
  /\ UNCHANGED <<mode, now, Rows, pass, dead>>

AuthContext(h, t) == BearerLookup(h, t, "request")
AuthSession(h, t) == BearerLookup(h, t, "session")                   \* POST /auth/session

\* The token is verified and its user upserted: the request is served, or the
\* session created next.
LetsIn(h) == handler[h].step = "verify" /\ ValidToken(handler[h].token)

BearerVerified(h) ==
  /\ LetsIn(h)
  /\ Goto(h, IF handler[h].for = "request" THEN Idle
             ELSE [step |-> "create", origin |-> Bearer, token |-> handler[h].token])
  /\ UNCHANGED <<mode, now, Rows, pass, dead>>

\* A store call, the provider or the process fails: the request is over.
Fail(h) ==
  /\ handler[h] # Idle
  /\ Goto(h, Idle)
  /\ UNCHANGED <<mode, now, Rows, pass, dead>>

-----------------------------------------------------------------------------
(* Logging out. *)

\* POST /auth/logout with a bearer token that verifies, a cookie, or both.
AuthLogout(h, cookie) ==
  /\ handler[h] = Idle
  /\ cookie # Local => sessions[cookie] # Unused
  /\ \/ /\ mode = "oidc"
        /\ \E t \in Token :
             /\ ValidToken(t)
             /\ Goto(h, [step |-> "revoke_token", token |-> t, cookie |-> cookie])
     \/ /\ cookie # Local
        /\ Goto(h, [step |-> "revoke_session", cookie |-> cookie])
  /\ UNCHANGED <<mode, now, Rows, pass, dead>>

\* RevokeAuthToken: the row is inserted, or updated.
WithRevocation(t) == [revoked EXCEPT ![t] = RevocationExpiry(t)]

\* The token's hash is stored; a store that fails is only noted in the audit
\* row, and the cookie is revoked all the same.
RevokeAuthToken(h, ok) ==
  /\ handler[h].step = "revoke_token"
  /\ LET t == handler[h].token
     IN  /\ revoked' = IF ok THEN WithRevocation(t) ELSE revoked
         /\ dead' = IF ok THEN dead \cup {t} ELSE dead
  /\ Goto(h, IF handler[h].cookie = Local THEN Idle
             ELSE [step |-> "revoke_session", cookie |-> handler[h].cookie])
  /\ UNCHANGED <<mode, now, states, sessions, pass>>

\* Sessions are revoked once: the first timestamp stays.
Revoke(S) ==
  /\ sessions' = [s \in Session |->
       IF s \in S /\ Stored(sessions, s) /\ sessions[s].revoked = Never
       THEN [sessions[s] EXCEPT !.revoked = now] ELSE sessions[s]]
  /\ dead' = dead \cup {s \in S : sessions[s] # Unused}

RevokeAuthSession(h) ==
  /\ handler[h].step = "revoke_session"
  /\ Revoke({handler[h].cookie})
  /\ Goto(h, Idle)
  /\ UNCHANGED <<mode, now, states, revoked, pass>>

\* POST /auth/backchannel/logout with a verified logout token: the sessions of
\* its sid, or all those of its subject when it has none.
OfLogout(sid, subject) ==
  {s \in Session : /\ Stored(sessions, s)
                   /\ sessions[s].token \in Token
                   /\ IF sid # NoSid THEN Issued[sessions[s].token].sid = sid
                      ELSE Issued[sessions[s].token].subject = subject}

BackchannelLogout(sid, subject) ==
  /\ mode = "oidc"
  /\ Revoke(OfLogout(sid, subject))
  /\ UNCHANGED <<mode, now, states, revoked, handler, pass>>

-----------------------------------------------------------------------------
(* Retention: one pass deletes from the three tables, one after the other,  *)
(* what had ended when it began.                                            *)

Cleanup(table, ended(_)) == [k \in DOMAIN table |->
  IF Stored(table, k) /\ ended(table[k]) THEN [row |-> "deleted", origin |-> table[k].origin]
  ELSE table[k]]

BeforeNever(stamp) == stamp # Never                                  \* a lost cutoff
Before(stamp) == stamp # Never /\ stamp < pass.cutoff

RetentionStarts ==
  /\ pass = Resting
  /\ pass' = [step |-> "revocations", cutoff |-> now]
  /\ UNCHANGED <<mode, now, Rows, handler, dead>>

CleanupAuthTokenRevocations ==
  /\ pass.step = "revocations"
  /\ revoked' = [t \in Token |-> IF Before(revoked[t]) THEN Never ELSE revoked[t]]
  /\ pass' = [pass EXCEPT !.step = "sessions"]
  /\ UNCHANGED <<mode, now, states, sessions, handler, dead>>

CleanupAuthSessions ==
  /\ pass.step = "sessions"
  /\ sessions' = Cleanup(sessions, LAMBDA row : Before(row.expires) \/ Before(row.revoked))
  /\ pass' = [pass EXCEPT !.step = "states"]
  /\ UNCHANGED <<mode, now, states, revoked, handler, dead>>

CleanupAuthLoginStates ==
  /\ pass.step = "states"
  /\ states' = Cleanup(states, LAMBDA row : Before(row.expires) \/ Before(row.consumed))
  /\ pass' = Resting
  /\ UNCHANGED <<mode, now, sessions, revoked, handler, dead>>

-----------------------------------------------------------------------------
Next ==
  \/ TimePasses
  \/ \E l \in LoginState : AuthLogin(l)
  \/ \E h \in Handler, l \in LoginState : AuthCallback(h, l)
  \/ \E h \in Handler, t \in Token : ExchangeAuthCode(h, t)
  \/ \E h \in Handler : IdentifyUser(h)
  \/ \E h \in Handler : PasswordLogin(h)
  \/ \E h \in Handler, s \in Session : CreateAuthSession(h, s)
  \/ \E h \in Handler, t \in Token : AuthContext(h, t) \/ AuthSession(h, t)
  \/ \E h \in Handler : BearerVerified(h)
  \/ \E h \in Handler : Fail(h)
  \/ \E h \in Handler, cookie \in Session \cup {Local} : AuthLogout(h, cookie)
  \/ \E h \in Handler, ok \in BOOLEAN : RevokeAuthToken(h, ok)
  \/ \E h \in Handler : RevokeAuthSession(h)
  \/ \E sid \in Sid \cup {NoSid}, subject \in Subject : BackchannelLogout(sid, subject)
  \/ RetentionStarts
  \/ CleanupAuthTokenRevocations
  \/ CleanupAuthSessions
  \/ CleanupAuthLoginStates

Spec == Init /\ [][Next]_vars

-----------------------------------------------------------------------------
(* The tables hold rows, every handler is between two store calls, and the  *)
(* retention pass is at one of its three deletes.                           *)
TypeOK ==
  /\ mode \in {"oidc", "local"}
  /\ now \in Time
  /\ states \in [LoginState -> {Unused} \cup DeletedRow \cup StateRow]
  /\ sessions \in [Session -> {Unused} \cup DeletedRow \cup SessionRow]
  /\ revoked \in [Token -> Time \cup {Never}]
  /\ handler \in [Handler -> Work]
  /\ pass \in [step : {"rest", "revocations", "sessions", "states"}, cutoff : Time]
  /\ dead \subseteq Session \cup Token

(* A login state leads to one session at most, whatever becomes of it: two  *)
(* callbacks with the same state parameter, on two threads, a callback that *)
(* fails half way and is repeated, or a state the retention pass has        *)
(* deleted (authCallback, ConsumeAuthLoginState).                           *)
OneSessionPerLogin ==
  \A l \in LoginState :
    Cardinality({s \in Session : sessions[s] # Unused /\ sessions[s].origin = l}
      \cup {h \in Handler : handler[h].step \in {"exchange", "identify", "create"} /\ handler[h].origin = l}) <= 1

(* A request that began after a logout had stored the revocation of its     *)
(* cookie or token is refused, whatever retention has deleted since; only a *)
(* token in the leeway after its expiry, or whose lookup the database did   *)
(* not answer, may pass (authContext, IsAuthTokenRevoked,                   *)
(* runRetentionCleanup).                                                    *)
RevokedIsRefused ==
  /\ \A s \in dead \cap Session : ~Usable(s)
  /\ \A h \in Handler :
       LetsIn(h) /\ handler[h].missed => Issued[handler[h].token].expires <= now

(* No cookie is accepted when the token its session was opened with has     *)
(* expired, although the token itself is for as long as the leeway lasts    *)
(* (createOIDCSession, validateClaims).                                     *)
SessionsEndWithTheirToken ==
  \A s \in Session : Usable(s) /\ sessions[s].token \in Token =>
    now < Issued[sessions[s].token].expires

(* What has ended stays ended: a session or a login state that was stored   *)
(* and is usable no longer never is again, and a token's revocation is not  *)
(* forgotten before the token expires - across logouts, repeated logouts    *)
(* and the three deletes of the retention pass.  In the leeway after its    *)
(* expiry a revoked token may be accepted again.                            *)
NeverUsableAgain ==
  [][ /\ \A s \in Session : sessions[s] # Unused /\ ~Usable(s) => ~Usable(s)'
      /\ \A l \in LoginState : states[l] # Unused /\ ~Consumable(l) => ~Consumable(l)'
      /\ \A t \in Token : IsAuthTokenRevoked(t) /\ now' < Issued[t].expires =>
                            IsAuthTokenRevoked(t)' ]_vars
=============================================================================
