---------------------------- MODULE LoginProofs ----------------------------
(***************************************************************************)
(* What Login guarantees for every number of handlers, logins, sessions    *)
(* and tokens, whatever the tokens claim and however long the clock runs:  *)
(* a login leads to one session at most, what has been revoked is refused, *)
(* a session ends with its token, and what has ended stays ended.          *)
(***************************************************************************)
EXTENDS Login, FiniteSetTheorems, TLAPS

-----------------------------------------------------------------------------
(* Types *)

LEMMA Constants ==
  /\ MaxTime \in Nat /\ StateTTL \in Nat /\ SessionTTL \in Nat /\ Leeway \in Nat
  /\ \A s \in Session : s \in Nat
  /\ \A t \in Token : Issued[t].expires \in Time /\ Issued[t].expires \in Nat
  /\ \A t \in Token : Issued[t].sid \in Sid \cup {NoSid} /\ Issued[t].subject \in Subject
  /\ Time \subseteq Nat /\ Never \notin Time
BY LoginAssumption DEF Time, Never

\* What a handler's work holds.
LEMMA WorkFields ==
  ASSUME NEW w \in Work
  PROVE  /\ w.step \in {"idle", "exchange", "identify", "create", "verify",
                        "revoke_token", "revoke_session"}
         /\ w.step = "idle" => w = Idle
         /\ w.step = "exchange" => w.origin \in LoginState
         /\ w.step = "identify" => w.origin \in LoginState /\ w.token \in Token
         /\ w.step = "create" => /\ w.origin \in LoginState \cup {Bearer}
                                 /\ w.token \in Token \cup {Local}
         /\ w.step = "verify" => w.token \in Token /\ w.for \in {"request", "session"}
         /\ w.step = "revoke_token" => w.token \in Token /\ w.cookie \in Session \cup {Local}
         /\ w.step = "revoke_session" => w.cookie \in Session
BY DEF Work, Idle

LEMMA GotoTyped ==
  ASSUME handler \in [Handler -> Work], NEW h \in Handler, NEW w \in Work, Goto(h, w)
  PROVE  /\ handler' \in [Handler -> Work]
         /\ handler'[h] = w
         /\ \A g \in Handler \ {h} : handler'[g] = handler[g]
BY DEF Goto

LEMMA IdleIsWork == Idle \in Work /\ Idle.step = "idle"
BY DEF Work, Idle

LEMMA Deleted ==
  ASSUME NEW o \in LoginState \cup {Bearer}
  PROVE  [row |-> "deleted", origin |-> o] \in DeletedRow
BY DEF DeletedRow

LEMMA RowFields ==
  /\ Unused.row = "unused"
  /\ \A r \in DeletedRow : r.row = "deleted" /\ r.origin \in LoginState \cup {Bearer}
  /\ \A r \in StateRow : /\ r.row = "stored" /\ r.origin \in LoginState
                         /\ r.expires \in Nat /\ r.consumed \in Time \cup {Never}
  /\ \A r \in SessionRow : /\ r.row = "stored" /\ r.origin \in LoginState \cup {Bearer}
                           /\ r.token \in Token \cup {Local}
                           /\ r.expires \in Nat /\ r.revoked \in Time \cup {Never}
BY Constants DEF Unused, DeletedRow, StateRow, SessionRow

LEMMA TypesInit == Init => TypeOK
<1> SUFFICES ASSUME Init
             PROVE  TypeOK
  OBVIOUS
<1>1. now \in Time
  BY Constants DEF Init, Time
<1>2. handler \in [Handler -> Work]
  BY IdleIsWork DEF Init
<1>3. pass \in [step : {"rest", "revocations", "sessions", "states"}, cutoff : Time]
  BY Constants DEF Init, Resting, Time
<1> QED
  BY <1>1, <1>2, <1>3 DEF Init, TypeOK

\* The sessions a logout revokes.
LEMMA RevokeEffect ==
  ASSUME TypeOK, NEW S \in SUBSET Session, Revoke(S)
  PROVE  /\ sessions' \in [Session -> {Unused} \cup DeletedRow \cup SessionRow]
         /\ dead' = dead \cup {s \in S : sessions[s] # Unused}
         /\ \A s \in Session :
              \/ sessions'[s] = sessions[s] /\ ~(s \in S /\ Stored(sessions, s) /\ sessions[s].revoked = Never)
              \/ /\ Stored(sessions, s) /\ Stored(sessions, s)' /\ sessions'[s].revoked = now
                 /\ sessions[s].revoked = Never
                 /\ sessions'[s].token = sessions[s].token
                 /\ sessions'[s].origin = sessions[s].origin
                 /\ sessions'[s].expires = sessions[s].expires
<1>1. \A s \in Session : Stored(sessions, s) => sessions[s] \in SessionRow
  BY RowFields DEF TypeOK, Stored
<1>2. \A r \in SessionRow :
        /\ [r EXCEPT !.revoked = now] \in SessionRow
        /\ [r EXCEPT !.revoked = now].row = r.row
        /\ [r EXCEPT !.revoked = now].revoked = now
        /\ [r EXCEPT !.revoked = now].token = r.token
        /\ [r EXCEPT !.revoked = now].origin = r.origin
        /\ [r EXCEPT !.revoked = now].expires = r.expires
  BY DEF SessionRow, TypeOK
<1> QED
  BY <1>1, <1>2 DEF Revoke, TypeOK, Stored

\* What the retention pass leaves of a table.
LEMMA StatesCleaned ==
  ASSUME TypeOK, CleanupAuthLoginStates
  PROVE  /\ states' \in [LoginState -> {Unused} \cup DeletedRow \cup StateRow]
         /\ \A l \in LoginState :
              \/ states'[l] = states[l]
              \/ Stored(states, l) /\ states'[l].row = "deleted"
<1>1. \A l \in LoginState :
        \/ states'[l] = states[l]
        \/ /\ Stored(states, l)
           /\ states'[l] = [row |-> "deleted", origin |-> states[l].origin]
  BY DEF TypeOK, CleanupAuthLoginStates, Cleanup
<1>2. states' = [l \in LoginState |-> states'[l]]
  BY DEF TypeOK, CleanupAuthLoginStates, Cleanup
<1>3. \A l \in LoginState : Stored(states, l) =>
        /\ [row |-> "deleted", origin |-> states[l].origin] \in DeletedRow
        /\ [row |-> "deleted", origin |-> states[l].origin].row = "deleted"
  BY RowFields DEF TypeOK, Stored, DeletedRow
<1> QED
  BY <1>1, <1>2, <1>3 DEF TypeOK

LEMMA SessionsCleaned ==
  ASSUME TypeOK, CleanupAuthSessions
  PROVE  /\ sessions' \in [Session -> {Unused} \cup DeletedRow \cup SessionRow]
         /\ \A s \in Session :
              \/ sessions'[s] = sessions[s]
              \/ /\ Stored(sessions, s) /\ sessions'[s].row = "deleted"
                 /\ sessions'[s].origin = sessions[s].origin
<1>1. \A s \in Session :
        \/ sessions'[s] = sessions[s]
        \/ /\ Stored(sessions, s)
           /\ sessions'[s] = [row |-> "deleted", origin |-> sessions[s].origin]
  BY DEF TypeOK, CleanupAuthSessions, Cleanup
<1>2. sessions' = [s \in Session |-> sessions'[s]]
  BY DEF TypeOK, CleanupAuthSessions, Cleanup
<1>3. \A s \in Session : Stored(sessions, s) =>
        /\ [row |-> "deleted", origin |-> sessions[s].origin] \in DeletedRow
        /\ [row |-> "deleted", origin |-> sessions[s].origin].row = "deleted"
        /\ [row |-> "deleted", origin |-> sessions[s].origin].origin = sessions[s].origin
  BY RowFields DEF TypeOK, Stored, DeletedRow
<1> QED
  BY <1>1, <1>2, <1>3 DEF TypeOK

\* A new session, and what its handler comes from.
LEMMA SessionCreated ==
  ASSUME TypeOK, NEW h \in Handler, NEW s \in Session, CreateAuthSession(h, s)
  PROVE  /\ sessions' \in [Session -> {Unused} \cup DeletedRow \cup SessionRow]
         /\ sessions[s] = Unused
         /\ sessions'[s].row = "stored" /\ sessions'[s].revoked = Never
         /\ sessions'[s].origin = handler[h].origin
         /\ sessions'[s].token \in Token =>
              sessions'[s].expires <= Issued[sessions'[s].token].expires
         /\ \A r \in Session \ {s} : sessions'[r] = sessions[r]
<1> DEFINE w   == handler[h]
           new == NewSession(w)
<1>1. w \in Work /\ w.step = "create"
  BY DEF TypeOK, CreateAuthSession
<1>2. w.origin \in LoginState \cup {Bearer} /\ w.token \in Token \cup {Local}
  BY <1>1, WorkFields
<1>3. now \in Nat /\ now <= MaxTime
  BY Constants DEF TypeOK, Time
<1>4. /\ SessionExpiry(w.token) \in 0 .. MaxTime + SessionTTL
      /\ w.token \in Token => SessionExpiry(w.token) <= Issued[w.token].expires
  BY <1>2, <1>3, Constants DEF SessionExpiry, Time
<1>5. /\ new.row = "stored" /\ new.token = w.token /\ new.origin = w.origin
      /\ new.expires = SessionExpiry(w.token) /\ new.revoked = Never
  BY DEF NewSession
<1>6. new \in SessionRow
  BY <1>2, <1>4 DEF NewSession, SessionRow
<1>7. sessions' = [sessions EXCEPT ![s] = new] /\ sessions[s] = Unused
  BY DEF CreateAuthSession
<1> HIDE DEF new, w
<1> QED
  BY <1>4, <1>5, <1>6, <1>7 DEF TypeOK, w

\* A login state that is started or consumed.
LEMMA StateStarted ==
  ASSUME TypeOK, NEW l \in LoginState, AuthLogin(l)
  PROVE  /\ states' \in [LoginState -> {Unused} \cup DeletedRow \cup StateRow]
         /\ states[l] = Unused
         /\ \A k \in LoginState \ {l} : states'[k] = states[k]
<1> DEFINE new == [row |-> "stored", origin |-> l, expires |-> now + StateTTL, consumed |-> Never]
<1>1. now + StateTTL \in 0 .. MaxTime + StateTTL
  BY Constants DEF TypeOK, Time
<1>2. new \in StateRow
  BY <1>1 DEF StateRow
<1>3. states' = [states EXCEPT ![l] = new] /\ states[l] = Unused
  BY DEF AuthLogin
<1> HIDE DEF new
<1> QED
  BY <1>2, <1>3 DEF TypeOK

LEMMA StateConsumed ==
  ASSUME TypeOK, NEW h \in Handler, NEW l \in LoginState, AuthCallback(h, l)
  PROVE  /\ states' \in [LoginState -> {Unused} \cup DeletedRow \cup StateRow]
         /\ Consumable(l)
         /\ states'[l].row = "stored" /\ states'[l].consumed = now
         /\ \A k \in LoginState \ {l} : states'[k] = states[k]
<1> DEFINE new == [states[l] EXCEPT !.consumed = now]
<1>1. states[l] \in StateRow
  BY RowFields DEF TypeOK, AuthCallback, Consumable, Stored
<1>2. now \in Time
  BY DEF TypeOK
<1>3. new \in StateRow /\ new.row = "stored" /\ new.consumed = now
  BY <1>1, <1>2 DEF StateRow
<1>4. states' = [states EXCEPT ![l] = new] /\ Consumable(l)
  BY DEF AuthCallback
<1> HIDE DEF new
<1> QED
  BY <1>3, <1>4 DEF TypeOK

LEMMA HandlersTyped == TypeOK /\ [Next]_vars => handler' \in [Handler -> Work]
<1> SUFFICES ASSUME TypeOK, [Next]_vars
             PROVE  handler' \in [Handler -> Work]
  OBVIOUS
<1>0. handler \in [Handler -> Work]
  BY DEF TypeOK
<1>1. ASSUME NEW h \in Handler, NEW l \in LoginState, AuthCallback(h, l)
      PROVE  handler' \in [Handler -> Work]
  <2>1. Goto(h, [step |-> "exchange", origin |-> l])
    BY <1>1 DEF AuthCallback
  <2>2. [step |-> "exchange", origin |-> l] \in Work
    BY DEF Work
  <2> QED
    BY <1>0, <2>1, <2>2, GotoTyped
<1>2. ASSUME NEW h \in Handler, NEW t \in Token, ExchangeAuthCode(h, t)
      PROVE  handler' \in [Handler -> Work]
  <2> DEFINE w == [step |-> "identify", origin |-> handler[h].origin, token |-> t]
  <2>1. handler[h].origin \in LoginState
    BY <1>0, <1>2, WorkFields DEF ExchangeAuthCode
  <2>2. w \in Work
    BY <2>1 DEF Work
  <2>3. Goto(h, w)
    BY <1>2 DEF ExchangeAuthCode
  <2> HIDE DEF w
  <2> QED
    BY <1>0, <2>2, <2>3, GotoTyped
<1>3. ASSUME NEW h \in Handler, IdentifyUser(h)
      PROVE  handler' \in [Handler -> Work]
  <2> DEFINE w == [step |-> "create", origin |-> handler[h].origin, token |-> handler[h].token]
  <2>1. handler[h].origin \in LoginState /\ handler[h].token \in Token
    BY <1>0, <1>3, WorkFields DEF IdentifyUser
  <2>2. w \in Work
    BY <2>1 DEF Work
  <2>3. Goto(h, w)
    BY <1>3 DEF IdentifyUser
  <2> HIDE DEF w
  <2> QED
    BY <1>0, <2>2, <2>3, GotoTyped
<1>4. ASSUME NEW h \in Handler, PasswordLogin(h)
      PROVE  handler' \in [Handler -> Work]
  <2> DEFINE w == [step |-> "create", origin |-> Bearer, token |-> Local]
  <2>1. w \in Work
    BY DEF Work
  <2>2. Goto(h, w)
    BY <1>4 DEF PasswordLogin
  <2> HIDE DEF w
  <2> QED
    BY <1>0, <2>1, <2>2, GotoTyped
<1>5. ASSUME NEW h \in Handler, NEW t \in Token, NEW for \in {"request", "session"},
             BearerLookup(h, t, for)
      PROVE  handler' \in [Handler -> Work]
  <2> DEFINE m == t \in dead /\ ~IsAuthTokenRevoked(t)
             w == [step |-> "verify", for |-> for, token |-> t, missed |-> m]
  <2>1. Goto(h, w)
    BY <1>5 DEF BearerLookup
  <2>2. m \in BOOLEAN
    OBVIOUS
  <2> HIDE DEF m
  <2>3. w \in Work
    BY <2>2 DEF Work
  <2> HIDE DEF w
  <2> QED
    BY <1>0, <2>1, <2>3, GotoTyped
<1>6. ASSUME NEW h \in Handler, BearerVerified(h)
      PROVE  handler' \in [Handler -> Work]
  <2> DEFINE w == [step |-> "create", origin |-> Bearer, token |-> handler[h].token]
  <2>1. handler[h].token \in Token
    BY <1>0, <1>6, WorkFields DEF BearerVerified, LetsIn
  <2>2. w \in Work
    BY <2>1 DEF Work
  <2>3. Goto(h, Idle) \/ Goto(h, w)
    BY <1>6 DEF BearerVerified
  <2> HIDE DEF w
  <2> QED
    BY <1>0, <2>2, <2>3, GotoTyped, IdleIsWork
<1>7. ASSUME NEW h \in Handler, Fail(h)
      PROVE  handler' \in [Handler -> Work]
  BY <1>0, <1>7, GotoTyped, IdleIsWork DEF Fail
<1>8. ASSUME NEW h \in Handler, NEW cookie \in Session \cup {Local}, AuthLogout(h, cookie)
      PROVE  handler' \in [Handler -> Work]
  <2> DEFINE v == [step |-> "revoke_session", cookie |-> cookie]
             w(t) == [step |-> "revoke_token", token |-> t, cookie |-> cookie]
  <2>1. (cookie # Local => v \in Work) /\ \A t \in Token : w(t) \in Work
    BY DEF Work
  <2>2. (cookie # Local /\ Goto(h, v)) \/ \E t \in Token : Goto(h, w(t))
    BY <1>8 DEF AuthLogout
  <2> HIDE DEF v, w
  <2> QED
    BY <1>0, <2>1, <2>2, GotoTyped
<1>9. ASSUME NEW h \in Handler, NEW ok \in BOOLEAN, RevokeAuthToken(h, ok)
      PROVE  handler' \in [Handler -> Work]
  <2> DEFINE v == [step |-> "revoke_session", cookie |-> handler[h].cookie]
  <2>1. handler[h].cookie \in Session \cup {Local}
    BY <1>0, <1>9, WorkFields DEF RevokeAuthToken
  <2>2. handler[h].cookie # Local => v \in Work
    BY <2>1 DEF Work
  <2>3. \/ Goto(h, Idle)
        \/ handler[h].cookie # Local /\ Goto(h, v)
    BY <1>9 DEF RevokeAuthToken
  <2> HIDE DEF v
  <2> QED
    BY <1>0, <2>2, <2>3, GotoTyped, IdleIsWork
<1> QED
  BY <1>0, <1>1, <1>2, <1>3, <1>4, <1>5, <1>6, <1>7, <1>8, <1>9, GotoTyped, IdleIsWork
  DEF Next, vars, TimePasses, AuthLogin, CreateAuthSession, AuthContext, AuthSession,
      RevokeAuthSession, BackchannelLogout, RetentionStarts, CleanupAuthTokenRevocations,
      CleanupAuthSessions, CleanupAuthLoginStates

\* A pass never deletes by a time that is still to come.
Dated == pass.cutoff <= now

\* The retention pass forgets a revocation when the token has expired.
RevocationsOfTokens == \A t \in Token : revoked[t] \in {Never, Issued[t].expires}
DeadTokens ==
  \A t \in dead \cap Token : revoked[t] = Issued[t].expires \/ Issued[t].expires < now
MissedHasExpired ==
  \A h \in Handler : handler[h].step = "verify" /\ handler[h].missed =>
    Issued[handler[h].token].expires <= now

\* A session whose revocation has been stored keeps it as long as its row.
DeadSessions ==
  \A s \in dead \cap Session :
    sessions[s] # Unused /\ (Stored(sessions, s) => sessions[s].revoked # Never)
WithinToken ==
  \A s \in Session : Stored(sessions, s) /\ sessions[s].token \in Token =>
    sessions[s].expires <= Issued[sessions[s].token].expires

\* What a login state has led to: sessions, or handlers that still are at it.
Opened(s, l) == sessions[s] # Unused /\ sessions[s].origin = l
Busy(h, l) ==
  handler[h].step \in {"exchange", "identify", "create"} /\ handler[h].origin = l
Fresh(l) == states[l] = Unused \/ (Stored(states, l) /\ states[l].consumed = Never)
LeadsToOne ==
  \A l \in LoginState :
    /\ \A s, r \in Session : Opened(s, l) /\ Opened(r, l) => s = r
    /\ \A g, h \in Handler : Busy(g, l) /\ Busy(h, l) => g = h
    /\ \A s \in Session, h \in Handler : ~(Opened(s, l) /\ Busy(h, l))
    /\ Fresh(l) => /\ \A s \in Session : ~Opened(s, l)
                   /\ \A h \in Handler : ~Busy(h, l)

-----------------------------------------------------------------------------
(* Every step keeps the types. *)

LEMMA TokenRevoked ==
  ASSUME TypeOK, NEW h \in Handler, NEW ok \in BOOLEAN, RevokeAuthToken(h, ok)
  PROVE  \/ revoked' = revoked /\ dead' = dead
         \/ \E t \in Token : /\ revoked' \in [Token -> Time \cup {Never}]
                             /\ revoked'[t] = Issued[t].expires
                             /\ \A u \in Token \ {t} : revoked'[u] = revoked[u]
                             /\ dead' = dead \cup {t}
<1>1. handler[h].token \in Token
  BY WorkFields DEF TypeOK, RevokeAuthToken
<1> QED
  BY <1>1, Constants DEF RevokeAuthToken, WithRevocation, RevocationExpiry, TypeOK

LEMMA OfLogoutTyped ==
  ASSUME NEW a, NEW b
  PROVE  OfLogout(a, b) \in SUBSET Session
BY DEF OfLogout

LEMMA TypesStep == TypeOK /\ [Next]_vars => TypeOK'
<1> SUFFICES ASSUME TypeOK, [Next]_vars
             PROVE  TypeOK'
  OBVIOUS
<1>0. handler' \in [Handler -> Work]
  BY HandlersTyped
<1>1. CASE TimePasses
  BY <1>0, <1>1, Constants DEF TimePasses, TypeOK, Rows, Time
<1>2. ASSUME NEW l \in LoginState, AuthLogin(l)
      PROVE  TypeOK'
  BY <1>0, <1>2, StateStarted DEF TypeOK, AuthLogin
<1>3. ASSUME NEW h \in Handler, NEW l \in LoginState, AuthCallback(h, l)
      PROVE  TypeOK'
  BY <1>0, <1>3, StateConsumed DEF TypeOK, AuthCallback
<1>4. ASSUME NEW h \in Handler, NEW s \in Session, CreateAuthSession(h, s)
      PROVE  TypeOK'
  BY <1>0, <1>4, SessionCreated DEF TypeOK, CreateAuthSession
<1>5. ASSUME NEW h \in Handler, NEW ok \in BOOLEAN, RevokeAuthToken(h, ok)
      PROVE  TypeOK'
  BY <1>0, <1>5, TokenRevoked DEF TypeOK, RevokeAuthToken
<1>6. ASSUME NEW S \in SUBSET Session, Revoke(S), UNCHANGED <<mode, now, states, revoked, pass>>
      PROVE  TypeOK'
  BY <1>0, <1>6, RevokeEffect DEF TypeOK
<1>7. ASSUME NEW h \in Handler, RevokeAuthSession(h)
      PROVE  TypeOK'
  <2>1. {handler[h].cookie} \in SUBSET Session
    BY <1>7, WorkFields DEF TypeOK, RevokeAuthSession
  <2> QED
    BY <1>6, <1>7, <2>1 DEF RevokeAuthSession
<1>8. ASSUME NEW a, NEW b, BackchannelLogout(a, b)
      PROVE  TypeOK'
  BY <1>6, <1>8, OfLogoutTyped DEF BackchannelLogout
<1>9. CASE RetentionStarts
  <2>1. pass' \in [step : {"rest", "revocations", "sessions", "states"}, cutoff : Time]
    BY <1>9 DEF TypeOK, RetentionStarts
  <2> QED
    BY <1>0, <1>9, <2>1 DEF TypeOK, RetentionStarts, Rows
<1>10. CASE CleanupAuthTokenRevocations
  <2>1. pass' \in [step : {"rest", "revocations", "sessions", "states"}, cutoff : Time]
    BY <1>10 DEF TypeOK, CleanupAuthTokenRevocations
  <2>2. revoked' \in [Token -> Time \cup {Never}]
    BY <1>10 DEF TypeOK, CleanupAuthTokenRevocations
  <2> QED
    BY <1>0, <1>10, <2>1, <2>2 DEF TypeOK, CleanupAuthTokenRevocations
<1>11. CASE CleanupAuthSessions
  <2>1. pass' \in [step : {"rest", "revocations", "sessions", "states"}, cutoff : Time]
    BY <1>11 DEF TypeOK, CleanupAuthSessions
  <2>2. sessions' \in [Session -> {Unused} \cup DeletedRow \cup SessionRow]
    BY <1>11, SessionsCleaned
  <2> QED
    BY <1>0, <1>11, <2>1, <2>2 DEF TypeOK, CleanupAuthSessions
<1>12. CASE CleanupAuthLoginStates
  <2>1. pass' \in [step : {"rest", "revocations", "sessions", "states"}, cutoff : Time]
    BY <1>12, Constants DEF CleanupAuthLoginStates, Resting, Time
  <2>2. states' \in [LoginState -> {Unused} \cup DeletedRow \cup StateRow]
    BY <1>12, StatesCleaned
  <2> QED
    BY <1>0, <1>12, <2>1, <2>2 DEF TypeOK, CleanupAuthLoginStates
<1>13. ASSUME UNCHANGED <<mode, now, Rows, pass, dead>>
       PROVE  TypeOK'
  BY <1>0, <1>13 DEF TypeOK, Rows
<1> QED
  BY <1>1, <1>2, <1>3, <1>4, <1>5, <1>7, <1>8, <1>9, <1>10, <1>11, <1>12, <1>13
  DEF Next, vars, Rows, ExchangeAuthCode, IdentifyUser, PasswordLogin, AuthContext, AuthSession,
      BearerLookup, BearerVerified, Fail, AuthLogout

-----------------------------------------------------------------------------
(* Revocations: what is revoked, and how long it is remembered. *)

Remembered == Dated /\ RevocationsOfTokens /\ DeadTokens

LEMMA RememberedStep == TypeOK /\ Remembered /\ [Next]_vars => Remembered'
<1> SUFFICES ASSUME TypeOK, Remembered, [Next]_vars
             PROVE  Remembered'
  OBVIOUS
<1> USE Constants DEF Remembered, Dated, RevocationsOfTokens, DeadTokens
<1>0. now \in Nat /\ pass.cutoff \in Nat
  BY DEF TypeOK
<1>1. CASE TimePasses
  BY <1>0, <1>1 DEF TimePasses, Rows
<1>2. ASSUME NEW h \in Handler, NEW ok \in BOOLEAN, RevokeAuthToken(h, ok)
      PROVE  Remembered'
  <2>1. now' = now /\ pass' = pass
    BY <1>2 DEF RevokeAuthToken
  <2>2. CASE revoked' = revoked /\ dead' = dead
    BY <2>1, <2>2
  <2>3. ASSUME NEW t \in Token, revoked'[t] = Issued[t].expires, dead' = dead \cup {t},
               \A u \in Token \ {t} : revoked'[u] = revoked[u]
        PROVE  Remembered'
    BY <2>1, <2>3
  <2> QED
    BY <1>2, <2>2, <2>3, TokenRevoked
<1>3. ASSUME NEW S \in SUBSET Session, Revoke(S), UNCHANGED <<mode, now, states, revoked, pass>>
      PROVE  Remembered'
  <2>1. dead' \cap Token = dead \cap Token
    BY <1>3, LoginAssumption DEF Revoke
  <2> QED
    BY <1>3, <2>1
<1>4. ASSUME NEW h \in Handler, RevokeAuthSession(h)
      PROVE  Remembered'
  <2>1. {handler[h].cookie} \in SUBSET Session
    BY <1>4, WorkFields DEF TypeOK, RevokeAuthSession
  <2> QED
    BY <1>3, <1>4, <2>1 DEF RevokeAuthSession
<1>5. ASSUME NEW a, NEW b, BackchannelLogout(a, b)
      PROVE  Remembered'
  BY <1>3, <1>5, OfLogoutTyped DEF BackchannelLogout
<1>6. CASE RetentionStarts
  BY <1>0, <1>6 DEF RetentionStarts, Rows
<1>7. CASE CleanupAuthTokenRevocations
  <2>1. pass'.cutoff = pass.cutoff
    BY <1>7 DEF TypeOK, CleanupAuthTokenRevocations
  <2>2. \A t \in Token : \/ revoked'[t] = revoked[t]
                         \/ /\ revoked'[t] = Never /\ revoked[t] # Never
                            /\ revoked[t] < pass.cutoff
    BY <1>7 DEF CleanupAuthTokenRevocations, Before
  <2>3. \A t \in Token : revoked[t] # Never => revoked[t] = Issued[t].expires
    OBVIOUS
  <2>4. \A t \in Token : \/ revoked'[t] = revoked[t]
                         \/ revoked'[t] = Never /\ Issued[t].expires < now
    <3> TAKE t \in Token
    <3>1. Issued[t].expires \in Nat /\ pass.cutoff <= now
      OBVIOUS
    <3> QED
      BY <1>0, <2>2, <2>3, <3>1
  <2>5. now' = now /\ dead' = dead
    BY <1>7 DEF CleanupAuthTokenRevocations
  <2> QED
    BY <2>1, <2>4, <2>5
<1>8. CASE CleanupAuthSessions
  BY <1>8 DEF TypeOK, CleanupAuthSessions
<1>9. CASE CleanupAuthLoginStates
  BY <1>0, <1>9 DEF CleanupAuthLoginStates, Resting
<1>10. ASSUME UNCHANGED <<now, revoked, pass, dead>>
       PROVE  Remembered'
  BY <1>10
<1> QED
  BY <1>1, <1>2, <1>4, <1>5, <1>6, <1>7, <1>8, <1>9, <1>10
  DEF Next, vars, Rows, AuthLogin, AuthCallback, CreateAuthSession, ExchangeAuthCode, IdentifyUser,
      PasswordLogin, AuthContext, AuthSession, BearerLookup, BearerVerified, Fail, AuthLogout

LEMMA ClockGoesOn ==
  ASSUME TypeOK, [Next]_vars
  PROVE  now \in Nat /\ now' \in Nat /\ now <= now'
<1>1. now' = now \/ now' = now + 1
  BY DEF Next, vars, TimePasses, AuthLogin, AuthCallback, ExchangeAuthCode, IdentifyUser,
         PasswordLogin, CreateAuthSession, AuthContext, AuthSession, BearerLookup,
         BearerVerified, Fail, AuthLogout, RevokeAuthToken, RevokeAuthSession,
         BackchannelLogout, RetentionStarts, CleanupAuthTokenRevocations,
         CleanupAuthSessions, CleanupAuthLoginStates
<1> QED
  BY <1>1, Constants DEF TypeOK

\* What the database has answered wrongly it has answered of a token that had
\* expired.
LEMMA MissedStep == TypeOK /\ Remembered /\ MissedHasExpired /\ [Next]_vars => MissedHasExpired'
<1> SUFFICES ASSUME TypeOK, Remembered, MissedHasExpired, [Next]_vars, NEW g \in Handler,
                    handler'[g].step = "verify", handler'[g].missed
             PROVE  Issued[handler'[g].token].expires <= now'
  BY DEF MissedHasExpired
<1>0. now \in Nat /\ now' \in Nat /\ now <= now'
  BY ClockGoesOn
<1>1. CASE handler'[g] = handler[g]
  <2>1. handler[g].token \in Token /\ Issued[handler[g].token].expires <= now
    BY <1>1, WorkFields DEF MissedHasExpired, TypeOK
  <2>2. Issued[handler[g].token].expires \in Nat
    BY <2>1, Constants
  <2> QED
    BY <1>0, <1>1, <2>1, <2>2
<1>2. ASSUME NEW h \in Handler, NEW t \in Token, NEW for \in {"request", "session"},
             BearerLookup(h, t, for), handler'[g] # handler[g]
      PROVE  Issued[handler'[g].token].expires <= now'
  <2>1. /\ handler'[g].token = t /\ now' = now
        /\ handler'[g].missed <=> t \in dead /\ ~IsAuthTokenRevoked(t)
    BY <1>2 DEF BearerLookup, Goto, TypeOK
  <2>2. t \in dead /\ ~(revoked[t] > now)
    BY <2>1 DEF IsAuthTokenRevoked
  <2>3. Issued[t].expires \in Nat
    BY Constants
  <2>4. revoked[t] = Issued[t].expires \/ Issued[t].expires < now
    BY <2>2 DEF Remembered, DeadTokens
  <2> QED
    BY <1>0, <2>1, <2>2, <2>3, <2>4
<1>3. CASE \E h \in Handler, l \in LoginState : AuthCallback(h, l)
  BY <1>1, <1>3 DEF AuthCallback, Goto, TypeOK
<1>4. CASE \E h \in Handler, t \in Token : ExchangeAuthCode(h, t)
  BY <1>1, <1>4 DEF ExchangeAuthCode, Goto, TypeOK
<1>5. CASE \E h \in Handler : IdentifyUser(h)
  BY <1>1, <1>5 DEF IdentifyUser, Goto, TypeOK
<1>6. CASE \E h \in Handler : PasswordLogin(h)
  BY <1>1, <1>6 DEF PasswordLogin, Goto, TypeOK
<1>7. CASE \E h \in Handler, s \in Session : CreateAuthSession(h, s)
  BY <1>1, <1>7 DEF CreateAuthSession, Goto, TypeOK, Idle
<1>8. CASE \E h \in Handler : BearerVerified(h)
  BY <1>1, <1>8 DEF BearerVerified, Goto, TypeOK, Idle
<1>9. CASE \E h \in Handler : Fail(h)
  BY <1>1, <1>9 DEF Fail, Goto, TypeOK, Idle
<1>10. CASE \E h \in Handler, cookie \in Session \cup {Local} : AuthLogout(h, cookie)
  BY <1>1, <1>10 DEF AuthLogout, Goto, TypeOK
<1>11. CASE \E h \in Handler, ok \in BOOLEAN : RevokeAuthToken(h, ok)
  BY <1>1, <1>11 DEF RevokeAuthToken, Goto, TypeOK, Idle
<1>12. CASE \E h \in Handler : RevokeAuthSession(h)
  BY <1>1, <1>12 DEF RevokeAuthSession, Goto, TypeOK, Idle
<1> QED
  BY <1>1, <1>2, <1>3, <1>4, <1>5, <1>6, <1>7, <1>8, <1>9, <1>10, <1>11, <1>12
  DEF Next, vars, Rows, TimePasses, AuthLogin, AuthContext, AuthSession, BackchannelLogout,
      RetentionStarts, CleanupAuthTokenRevocations, CleanupAuthSessions, CleanupAuthLoginStates

-----------------------------------------------------------------------------
(* Sessions *)

\* What a step does to a session.
SessionStep(s) ==
  \/ sessions'[s] = sessions[s]
  \/ /\ sessions[s] = Unused /\ sessions'[s].row = "stored"
     /\ sessions'[s].token \in Token =>
          sessions'[s].expires <= Issued[sessions'[s].token].expires
  \/ /\ Stored(sessions, s) /\ Stored(sessions, s)' /\ sessions'[s].revoked = now
     /\ sessions[s].revoked = Never
     /\ sessions'[s].token = sessions[s].token
     /\ sessions'[s].expires = sessions[s].expires
  \/ Stored(sessions, s) /\ sessions'[s].row = "deleted"

LEMMA SessionSteps ==
  ASSUME TypeOK, [Next]_vars, NEW s \in Session
  PROVE  SessionStep(s)
<1>1. ASSUME NEW h \in Handler, NEW r \in Session, CreateAuthSession(h, r)
      PROVE  SessionStep(s)
  BY <1>1, SessionCreated DEF SessionStep
<1>2. ASSUME NEW S \in SUBSET Session, Revoke(S)
      PROVE  SessionStep(s)
  BY <1>2, RevokeEffect DEF SessionStep
<1>3. ASSUME NEW h \in Handler, RevokeAuthSession(h)
      PROVE  SessionStep(s)
  <2>1. {handler[h].cookie} \in SUBSET Session
    BY <1>3, WorkFields DEF TypeOK, RevokeAuthSession
  <2> QED
    BY <1>2, <1>3, <2>1 DEF RevokeAuthSession
<1>4. ASSUME NEW a, NEW b, BackchannelLogout(a, b)
      PROVE  SessionStep(s)
  BY <1>2, <1>4, OfLogoutTyped DEF BackchannelLogout
<1>5. CASE CleanupAuthSessions
  BY <1>5, SessionsCleaned DEF SessionStep
<1> QED
  BY <1>1, <1>3, <1>4, <1>5
  DEF SessionStep, Next, vars, Rows, TimePasses, AuthLogin, AuthCallback, ExchangeAuthCode,
      IdentifyUser, PasswordLogin, AuthContext, AuthSession, BearerLookup, BearerVerified, Fail,
      AuthLogout, RevokeAuthToken, RetentionStarts, CleanupAuthTokenRevocations,
      CleanupAuthLoginStates

\* What a step adds to the dead sessions has just been revoked.
LEMMA DeadStep ==
  ASSUME TypeOK, [Next]_vars, NEW s \in Session, s \in dead', s \notin dead
  PROVE  sessions[s] # Unused /\ (Stored(sessions, s)' => sessions'[s].revoked # Never)
<1>0. now # Never
  BY Constants DEF TypeOK
<1>1. ASSUME NEW S \in SUBSET Session, Revoke(S)
      PROVE  sessions[s] # Unused /\ (Stored(sessions, s)' => sessions'[s].revoked # Never)
  <2>1. s \in S /\ sessions[s] # Unused
    BY <1>1 DEF Revoke
  <2> QED
    BY <1>0, <1>1, <2>1, RevokeEffect DEF Stored
<1>2. ASSUME NEW h \in Handler, RevokeAuthSession(h)
      PROVE  sessions[s] # Unused /\ (Stored(sessions, s)' => sessions'[s].revoked # Never)
  <2>1. {handler[h].cookie} \in SUBSET Session
    BY <1>2, WorkFields DEF TypeOK, RevokeAuthSession
  <2> QED
    BY <1>1, <1>2, <2>1 DEF RevokeAuthSession
<1>3. ASSUME NEW a, NEW b, BackchannelLogout(a, b)
      PROVE  sessions[s] # Unused /\ (Stored(sessions, s)' => sessions'[s].revoked # Never)
  BY <1>1, <1>3, OfLogoutTyped DEF BackchannelLogout
<1>4. ASSUME NEW h \in Handler, NEW ok \in BOOLEAN, RevokeAuthToken(h, ok)
      PROVE  FALSE
  BY <1>4, TokenRevoked, LoginAssumption
<1> QED
  BY <1>2, <1>3, <1>4
  DEF Next, vars, Rows, TimePasses, AuthLogin, AuthCallback, ExchangeAuthCode, CreateAuthSession,
      IdentifyUser, PasswordLogin, AuthContext, AuthSession, BearerLookup, BearerVerified, Fail,
      AuthLogout, RetentionStarts, CleanupAuthTokenRevocations, CleanupAuthSessions,
      CleanupAuthLoginStates

LEMMA SessionsStep ==
  TypeOK /\ DeadSessions /\ WithinToken /\ [Next]_vars => DeadSessions' /\ WithinToken'
<1> SUFFICES ASSUME TypeOK, DeadSessions, WithinToken, [Next]_vars
             PROVE  DeadSessions' /\ WithinToken'
  OBVIOUS
<1>0. now # Never
  BY Constants DEF TypeOK
<1>1. \A s \in Session : SessionStep(s)
  BY SessionSteps
<1>2. ASSUME NEW s \in dead' \cap Session
      PROVE  sessions'[s] # Unused /\ (Stored(sessions, s)' => sessions'[s].revoked # Never)
  <2>1. sessions[s] # Unused
    BY DeadStep DEF DeadSessions
  <2>2. sessions'[s] # Unused
    BY <1>1, <2>1, RowFields DEF SessionStep, Stored
  <2>3. CASE s \in dead
    BY <1>0, <1>1, <2>1, <2>2, <2>3 DEF DeadSessions, SessionStep, Stored
  <2> QED
    BY <2>2, <2>3, DeadStep
<1>3. ASSUME NEW s \in Session, Stored(sessions, s)', sessions'[s].token \in Token
      PROVE  sessions'[s].expires <= Issued[sessions'[s].token].expires
  BY <1>1, <1>3 DEF WithinToken, SessionStep, Stored
<1> QED
  BY <1>2, <1>3 DEF DeadSessions, WithinToken

-----------------------------------------------------------------------------
(* Login states *)

\* A step that opens no session, begins no login and frees no state.
Quiet ==
  \A l \in LoginState :
    /\ \A s \in Session : Opened(s, l)' => Opened(s, l)
    /\ \A h \in Handler : Busy(h, l)' => Busy(h, l)
    /\ Fresh(l)' => Fresh(l)

LEMMA QuietStep == LeadsToOne /\ Quiet => LeadsToOne'
BY DEF LeadsToOne, Quiet

LEMMA CreateStep ==
  ASSUME TypeOK, LeadsToOne, NEW h \in Handler, NEW s \in Session, CreateAuthSession(h, s)
  PROVE  LeadsToOne'
<1>1. /\ handler'[h] = Idle
      /\ \A g \in Handler \ {h} : handler'[g] = handler[g]
      /\ handler[h].step = "create"
      /\ states' = states
  BY DEF TypeOK, CreateAuthSession, Goto
<1>2. \A l \in LoginState : /\ ~Busy(h, l)'
                            /\ \A g \in Handler \ {h} : Busy(g, l)' <=> Busy(g, l)
                            /\ Fresh(l)' <=> Fresh(l)
  BY <1>1 DEF Busy, Idle, Fresh, Stored
<1>3. \A l \in LoginState : /\ Opened(s, l)' => Busy(h, l)
                            /\ ~Opened(s, l)
                            /\ \A r \in Session \ {s} : Opened(r, l)' <=> Opened(r, l)
  BY <1>1, SessionCreated DEF Opened, Busy
<1> QED
  BY <1>2, <1>3 DEF LeadsToOne

LEMMA CallbackStep ==
  ASSUME TypeOK, LeadsToOne, NEW h \in Handler, NEW k \in LoginState, AuthCallback(h, k)
  PROVE  LeadsToOne'
<1>1. /\ handler'[h] = [step |-> "exchange", origin |-> k]
      /\ \A g \in Handler \ {h} : handler'[g] = handler[g]
      /\ handler[h] = Idle
      /\ sessions' = sessions
  BY DEF TypeOK, AuthCallback, Goto
<1>2. \A l \in LoginState : /\ \A g \in Handler \ {h} : Busy(g, l)' <=> Busy(g, l)
                            /\ ~Busy(h, l)
                            /\ Busy(h, l)' <=> l = k
                            /\ \A s \in Session : Opened(s, l)' <=> Opened(s, l)
  BY <1>1 DEF Busy, Idle, Opened
<1>3. Fresh(k) /\ ~Fresh(k)'
  BY StateConsumed, Constants, RowFields DEF Fresh, Consumable, Stored, TypeOK
<1>4. \A l \in LoginState \ {k} : Fresh(l)' <=> Fresh(l)
  BY StateConsumed DEF Fresh, Stored
<1> QED
  BY <1>2, <1>3, <1>4 DEF LeadsToOne

LEMMA LeadsToOneStep == TypeOK /\ LeadsToOne /\ [Next]_vars => LeadsToOne'
<1> SUFFICES ASSUME TypeOK, LeadsToOne, [Next]_vars
             PROVE  LeadsToOne'
  OBVIOUS
<1>1. CASE \E h \in Handler, s \in Session : CreateAuthSession(h, s)
  BY <1>1, CreateStep
<1>2. CASE \E h \in Handler, l \in LoginState : AuthCallback(h, l)
  BY <1>2, CallbackStep
<1>3. ASSUME \A s \in Session, l \in LoginState : Opened(s, l)' => Opened(s, l),
             handler' = handler, states' = states
      PROVE  Quiet
  BY <1>3 DEF Quiet, Busy, Fresh, Stored
<1>4. ASSUME sessions' = sessions, states' = states,
             \A h \in Handler, l \in LoginState : Busy(h, l)' => Busy(h, l)
      PROVE  Quiet
  BY <1>4 DEF Quiet, Opened, Fresh, Stored
<1>5. ASSUME NEW S \in SUBSET Session, Revoke(S),
             \A h \in Handler, l \in LoginState : Busy(h, l)' => Busy(h, l), states' = states
      PROVE  Quiet
  <2>1. \A s \in Session, l \in LoginState : Opened(s, l)' => Opened(s, l)
    BY <1>5, RevokeEffect, RowFields DEF Opened, Stored
  <2> QED
    BY <1>5, <2>1 DEF Quiet, Fresh, Stored
<1>6. ASSUME NEW h \in Handler, RevokeAuthSession(h)
      PROVE  Quiet
  <2>1. {handler[h].cookie} \in SUBSET Session
    BY <1>6, WorkFields DEF TypeOK, RevokeAuthSession
  <2>2. \A g \in Handler, l \in LoginState : Busy(g, l)' => Busy(g, l)
    BY <1>6 DEF RevokeAuthSession, Goto, Busy, Idle, TypeOK
  <2> QED
    BY <1>5, <1>6, <2>1, <2>2 DEF RevokeAuthSession
<1>7. ASSUME NEW a, NEW b, BackchannelLogout(a, b)
      PROVE  Quiet
  BY <1>5, <1>7, OfLogoutTyped DEF BackchannelLogout, Busy
<1>8. CASE CleanupAuthSessions
  <2>1. \A s \in Session, l \in LoginState : Opened(s, l)' => Opened(s, l)
    BY <1>8, SessionsCleaned, RowFields DEF Opened, Stored
  <2>2. handler' = handler /\ states' = states
    BY <1>8 DEF CleanupAuthSessions
  <2> QED
    BY <1>3, <2>1, <2>2, QuietStep
<1>9. CASE CleanupAuthLoginStates
  <2>1. \A l \in LoginState : Fresh(l)' => Fresh(l)
    BY <1>9, StatesCleaned, RowFields DEF Fresh, Stored
  <2>2. handler' = handler /\ sessions' = sessions
    BY <1>9 DEF CleanupAuthLoginStates
  <2> QED
    BY <2>1, <2>2, QuietStep DEF Quiet, Opened, Busy
<1>10. ASSUME NEW k \in LoginState, AuthLogin(k)
       PROVE  Quiet
  <2>1. \A l \in LoginState : Fresh(l)' => Fresh(l)
    BY <1>10, StateStarted DEF Fresh, Stored
  <2> QED
    BY <1>10, <2>1 DEF AuthLogin, Quiet, Opened, Busy
<1>11. ASSUME NEW h \in Handler, NEW t \in Token, ExchangeAuthCode(h, t)
       PROVE  Quiet
  BY <1>4, <1>11 DEF ExchangeAuthCode, Goto, Busy, TypeOK, Rows
<1>12. ASSUME NEW h \in Handler, IdentifyUser(h)
       PROVE  Quiet
  BY <1>4, <1>12 DEF IdentifyUser, Goto, Busy, TypeOK, Rows
<1>13. ASSUME NEW h \in Handler, PasswordLogin(h)
       PROVE  Quiet
  BY <1>4, <1>13, LoginAssumption DEF PasswordLogin, Goto, Busy, TypeOK, Rows
<1>14. ASSUME NEW h \in Handler, NEW t \in Token, NEW for \in {"request", "session"},
              BearerLookup(h, t, for)
       PROVE  Quiet
  <2>1. handler' = [handler EXCEPT ![h] = handler'[h]] /\ handler'[h].step = "verify"
    BY <1>14 DEF BearerLookup, Goto, TypeOK
  <2> QED
    BY <1>4, <1>14, <2>1 DEF BearerLookup, Busy, TypeOK, Rows
<1>15. ASSUME NEW h \in Handler, BearerVerified(h)
       PROVE  Quiet
  BY <1>4, <1>15, LoginAssumption DEF BearerVerified, LetsIn, Goto, Busy, TypeOK, Rows, Idle
<1>16. ASSUME NEW h \in Handler, Fail(h)
       PROVE  Quiet
  BY <1>4, <1>16 DEF Fail, Goto, Busy, TypeOK, Rows, Idle
<1>17. ASSUME NEW h \in Handler, NEW cookie \in Session \cup {Local}, AuthLogout(h, cookie)
       PROVE  Quiet
  BY <1>4, <1>17 DEF AuthLogout, Goto, Busy, TypeOK, Rows
<1>18. ASSUME NEW h \in Handler, NEW ok \in BOOLEAN, RevokeAuthToken(h, ok)
       PROVE  Quiet
  BY <1>4, <1>18 DEF RevokeAuthToken, Goto, Busy, TypeOK, Idle
<1>19. ASSUME UNCHANGED <<states, sessions, handler>>
       PROVE  Quiet
  BY <1>4, <1>19 DEF Busy
<1> QED
  BY <1>1, <1>2, <1>6, <1>7, <1>8, <1>9, <1>10, <1>11, <1>12, <1>13, <1>14, <1>15, <1>16, <1>17,
     <1>18, <1>19, QuietStep
  DEF Next, vars, Rows, TimePasses, AuthContext, AuthSession, RetentionStarts,
      CleanupAuthTokenRevocations

-----------------------------------------------------------------------------
(* What holds always. *)

IInv == TypeOK /\ Remembered /\ MissedHasExpired /\ DeadSessions /\ WithinToken /\ LeadsToOne

LEMMA IInvInit == Init => IInv
<1> SUFFICES ASSUME Init
             PROVE  IInv
  OBVIOUS
<1>1. TypeOK
  BY TypesInit
<1>2. Remembered
  BY Constants DEF Init, Remembered, Dated, RevocationsOfTokens, DeadTokens, Resting
<1>3. MissedHasExpired
  BY DEF Init, MissedHasExpired, Idle
<1>4. DeadSessions /\ WithinToken
  BY RowFields DEF Init, DeadSessions, WithinToken, Stored
<1>5. LeadsToOne
  BY DEF Init, LeadsToOne, Opened, Busy, Idle
<1> QED
  BY <1>1, <1>2, <1>3, <1>4, <1>5 DEF IInv

LEMMA IInvStep == IInv /\ [Next]_vars => IInv'
BY TypesStep, RememberedStep, MissedStep, SessionsStep, LeadsToOneStep DEF IInv

LEMMA IInvAlways == Spec => []IInv
BY IInvInit, IInvStep, PTL DEF Spec

\* The tables hold rows, every handler is between two store calls, and the
\* retention pass is at one of its deletes.
THEOREM TypesHold == Spec => []TypeOK
<1>1. IInv => TypeOK
  BY DEF IInv
<1> QED
  BY <1>1, IInvAlways, PTL

\* A login state leads to one session at most, whichever handlers meet, fail or
\* repeat a callback, and whatever retention deletes.
THEOREM LoginsAreUsedOnce == Spec => []OneSessionPerLogin
<1>1. IInv => OneSessionPerLogin
  <2> DEFINE opened(l) == {s \in Session : sessions[s] # Unused /\ sessions[s].origin = l}
             busy(l)   == {h \in Handler : /\ handler[h].step \in {"exchange", "identify", "create"}
                                           /\ handler[h].origin = l}
  <2> SUFFICES ASSUME IInv, NEW l \in LoginState
               PROVE  Cardinality(opened(l) \cup busy(l)) <= 1
    BY DEF OneSessionPerLogin
  <2> DEFINE all == opened(l) \cup busy(l)
  <2>1. \A a, b \in all : a = b
    BY DEF IInv, LeadsToOne, Opened, Busy
  <2> HIDE DEF all
  <2>2. ASSUME all = {}
        PROVE  Cardinality(all) <= 1
    BY <2>2, FS_EmptySet
  <2>3. ASSUME NEW a \in all
        PROVE  Cardinality(all) <= 1
    <3>1. all = {a}
      BY <2>1, <2>3
    <3> QED
      BY <3>1, FS_Singleton
  <2>4. Cardinality(all) <= 1
    BY <2>2, <2>3
  <2> QED
    BY <2>4 DEF all
<1> QED
  BY <1>1, IInvAlways, PTL

\* A request that begins after a logout has stored its revocation is refused: no
\* cookie of it is accepted, and a token only in the leeway after its expiry, when
\* its revocation may be deleted, or when nobody has answered for it.
THEOREM RevokedAreRefused == Spec => []RevokedIsRefused
<1>1. IInv => RevokedIsRefused
  BY DEF IInv, RevokedIsRefused, DeadSessions, MissedHasExpired, Usable, LetsIn
<1> QED
  BY <1>1, IInvAlways, PTL

\* No cookie outlives the token its session was opened with.
THEOREM SessionsDieWithTheirToken == Spec => []SessionsEndWithTheirToken
<1>1. IInv => SessionsEndWithTheirToken
  <2> SUFFICES ASSUME IInv, NEW s \in Session, Usable(s), sessions[s].token \in Token
               PROVE  now < Issued[sessions[s].token].expires
    BY DEF SessionsEndWithTheirToken
  <2>1. sessions[s].expires > now /\ sessions[s].expires <= Issued[sessions[s].token].expires
    BY DEF IInv, WithinToken, Usable
  <2>2. sessions[s].expires \in Nat /\ now \in Nat /\ Issued[sessions[s].token].expires \in Nat
    BY RowFields, Constants DEF IInv, TypeOK, Usable, Stored
  <2> QED
    BY <2>1, <2>2
<1> QED
  BY <1>1, IInvAlways, PTL

\* What a step does to a login state.
StateStep(l) ==
  \/ states'[l] = states[l]
  \/ states[l] = Unused
  \/ Stored(states, l) /\ states'[l].row = "deleted"
  \/ Consumable(l)

LEMMA StateSteps ==
  ASSUME TypeOK, [Next]_vars, NEW l \in LoginState
  PROVE  StateStep(l)
<1>1. ASSUME NEW k \in LoginState, AuthLogin(k)
      PROVE  StateStep(l)
  BY <1>1, StateStarted DEF StateStep
<1>2. ASSUME NEW h \in Handler, NEW k \in LoginState, AuthCallback(h, k)
      PROVE  StateStep(l)
  BY <1>2, StateConsumed DEF StateStep
<1>3. CASE CleanupAuthLoginStates
  BY <1>3, StatesCleaned DEF StateStep
<1> QED
  BY <1>1, <1>2, <1>3
  DEF StateStep, Next, vars, Rows, TimePasses, ExchangeAuthCode, IdentifyUser, PasswordLogin,
      CreateAuthSession, AuthContext, AuthSession, BearerLookup, BearerVerified, Fail, AuthLogout,
      RevokeAuthToken, RevokeAuthSession, BackchannelLogout, Revoke, RetentionStarts,
      CleanupAuthTokenRevocations, CleanupAuthSessions

\* A revocation is dropped by a retention pass only, and when it is over.
LEMMA RevocationSteps ==
  ASSUME TypeOK, Remembered, [Next]_vars, NEW t \in Token
  PROVE  \/ revoked'[t] = revoked[t]
         \/ revoked'[t] = Issued[t].expires
         \/ revoked[t] < now
<1>1. ASSUME NEW h \in Handler, NEW ok \in BOOLEAN, RevokeAuthToken(h, ok)
      PROVE  revoked'[t] = revoked[t] \/ revoked'[t] = Issued[t].expires
  BY <1>1, TokenRevoked
<1>2. CASE CleanupAuthTokenRevocations
  <2>1. revoked'[t] = revoked[t] \/ (revoked[t] # Never /\ revoked[t] < pass.cutoff)
    BY <1>2 DEF CleanupAuthTokenRevocations, Before
  <2>2. pass.cutoff <= now /\ pass.cutoff \in Nat /\ now \in Nat
    BY Constants DEF Remembered, Dated, TypeOK
  <2>3. revoked[t] # Never => revoked[t] \in Nat
    BY Constants DEF TypeOK
  <2> QED
    BY <2>1, <2>2, <2>3
<1> QED
  BY <1>1, <1>2
  DEF Next, vars, Rows, TimePasses, AuthLogin, AuthCallback, ExchangeAuthCode, IdentifyUser,
      PasswordLogin, CreateAuthSession, AuthContext, AuthSession, BearerLookup, BearerVerified,
      Fail, AuthLogout, RevokeAuthSession, BackchannelLogout, Revoke, RetentionStarts,
      CleanupAuthSessions, CleanupAuthLoginStates

\* What has ended stays ended: sessions and login states for good, and a revoked
\* token until it expires; in the leeway after that it may be accepted again.
THEOREM EndedStaysEnded == Spec => NeverUsableAgain
<1> DEFINE Step ==
      /\ \A s \in Session : sessions[s] # Unused /\ ~Usable(s) => ~Usable(s)'
      /\ \A l \in LoginState : states[l] # Unused /\ ~Consumable(l) => ~Consumable(l)'
      /\ \A t \in Token : IsAuthTokenRevoked(t) /\ now' < Issued[t].expires =>
                            IsAuthTokenRevoked(t)'
<1>1. IInv /\ [Next]_vars => Step
  <2> SUFFICES ASSUME IInv, [Next]_vars
               PROVE  Step
    OBVIOUS
  <2>0. TypeOK /\ Remembered /\ now \in Nat /\ now' \in Nat /\ now <= now'
    BY ClockGoesOn DEF IInv
  <2>1. ASSUME NEW s \in Session, sessions[s] # Unused, ~Usable(s), Usable(s)'
        PROVE  FALSE
    <3>1. sessions'[s].row = "stored" /\ sessions'[s].revoked = Never /\ sessions'[s].expires > now'
      BY <2>1 DEF Usable, Stored
    <3>2. sessions'[s] = sessions[s]
      BY <2>0, <2>1, <3>1, SessionSteps, Constants DEF SessionStep, TypeOK
    <3>3. sessions[s].expires \in Nat
      BY <2>0, <3>1, <3>2, RowFields DEF TypeOK
    <3> QED
      BY <2>0, <2>1, <3>1, <3>2, <3>3 DEF Usable, Stored
  <2>2. ASSUME NEW l \in LoginState, states[l] # Unused, ~Consumable(l), Consumable(l)'
        PROVE  FALSE
    <3>1. states'[l].row = "stored" /\ states'[l].consumed = Never /\ states'[l].expires > now'
      BY <2>2 DEF Consumable, Stored
    <3>2. states'[l] = states[l]
      BY <2>0, <2>2, <3>1, StateSteps DEF StateStep
    <3>3. states[l].expires \in Nat
      BY <2>0, <3>1, <3>2, RowFields DEF TypeOK
    <3> QED
      BY <2>0, <2>2, <3>1, <3>2, <3>3 DEF Consumable, Stored
  <2>3. ASSUME NEW t \in Token, revoked[t] > now, now' < Issued[t].expires
        PROVE  revoked'[t] > now'
    <3>1. Issued[t].expires \in Nat /\ (revoked[t] = Never \/ revoked[t] = Issued[t].expires)
      BY <2>0, Constants DEF Remembered, RevocationsOfTokens
    <3>2. revoked[t] = Issued[t].expires
      BY <2>0, <2>3, <3>1 DEF Never
    <3>3. revoked'[t] = Issued[t].expires \/ revoked[t] < now
      BY <2>0, <3>2, RevocationSteps
    <3> QED
      BY <2>0, <2>3, <3>1, <3>2, <3>3
  <2> QED
    BY <2>1, <2>2, <2>3 DEF IsAuthTokenRevoked
<1>2. vars' = vars /\ IInv => Step
  BY <1>1
<1> QED
  BY <1>1, <1>2, IInvAlways, PTL DEF Spec, NeverUsableAgain
=============================================================================
