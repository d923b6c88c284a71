---------------------------- MODULE BrowserLogin ----------------------------
(* Signing in and out with a browser: SessionStore in session.py and the    *)
(* routes and checks of AuthRuntime in dependencies.py, both in             *)
(* qe_platform/auth.                                                        *)
(*                                                                          *)
(* A login starts with an authorization attempt, stored under a random      *)
(* state, and a cookie that binds the attempt to the browser.  The identity *)
(* provider answers with a code for the attempt; the callback consumes the  *)
(* attempt, exchanges the code and creates a session.  A protected request  *)
(* reads its session twice, for the principal and for the CSRF token.  Each *)
(* store call is one transaction; requests and answers travel, and may be   *)
(* lost, in between. Roles are fixed when a session is made and are left    *)
(* out, and so are bearer tokens, which leave no state here (KeyCache has   *)
(* their verification).                                                     *)
EXTENDS AuthClock

CONSTANTS Browsers, Subjects,
          States,        \* the random states attempts are stored under
          Sessions,      \* the random session identifiers
          AttemptLife, SessionLife

ASSUME LifeAssumption == AttemptLife \in Nat \ {0} /\ SessionLife \in Nat \ {0}

VARIABLES
  attempt,    \* oidc_authorization_attempts: when each state's attempt expires, or Nothing
  startedBy,  \* history: the browser whose login drew the state, or Nothing
  codes,      \* the codes the identity provider has issued
  session,    \* auth_sessions: the row of each identifier, or Nothing
  madeFrom,   \* history: the code the session was made from, or Nothing
  jar,        \* the cookies of each browser
  work        \* the request or the answer on each thread, or Nothing

idp == <<attempt, startedBy, codes>>
store == <<session, madeFrom>>
loginVars == <<now, idp, store, jar, work>>

LoginTimes == 0 .. MaxTime
Code == [state : States, subject : Subjects]

ASSUME NothingAssumption == Nothing \notin Browsers /\ Nothing \notin States /\ Nothing \notin Code

Row == [subject : Subjects, expires : 0 .. MaxTime + SessionLife, revoked : BOOLEAN]
Jar == [session : Sessions \cup {Nothing}, transaction : States \cup {Nothing}]

\* A login's answer; a callback, sent with a cookie of its state, or exchanging
\* its code, or answered; a protected request, or a logout and its answer.  over:
\* the session had already ended when the request was sent.
LoginWork == [at : {"login"}, browser : Browsers, state : States]
CallbackWork ==
  [at : {"callback", "exchange", "signed in"}, browser : Browsers, state : States, code : Code,
   session : Sessions \cup {Nothing}]
ProtectedWork ==
  [at : {"sent", "known", "admitted", "signed out"}, browser : Browsers, session : Sessions,
   token : BOOLEAN, logout : BOOLEAN, over : BOOLEAN]

LoginInit ==
  /\ now = 0
  /\ attempt = [a \in States |-> Nothing]
  /\ startedBy = [a \in States |-> Nothing]
  /\ codes = {}
  /\ session = [s \in Sessions |-> Nothing]
  /\ madeFrom = [s \in Sessions |-> Nothing]
  /\ jar = [b \in Browsers |-> [session |-> Nothing, transaction |-> Nothing]]
  /\ work = [t \in Threads |-> Nothing]

At(t, place) == work[t] # Nothing /\ work[t].at = place
Put(t, w) == work' = [work EXCEPT ![t] = w]
Goto(t, place) == work' = [work EXCEPT ![t].at = place]

-----------------------------------------------------------------------------
(* Signing in.                                                              *)

\* GET /auth/login.  If the provider's metadata cannot be had the attempt stays
\* stored and nothing is answered.
AuthorizeRedirect(t, b, a) ==
  /\ work[t] = Nothing /\ startedBy[a] = Nothing
  /\ attempt' = [attempt EXCEPT ![a] = now + AttemptLife]
  /\ startedBy' = [startedBy EXCEPT ![a] = b]
  /\ \/ Put(t, [at |-> "login", browser |-> b, state |-> a])
     \/ UNCHANGED work
  /\ UNCHANGED <<now, codes, store, jar>>

\* The answer sets the transaction cookie, over that of a login begun before.
LoginAnswered(t) ==
  /\ At(t, "login")
  /\ jar' = [jar EXCEPT ![work[t].browser].transaction = work[t].state]
  /\ Put(t, Nothing)
  /\ UNCHANGED <<now, idp, store>>

\* At the identity provider: someone signs in and a code is issued.
IssueCode(c) ==
  /\ startedBy[c.state] # Nothing
  /\ codes' = codes \cup {c}
  /\ UNCHANGED <<now, attempt, startedBy, store, jar, work>>

\* GET /auth/callback: the browser's cookie must be that of the state it brings.
Callback(t, b, a, c) ==
  /\ work[t] = Nothing
  /\ jar[b].transaction = a /\ c \in codes
  /\ Put(t, [at |-> "callback", browser |-> b, state |-> a, code |-> c, session |-> Nothing])
  /\ UNCHANGED <<now, idp, store, jar>>

\* Mutant: the attempt stays stored.
Keep(a) == UNCHANGED attempt

Remove(a) == attempt' = [attempt EXCEPT ![a] = Nothing]

\* consume_authorization_attempt: read and removed, expired or not, in one
\* transaction; the callback goes on with one that is there and not expired.
ConsumeAttempt(t) ==
  /\ At(t, "callback")
  /\ Remove(work[t].state)
  /\ IF attempt[work[t].state] # Nothing /\ attempt[work[t].state] > now
     THEN Goto(t, "exchange") ELSE Put(t, Nothing)
  /\ UNCHANGED <<now, startedBy, codes, store, jar>>

\* Mutant: verifier and nonce are not asked for.
AnyCode(w) == w.code \in codes

\* The code verifier and the nonce are those of the attempt.
OwnCode(w) == w.code.state = w.state

CreateSession(t, s) ==
  /\ At(t, "exchange") /\ OwnCode(work[t])
  /\ madeFrom[s] = Nothing
  /\ session' = [session EXCEPT ![s] =
       [subject |-> work[t].code.subject, expires |-> now + SessionLife, revoked |-> FALSE]]
  /\ madeFrom' = [madeFrom EXCEPT ![s] = [state |-> work[t].state, subject |-> work[t].code.subject]]
  /\ work' = [work EXCEPT ![t].at = "signed in", ![t].session = s]
  /\ UNCHANGED <<now, idp, jar>>

\* The answer sets the session's cookies and removes the transaction's.
CallbackAnswered(t) ==
  /\ At(t, "signed in")
  /\ jar' = [jar EXCEPT ![work[t].browser] = [session |-> work[t].session, transaction |-> Nothing]]
  /\ Put(t, Nothing)
  /\ UNCHANGED <<now, idp, store>>

-----------------------------------------------------------------------------
(* Protected requests.                                                      *)

\* Mutant: a revoked session is read like any other.
LiveUnlessExpired(s) == session[s] # Nothing /\ session[s].expires > now

\* SessionStore.get finds the session.
Live(s) == session[s] # Nothing /\ ~session[s].revoked /\ session[s].expires > now

\* A session that was made has been revoked, has expired or is removed.
Over(s) == session[s] = Nothing \/ session[s].revoked \/ session[s].expires <= now

\* A page of the application sends the token with its session, another does not.
Send(t, b, token, logout) ==
  /\ work[t] = Nothing /\ jar[b].session # Nothing
  /\ Put(t, [at |-> "sent", browser |-> b, session |-> jar[b].session, token |-> token,
             logout |-> logout, over |-> Over(jar[b].session)])
  /\ UNCHANGED <<now, idp, store, jar>>

Require(t) ==
  /\ At(t, "sent")
  /\ IF Live(work[t].session) THEN Goto(t, "known") ELSE Put(t, Nothing)
  /\ UNCHANGED <<now, idp, store, jar>>

\* The second read of the session, and its token.
RequireCsrf(t) ==
  /\ At(t, "known")
  /\ IF Live(work[t].session) /\ work[t].token THEN Goto(t, "admitted") ELSE Put(t, Nothing)
  /\ UNCHANGED <<now, idp, store, jar>>

Act(t) ==
  /\ At(t, "admitted") /\ ~work[t].logout
  /\ Put(t, Nothing)
  /\ UNCHANGED <<now, idp, store, jar>>

Revoked(s) == IF session[s] = Nothing THEN session ELSE [session EXCEPT ![s].revoked = TRUE]

\* POST /auth/logout.
Logout(t) ==
  /\ At(t, "admitted") /\ work[t].logout
  /\ session' = Revoked(work[t].session)
  /\ Goto(t, "signed out")
  /\ UNCHANGED <<now, idp, madeFrom, jar>>

\* The answer removes the browser's session cookie, whichever it is by then.
LogoutAnswered(t) ==
  /\ At(t, "signed out")
  /\ jar' = [jar EXCEPT ![work[t].browser].session = Nothing]
  /\ Put(t, Nothing)
  /\ UNCHANGED <<now, idp, store>>

-----------------------------------------------------------------------------
(* What happens around them.                                                *)

\* delete_expired.
DeleteExpired ==
  /\ session' = [s \in Sessions |-> IF session[s] # Nothing /\ Over(s) THEN Nothing ELSE session[s]]
  /\ attempt' = [a \in States |-> IF attempt[a] # Nothing /\ attempt[a] <= now THEN Nothing
                                  ELSE attempt[a]]
  /\ UNCHANGED <<now, startedBy, codes, madeFrom, jar, work>>

\* The exchange fails, the request or its answer is lost, or the process dies.
Lose(t) ==
  /\ work[t] # Nothing
  /\ Put(t, Nothing)
  /\ UNCHANGED <<now, idp, store, jar>>

LoginTick == Tick /\ UNCHANGED <<idp, store, jar, work>>

Handle(t) ==
  \/ LoginAnswered(t) \/ ConsumeAttempt(t) \/ CallbackAnswered(t)
  \/ Require(t) \/ RequireCsrf(t) \/ Act(t) \/ Logout(t) \/ LogoutAnswered(t) \/ Lose(t)

LoginNext ==
  \/ LoginTick \/ DeleteExpired
  \/ \E c \in Code : IssueCode(c)
  \/ \E t \in Threads, b \in Browsers, a \in States : AuthorizeRedirect(t, b, a)
  \/ \E t \in Threads, b \in Browsers, a \in States, c \in Code : Callback(t, b, a, c)
  \/ \E t \in Threads, s \in Sessions : CreateSession(t, s)
  \/ \E t \in Threads, b \in Browsers, token, logout \in BOOLEAN : Send(t, b, token, logout)
  \/ \E t \in Threads : Handle(t)

LoginSpec == LoginInit /\ [][LoginNext]_loginVars

-----------------------------------------------------------------------------
\* The types of the tables, of the cookies and of what is under way.
LoginTypeOK ==
  /\ now \in LoginTimes
  /\ attempt \in [States -> 0 .. MaxTime + AttemptLife \cup {Nothing}]
  /\ startedBy \in [States -> Browsers \cup {Nothing}]
  /\ codes \in SUBSET Code
  /\ session \in [Sessions -> Row \cup {Nothing}]
  /\ madeFrom \in [Sessions -> Code \cup {Nothing}]
  /\ jar \in [Browsers -> Jar]
  /\ work \in [Threads -> LoginWork \cup CallbackWork \cup ProtectedWork \cup {Nothing}]

\* However logins overlap and callbacks repeat, a session is for someone who
\* signed in at the provider in the very attempt it was made from, an attempt
\* makes at most one, and a browser holds one of an attempt it started itself
\* (session.py:167-182, dependencies.py:187-206, 272-277).
LoginBound ==
  /\ \A s \in Sessions : madeFrom[s] # Nothing => madeFrom[s] \in codes
  /\ \A s, r \in Sessions :
       madeFrom[s] # Nothing /\ madeFrom[r] # Nothing /\ madeFrom[s].state = madeFrom[r].state => s = r
  /\ \A b \in Browsers : jar[b].session # Nothing =>
       startedBy[madeFrom[jar[b].session].state] = b

\* A request sent after its session was revoked, removed or expired is not
\* admitted (dependencies.py:133-152).  Of one that was under way when its
\* session ended nothing is said: it may be admitted or refused.
EndedStaysEnded ==
  \A t \in Threads : At(t, "admitted") => ~work[t].over
=============================================================================
