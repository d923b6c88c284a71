----------------------------- MODULE AuthProofs -----------------------------
(* Sessions are bound to the browser and the attempt they were made from,   *)
(* and an ended session admits no later request, for any number of browsers,*)
(* threads, attempts and sessions and for any lifetimes.                    *)
(*                                                                          *)
(* What makes the binding inductive: an attempt that is stored, or whose    *)
(* code is being exchanged, has made no session, and no two threads exchange*)
(* for one attempt (AttemptsOnce); the cookie of a transaction, a callback  *)
(* and a session's cookie belong to the browser that drew the state         *)
(* (WorkBound, JarsBound).                                                  *)
(*                                                                          *)
(* And of the cache of the provider's keys, for any number of keys, any     *)
(* lifetime of the cache and any lengths of fetches: when verifications take*)
(* turns, trust in a withdrawn key ends and a published one is not refused. *)
EXTENDS MCAuth, TLAPS

\* No session has been made from the attempt.
Unused(a) == \A s \in Sessions : madeFrom[s] = Nothing \/ madeFrom[s].state # a

CodesStarted == \A c \in codes : startedBy[c.state] # Nothing

AttemptsOnce ==
  /\ \A a \in States : attempt[a] # Nothing => startedBy[a] # Nothing /\ Unused(a)
  /\ \A t \in Threads : At(t, "exchange") =>
       attempt[work[t].state] = Nothing /\ Unused(work[t].state)
  /\ \A t, u \in Threads :
       At(t, "exchange") /\ At(u, "exchange") /\ work[t].state = work[u].state => t = u

\* What is known of the work on a thread.  A request sent too late is for a
\* session that stays over, and goes no further.
Fits(t) ==
  work[t] # Nothing =>
    /\ work[t] \in LoginWork \cup CallbackWork => startedBy[work[t].state] = work[t].browser
    /\ work[t] \in CallbackWork => work[t].code \in codes
    /\ work[t].at = "signed in" => /\ work[t].session \in Sessions
                                   /\ madeFrom[work[t].session] # Nothing
                                   /\ madeFrom[work[t].session].state = work[t].state
    /\ work[t] \in ProtectedWork =>
         /\ madeFrom[work[t].session] # Nothing
         /\ work[t].over => work[t].at = "sent" /\ Over(work[t].session)

WorkBound == \A t \in Threads : Fits(t)

JarsBound ==
  \A b \in Browsers :
    /\ jar[b].transaction # Nothing => startedBy[jar[b].transaction] = b
    /\ jar[b].session # Nothing => /\ madeFrom[jar[b].session] # Nothing
                                   /\ startedBy[madeFrom[jar[b].session].state] = b

SessionsMade ==
  /\ \A s \in Sessions : madeFrom[s] # Nothing => madeFrom[s] \in codes
  /\ \A s, r \in Sessions :
       madeFrom[s] # Nothing /\ madeFrom[r] # Nothing /\ madeFrom[s].state = madeFrom[r].state => s = r

LoginInv ==
  LoginTypeOK /\ CodesStarted /\ AttemptsOnce /\ WorkBound /\ JarsBound /\ SessionsMade

-----------------------------------------------------------------------------
(* Which kind of work a place belongs to.                                   *)

LEMMA WorkKinds ==
  ASSUME LoginTypeOK, NEW t \in Threads, work[t] # Nothing
  PROVE  /\ work[t].at = "login" => work[t] \in LoginWork
         /\ work[t].at \in {"callback", "exchange", "signed in"} => work[t] \in CallbackWork
         /\ work[t].at \in {"sent", "known", "admitted", "signed out"} => work[t] \in ProtectedWork
<1>1. work[t] \in LoginWork \cup CallbackWork \cup ProtectedWork
  BY DEF LoginTypeOK
<1>2. work[t] \in LoginWork => work[t].at = "login"
  BY DEF LoginWork
<1>3. work[t] \in CallbackWork => work[t].at \in {"callback", "exchange", "signed in"}
  BY DEF CallbackWork
<1>4. work[t] \in ProtectedWork => work[t].at \in {"sent", "known", "admitted", "signed out"}
  BY DEF ProtectedWork
<1>. QED
  BY <1>1, <1>2, <1>3, <1>4

LEMMA Places ==
  /\ \A w \in LoginWork : w.at = "login"
  /\ \A w \in CallbackWork : w.at \in {"callback", "exchange", "signed in"}
  /\ \A w \in ProtectedWork : w.at \in {"sent", "known", "admitted", "signed out"}
BY DEF LoginWork, CallbackWork, ProtectedWork

\* Going to another place changes nothing else of the work.
LEMMA CallbackMoves ==
  ASSUME NEW w \in CallbackWork, NEW place \in {"callback", "exchange", "signed in"}
  PROVE  LET v == [w EXCEPT !.at = place]
         IN  /\ v \in CallbackWork /\ v.at = place
             /\ v.browser = w.browser /\ v.state = w.state /\ v.code = w.code
BY DEF CallbackWork

LEMMA ProtectedMoves ==
  ASSUME NEW w \in ProtectedWork, NEW place \in {"sent", "known", "admitted", "signed out"}
  PROVE  LET v == [w EXCEPT !.at = place]
         IN  /\ v \in ProtectedWork /\ v.at = place
             /\ v.session = w.session /\ v.over = w.over
BY DEF ProtectedWork

LEMMA RevokedRows ==
  ASSUME LoginTypeOK, NEW s \in Sessions
  PROVE  /\ Revoked(s) \in [Sessions -> Row \cup {Nothing}]
         /\ \A r \in Sessions : r # s => Revoked(s)[r] = session[r]
         /\ Revoked(s)[s] = Nothing \/ Revoked(s)[s].revoked
<1>1. CASE session[s] = Nothing
  BY <1>1 DEF Revoked, LoginTypeOK
<1>2. CASE session[s] # Nothing
  <2>1. session[s] \in Row
    BY <1>2 DEF LoginTypeOK
  <2>2. \A r \in Row : [r EXCEPT !.revoked = TRUE] \in Row /\ [r EXCEPT !.revoked = TRUE].revoked
    BY DEF Row
  <2>3. Revoked(s) = [session EXCEPT ![s] = [session[s] EXCEPT !.revoked = TRUE]]
    BY <1>2 DEF Revoked
  <2>. QED
    BY <2>1, <2>2, <2>3 DEF LoginTypeOK
<1>. QED
  BY <1>1, <1>2

LEMMA TypesKept ==
  ASSUME LoginTypeOK, [LoginNext]_loginVars
  PROVE  LoginTypeOK'
<1> USE DEF LoginTypeOK, idp, store
<1>1. CASE LoginTick
  BY <1>1, TimeAssumption DEF LoginTick, Tick, LoginTimes
<1>2. CASE DeleteExpired
  BY <1>2 DEF DeleteExpired
<1>3. ASSUME NEW c \in Code, IssueCode(c)
      PROVE  LoginTypeOK'
  BY <1>3 DEF IssueCode
<1>4. ASSUME NEW t \in Threads, NEW b \in Browsers, NEW a \in States, AuthorizeRedirect(t, b, a)
      PROVE  LoginTypeOK'
  <2>1. now + AttemptLife \in 0 .. MaxTime + AttemptLife
    BY TimeAssumption, LifeAssumption DEF LoginTimes
  <2>2. work' \in [Threads -> LoginWork \cup CallbackWork \cup ProtectedWork \cup {Nothing}]
    BY <1>4 DEF AuthorizeRedirect, Put, LoginWork
  <2>. QED
    BY <1>4, <2>1, <2>2 DEF AuthorizeRedirect
<1>5. ASSUME NEW t \in Threads, NEW b \in Browsers, NEW a \in States, NEW c \in Code,
             Callback(t, b, a, c)
      PROVE  LoginTypeOK'
  BY <1>5 DEF Callback, Put, CallbackWork
<1>6. ASSUME NEW t \in Threads, NEW s \in Sessions, CreateSession(t, s)
      PROVE  LoginTypeOK'
  <2>1. work[t] \in CallbackWork
    BY <1>6, WorkKinds DEF CreateSession, At
  <2>2. now + SessionLife \in 0 .. MaxTime + SessionLife
    BY TimeAssumption, LifeAssumption DEF LoginTimes
  <2>3. session' \in [Sessions -> Row \cup {Nothing}]
    BY <1>6, <2>1, <2>2 DEF CreateSession, CallbackWork, Code, Row
  <2>4. madeFrom' \in [Sessions -> Code \cup {Nothing}]
    BY <1>6, <2>1 DEF CreateSession, CallbackWork, Code
  <2>5. [work[t] EXCEPT !.at = "signed in", !.session = s] \in CallbackWork
    BY <2>1 DEF CallbackWork
  <2>6. work' = [work EXCEPT ![t] = [work[t] EXCEPT !.at = "signed in", !.session = s]]
    BY <1>6, <2>1 DEF CreateSession, CallbackWork
  <2>7. work' \in [Threads -> LoginWork \cup CallbackWork \cup ProtectedWork \cup {Nothing}]
    BY <2>5, <2>6
  <2>. QED
    BY <1>6, <2>3, <2>4, <2>7 DEF CreateSession
<1>7. ASSUME NEW t \in Threads, NEW b \in Browsers, NEW token \in BOOLEAN, NEW logout \in BOOLEAN,
             Send(t, b, token, logout)
      PROVE  LoginTypeOK'
  BY <1>7 DEF Send, Put, ProtectedWork, Jar, Over
<1>8. ASSUME NEW t \in Threads, Handle(t)
      PROVE  LoginTypeOK'
  <2>1. CASE LoginAnswered(t)
    <3>1. work[t] \in LoginWork
      BY <2>1, WorkKinds DEF LoginAnswered, At
    <3>2. jar' \in [Browsers -> Jar]
      BY <2>1, <3>1 DEF LoginAnswered, LoginWork, Jar
    <3>. QED
      BY <2>1, <3>2 DEF LoginAnswered, Put
  <2>2. CASE ConsumeAttempt(t)
    <3>1. work[t] \in CallbackWork
      BY <2>2, WorkKinds DEF ConsumeAttempt, At
    <3>2. [work[t] EXCEPT !.at = "exchange"] \in CallbackWork
      BY <3>1, CallbackMoves
    <3>3. work' \in [Threads -> LoginWork \cup CallbackWork \cup ProtectedWork \cup {Nothing}]
      BY <2>2, <3>2 DEF ConsumeAttempt, Goto, Put
    <3>4. attempt' \in [States -> 0 .. MaxTime + AttemptLife \cup {Nothing}]
      BY <2>2 DEF ConsumeAttempt, Remove
    <3>. QED
      BY <2>2, <3>3, <3>4 DEF ConsumeAttempt
  <2>3. CASE CallbackAnswered(t)
    <3>1. work[t] \in CallbackWork
      BY <2>3, WorkKinds DEF CallbackAnswered, At
    <3>2. jar' \in [Browsers -> Jar]
      BY <2>3, <3>1 DEF CallbackAnswered, CallbackWork, Jar
    <3>. QED
      BY <2>3, <3>2 DEF CallbackAnswered, Put
  <2>4. ASSUME NEW place \in {"sent", "known", "admitted", "signed out"},
               work[t] \in ProtectedWork, Goto(t, place) \/ Put(t, Nothing)
        PROVE  work' \in [Threads -> LoginWork \cup CallbackWork \cup ProtectedWork \cup {Nothing}]
    <3>1. [work[t] EXCEPT !.at = place] \in ProtectedWork
      BY <2>4, ProtectedMoves
    <3>. QED
      BY <2>4, <3>1 DEF Goto, Put
  <2>5. CASE Require(t)
    <3>1. work[t] \in ProtectedWork
      BY <2>5, WorkKinds DEF Require, At
    <3>. QED
      BY <2>5, <3>1, <2>4 DEF Require
  <2>6. CASE RequireCsrf(t)
    <3>1. work[t] \in ProtectedWork
      BY <2>6, WorkKinds DEF RequireCsrf, At
    <3>. QED
      BY <2>6, <3>1, <2>4 DEF RequireCsrf
  <2>7. CASE Act(t) \/ Lose(t)
    BY <2>7 DEF Act, Lose, Put
  <2>8. CASE Logout(t)
    <3>1. work[t] \in ProtectedWork
      BY <2>8, WorkKinds DEF Logout, At
    <3>2. session' \in [Sessions -> Row \cup {Nothing}]
      BY <2>8, <3>1, RevokedRows DEF Logout, ProtectedWork
    <3>. QED
      BY <2>8, <3>1, <3>2, <2>4 DEF Logout
  <2>9. CASE LogoutAnswered(t)
    BY <2>9 DEF LogoutAnswered, Put, Jar
  <2>. QED
    BY <1>8, <2>1, <2>2, <2>3, <2>5, <2>6, <2>7, <2>8, <2>9 DEF Handle
<1>9. CASE UNCHANGED loginVars
  BY <1>9 DEF loginVars
<1>. QED
  BY <1>1, <1>2, <1>3, <1>4, <1>5, <1>6, <1>7, <1>8, <1>9 DEF LoginNext

-----------------------------------------------------------------------------
(* What only grows.                                                         *)

\* A state keeps its browser, a code stays issued, a session keeps what it was
\* made from, and once made and over it stays over.
Grows ==
  /\ \A a \in States : startedBy[a] # Nothing => startedBy'[a] = startedBy[a]
  /\ codes \subseteq codes'
  /\ \A s \in Sessions : madeFrom[s] # Nothing =>
       madeFrom'[s] = madeFrom[s] /\ (Over(s) => Over(s)')

LEMMA StepGrows ==
  ASSUME LoginTypeOK, [LoginNext]_loginVars
  PROVE  Grows
<1>1. CASE UNCHANGED <<now, startedBy, codes, store>>
  BY <1>1 DEF Grows, store, Over
<1>2. CASE LoginTick
  <2>1. \A s \in Sessions : Over(s) => Over(s)'
    BY <1>2, TimeAssumption DEF LoginTick, Tick, store, Over, LoginTypeOK, LoginTimes, Row
  <2>. QED
    BY <1>2, <2>1 DEF LoginTick, idp, store, Grows
<1>3. CASE DeleteExpired
  <2>1. \A s \in Sessions : Over(s) => Over(s)'
    BY <1>3 DEF DeleteExpired, Over
  <2>. QED
    BY <1>3, <2>1 DEF DeleteExpired, Grows
<1>4. ASSUME NEW c \in Code, IssueCode(c)
      PROVE  Grows
  BY <1>4 DEF IssueCode, store, Over, Grows
<1>5. ASSUME NEW t \in Threads, NEW b \in Browsers, NEW a \in States, AuthorizeRedirect(t, b, a)
      PROVE  Grows
  BY <1>5 DEF AuthorizeRedirect, store, Over, Grows, LoginTypeOK
<1>6. ASSUME NEW t \in Threads, NEW s \in Sessions, CreateSession(t, s)
      PROVE  Grows
  <2>1. \A r \in Sessions : madeFrom[r] # Nothing =>
          r # s /\ madeFrom'[r] = madeFrom[r] /\ session'[r] = session[r]
    BY <1>6 DEF CreateSession, LoginTypeOK
  <2>. QED
    BY <1>6, <2>1 DEF CreateSession, idp, Over, Grows
<1>7. ASSUME NEW t \in Threads, Logout(t)
      PROVE  Grows
  <2>1. work[t] \in ProtectedWork
    BY <1>7, WorkKinds DEF Logout, At
  <2>2. work[t].session \in Sessions /\ session' = Revoked(work[t].session)
    BY <1>7, <2>1 DEF Logout, ProtectedWork
  <2>3. \A s \in Sessions : Over(s) => Over(s)'
    <3> DEFINE mine == work[t].session
    <3>1. /\ \A r \in Sessions : r # mine => session'[r] = session[r]
          /\ session'[mine] = Nothing \/ session'[mine].revoked
      BY <2>2, RevokedRows
    <3>2. now' = now
      BY <1>7 DEF Logout
    <3>. QED
      BY <3>1, <3>2 DEF Over
  <2>. QED
    BY <1>7, <2>3 DEF Logout, idp, Grows
<1>8. ASSUME NEW t \in Threads, Handle(t)
      PROVE  UNCHANGED <<now, startedBy, codes, store>> \/ Logout(t)
  BY <1>8 DEF Handle, LoginAnswered, ConsumeAttempt, CallbackAnswered, Require, RequireCsrf, Act,
              LogoutAnswered, Lose, idp
<1>9. ASSUME NEW t \in Threads, NEW b \in Browsers, NEW a \in States, NEW c \in Code,
             Callback(t, b, a, c)
      PROVE  UNCHANGED <<now, startedBy, codes, store>>
  BY <1>9 DEF Callback, idp
<1>10. ASSUME NEW t \in Threads, NEW b \in Browsers, NEW token \in BOOLEAN,
              NEW logout \in BOOLEAN, Send(t, b, token, logout)
       PROVE  UNCHANGED <<now, startedBy, codes, store>>
  BY <1>10 DEF Send, idp
<1>11. CASE UNCHANGED loginVars
  BY <1>1, <1>11 DEF loginVars, idp
<1>. QED
  BY <1>1, <1>2, <1>3, <1>4, <1>5, <1>6, <1>7, <1>8, <1>9, <1>10, <1>11 DEF LoginNext

LEMMA FitsKept ==
  ASSUME LoginTypeOK, Grows, NEW t \in Threads, Fits(t), work'[t] = work[t]
  PROVE  Fits(t)'
<1>1. CASE work[t] = Nothing
  BY <1>1 DEF Fits
<1>2. CASE work[t] # Nothing /\ work[t] \in LoginWork
  BY <1>2, NothingAssumption DEF Fits, Grows, LoginWork, CallbackWork, ProtectedWork
<1>3. CASE work[t] # Nothing /\ work[t] \in CallbackWork
  BY <1>3, NothingAssumption DEF Fits, Grows, LoginWork, CallbackWork, ProtectedWork
<1>4. CASE work[t] # Nothing /\ work[t] \in ProtectedWork
  BY <1>4 DEF Fits, Grows, LoginWork, CallbackWork, ProtectedWork
<1>. QED
  BY <1>1, <1>2, <1>3, <1>4 DEF LoginTypeOK

-----------------------------------------------------------------------------
(* Each part of the invariant is kept.                                      *)

LEMMA CodesKept ==
  ASSUME LoginInv, [LoginNext]_loginVars
  PROVE  CodesStarted'
<1>1. Grows /\ CodesStarted /\ codes \in SUBSET Code
  BY StepGrows DEF LoginInv, LoginTypeOK
<1>2. CASE codes' = codes
  BY <1>1, <1>2 DEF CodesStarted, Grows, Code
<1>3. ASSUME NEW c \in Code, IssueCode(c)
      PROVE  CodesStarted'
  BY <1>1, <1>3 DEF IssueCode, CodesStarted
<1>. QED
  BY <1>2, <1>3 DEF LoginNext, LoginTick, DeleteExpired, AuthorizeRedirect, Callback, CreateSession,
       Send, Handle, LoginAnswered, ConsumeAttempt, CallbackAnswered, Require, RequireCsrf, Act,
       Logout, LogoutAnswered, Lose, idp, loginVars

\* What CreateSession makes: a session of its own, for the code of its callback.
LEMMA Made ==
  ASSUME LoginInv, NEW t \in Threads, NEW s \in Sessions, CreateSession(t, s)
  PROVE  /\ work[t] \in CallbackWork /\ work[t].code \in codes /\ work[t].state \in States
         /\ madeFrom[s] = Nothing
         /\ madeFrom' = [madeFrom EXCEPT ![s] = work[t].code]
         /\ work[t].code.state = work[t].state
         /\ work[t].code # Nothing
         /\ Unused(work[t].state)
         /\ startedBy[work[t].state] = work[t].browser
<1>1. work[t] # Nothing /\ work[t].at = "exchange" /\ Fits(t)
  BY DEF CreateSession, At, LoginInv, WorkBound
<1>2. work[t] \in CallbackWork
  BY <1>1, WorkKinds DEF LoginInv
<1>3. /\ work[t].code \in codes /\ work[t].code \in Code /\ work[t].state \in States
      /\ startedBy[work[t].state] = work[t].browser
  BY <1>1, <1>2 DEF Fits, CallbackWork
<1>4. [state |-> work[t].state, subject |-> work[t].code.subject] = work[t].code
  BY <1>3 DEF CreateSession, OwnCode, Code
<1>5. Unused(work[t].state)
  BY <1>1 DEF LoginInv, AttemptsOnce, At
<1>. QED
  BY <1>2, <1>3, <1>4, <1>5, NothingAssumption DEF CreateSession, OwnCode

LEMMA SessionsKept ==
  ASSUME LoginInv, [LoginNext]_loginVars
  PROVE  SessionsMade'
<1>1. Grows /\ SessionsMade /\ madeFrom \in [Sessions -> Code \cup {Nothing}]
  BY StepGrows DEF LoginInv, LoginTypeOK
<1>2. CASE madeFrom' = madeFrom
  BY <1>1, <1>2 DEF SessionsMade, Grows
<1>3. ASSUME NEW t \in Threads, NEW s \in Sessions, CreateSession(t, s)
      PROVE  SessionsMade'
  BY <1>1, <1>3, Made DEF SessionsMade, Grows, Unused
<1>. QED
  BY <1>2, <1>3 DEF LoginNext, LoginTick, DeleteExpired, AuthorizeRedirect, IssueCode, Callback,
       Send, Handle, LoginAnswered, ConsumeAttempt, CallbackAnswered, Require, RequireCsrf, Act,
       Logout, LogoutAnswered, Lose, store, loginVars

LEMMA JarsKept ==
  ASSUME LoginInv, [LoginNext]_loginVars
  PROVE  JarsBound'
<1>1. /\ Grows /\ JarsBound /\ LoginTypeOK /\ jar \in [Browsers -> Jar]
      /\ madeFrom \in [Sessions -> Code \cup {Nothing}]
  BY StepGrows DEF LoginInv, LoginTypeOK
\* What was bound stays bound.
<1>2. ASSUME NEW b \in Browsers, jar'[b] = jar[b]
      PROVE  /\ jar[b].transaction # Nothing => startedBy'[jar[b].transaction] = b
             /\ jar[b].session # Nothing => /\ madeFrom'[jar[b].session] # Nothing
                                            /\ startedBy'[madeFrom'[jar[b].session].state] = b
  <2>1. jar[b].transaction \in States \cup {Nothing} /\ jar[b].session \in Sessions \cup {Nothing}
    BY <1>1 DEF Jar
  <2>2. jar[b].transaction # Nothing => startedBy'[jar[b].transaction] = b
    BY <1>1, <2>1, NothingAssumption DEF JarsBound, Grows
  <2>3. ASSUME jar[b].session # Nothing
        PROVE  /\ madeFrom'[jar[b].session] # Nothing
               /\ startedBy'[madeFrom'[jar[b].session].state] = b
    <3>1. madeFrom[jar[b].session] \in Code /\ madeFrom'[jar[b].session] = madeFrom[jar[b].session]
      BY <1>1, <2>1, <2>3 DEF JarsBound, Grows
    <3>. QED
      BY <1>1, <2>3, <3>1, NothingAssumption DEF JarsBound, Grows, Code
  <2>. QED
    BY <2>2, <2>3
<1>3. CASE jar' = jar
  BY <1>2, <1>3 DEF JarsBound
<1>4. ASSUME NEW t \in Threads, LoginAnswered(t)
      PROVE  JarsBound'
  <2>1. work[t] \in LoginWork /\ work[t] # Nothing /\ Fits(t)
    BY <1>1, <1>4, WorkKinds DEF LoginAnswered, At, LoginInv, WorkBound
  <2>2. /\ work[t].browser \in Browsers /\ work[t].state \in States
        /\ startedBy[work[t].state] = work[t].browser
    BY <2>1 DEF Fits, LoginWork
  <2>3. /\ \A b \in Browsers : b # work[t].browser => jar'[b] = jar[b]
        /\ jar'[work[t].browser].transaction = work[t].state
        /\ jar'[work[t].browser].session = jar[work[t].browser].session
    BY <1>1, <1>4, <2>2 DEF LoginAnswered, Jar
  <2>4. startedBy' = startedBy /\ madeFrom' = madeFrom
    BY <1>4 DEF LoginAnswered, idp, store
  <2>. QED
    BY <1>1, <2>2, <2>3, <2>4 DEF JarsBound
<1>5. ASSUME NEW t \in Threads, CallbackAnswered(t)
      PROVE  JarsBound'
  <2>1. work[t] \in CallbackWork /\ work[t] # Nothing /\ work[t].at = "signed in" /\ Fits(t)
    BY <1>1, <1>5, WorkKinds DEF CallbackAnswered, At, LoginInv, WorkBound
  <2>2. /\ work[t].browser \in Browsers /\ startedBy[work[t].state] = work[t].browser
        /\ madeFrom[work[t].session] # Nothing /\ madeFrom[work[t].session].state = work[t].state
    BY <2>1 DEF Fits, CallbackWork
  <2>3. /\ \A b \in Browsers : b # work[t].browser => jar'[b] = jar[b]
        /\ jar'[work[t].browser].transaction = Nothing
        /\ jar'[work[t].browser].session = work[t].session
    BY <1>1, <1>5, <2>2 DEF CallbackAnswered
  <2>4. startedBy' = startedBy /\ madeFrom' = madeFrom
    BY <1>5 DEF CallbackAnswered, idp, store
  <2>. QED
    BY <1>1, <2>2, <2>3, <2>4 DEF JarsBound
<1>6. ASSUME NEW t \in Threads, LogoutAnswered(t)
      PROVE  JarsBound'
  <2>1. work[t] \in ProtectedWork
    BY <1>1, <1>6, WorkKinds DEF LogoutAnswered, At
  <2>2. /\ \A b \in Browsers : b # work[t].browser => jar'[b] = jar[b]
        /\ jar'[work[t].browser].transaction = jar[work[t].browser].transaction
        /\ jar'[work[t].browser].session = Nothing
    BY <1>1, <1>6, <2>1 DEF LogoutAnswered, ProtectedWork, Jar
  <2>3. startedBy' = startedBy /\ madeFrom' = madeFrom
    BY <1>6 DEF LogoutAnswered, idp, store
  <2>. QED
    BY <1>1, <2>2, <2>3 DEF JarsBound
<1>. QED
  BY <1>3, <1>4, <1>5, <1>6 DEF LoginNext, LoginTick, DeleteExpired, AuthorizeRedirect, IssueCode,
       Callback, CreateSession, Send, Handle, ConsumeAttempt, Require, RequireCsrf, Act, Logout,
       Lose, loginVars

\* What a thread is given to do fits, and is no exchange.
LEMMA WorkKept ==
  ASSUME LoginInv, [LoginNext]_loginVars
  PROVE  WorkBound'
<1>1. /\ Grows /\ LoginTypeOK /\ WorkBound /\ JarsBound
      /\ work \in [Threads -> LoginWork \cup CallbackWork \cup ProtectedWork \cup {Nothing}]
  BY StepGrows DEF LoginInv, LoginTypeOK
<1>2. \A t \in Threads : work'[t] = work[t] => Fits(t)'
  BY <1>1, FitsKept DEF WorkBound
<1>3. ASSUME NEW t \in Threads, \A u \in Threads : u # t => work'[u] = work[u], Fits(t)'
      PROVE  WorkBound'
  BY <1>2, <1>3 DEF WorkBound
<1>4. CASE work' = work
  BY <1>2, <1>4 DEF WorkBound
<1>5. ASSUME NEW t \in Threads, Put(t, Nothing)
      PROVE  WorkBound'
  <2>1. work'[t] = Nothing
    BY <1>1, <1>5 DEF Put
  <2>2. Fits(t)'
    BY <2>1 DEF Fits
  <2>. QED
    BY <1>1, <1>3, <1>5, <2>2 DEF Put
<1>6. ASSUME NEW t \in Threads, NEW b \in Browsers, NEW a \in States, AuthorizeRedirect(t, b, a)
      PROVE  WorkBound'
  <2>1. CASE UNCHANGED work
    BY <1>4, <2>1
  <2>2. CASE Put(t, [at |-> "login", browser |-> b, state |-> a])
    <3>1. work'[t] = [at |-> "login", browser |-> b, state |-> a] /\ startedBy'[a] = b
      BY <1>1, <1>6, <2>2 DEF AuthorizeRedirect, Put, LoginTypeOK
    <3>2. /\ work'[t].at = "login" /\ work'[t].browser = b /\ work'[t].state = a
          /\ work'[t] \notin CallbackWork /\ work'[t] \notin ProtectedWork
      <4>1. work'[t].at = "login" /\ work'[t].browser = b /\ work'[t].state = a
        BY <3>1
      <4>. QED
        BY <4>1, Places
    <3>3. Fits(t)'
      BY <3>1, <3>2 DEF Fits
    <3>. QED
      BY <1>1, <1>3, <2>2, <3>3 DEF Put
  <2>. QED
    BY <1>6, <2>1, <2>2 DEF AuthorizeRedirect
<1>7. ASSUME NEW t \in Threads, NEW b \in Browsers, NEW a \in States, NEW c \in Code,
             Callback(t, b, a, c)
      PROVE  WorkBound'
  <2>1. work'[t] = [at |-> "callback", browser |-> b, state |-> a, code |-> c, session |-> Nothing]
    BY <1>1, <1>7 DEF Callback, Put
  <2>2. startedBy'[a] = b /\ c \in codes'
    BY <1>1, <1>7, NothingAssumption DEF Callback, JarsBound, idp
  <2>3. /\ work'[t].at = "callback" /\ work'[t].browser = b /\ work'[t].state = a
        /\ work'[t].code = c /\ work'[t] \notin ProtectedWork
    <3>1. /\ work'[t].at = "callback" /\ work'[t].browser = b /\ work'[t].state = a
          /\ work'[t].code = c
      BY <2>1
    <3>. QED
      BY <3>1, Places
  <2>4. Fits(t)'
    BY <2>2, <2>3 DEF Fits
  <2>. QED
    BY <1>1, <1>3, <1>7, <2>4 DEF Callback, Put
<1>8. ASSUME NEW t \in Threads, ConsumeAttempt(t), Goto(t, "exchange")
      PROVE  WorkBound'
  <2>1. work[t] \in CallbackWork /\ work[t] # Nothing /\ Fits(t)
    BY <1>1, <1>8, WorkKinds DEF ConsumeAttempt, At, WorkBound
  <2>2. work' = [work EXCEPT ![t] = [work[t] EXCEPT !.at = "exchange"]]
    BY <1>8 DEF Goto
  <2>3. /\ work'[t] \in CallbackWork /\ work'[t].at = "exchange"
        /\ work'[t].browser = work[t].browser /\ work'[t].state = work[t].state
        /\ work'[t].code = work[t].code
    BY <1>1, <2>1, <2>2, CallbackMoves
  <2>4. startedBy' = startedBy /\ codes' = codes
    BY <1>8 DEF ConsumeAttempt
  <2>5. work'[t] \notin ProtectedWork
    BY <2>3 DEF ProtectedWork
  <2>6. Fits(t)'
    BY <2>1, <2>3, <2>4, <2>5 DEF Fits
  <2>. QED
    BY <1>1, <1>3, <2>2, <2>6
<1>9. ASSUME NEW t \in Threads, NEW s \in Sessions, CreateSession(t, s)
      PROVE  WorkBound'
  <2>1. /\ work[t] \in CallbackWork /\ work[t].code \in codes
        /\ madeFrom' = [madeFrom EXCEPT ![s] = work[t].code]
        /\ work[t].code.state = work[t].state /\ work[t].code # Nothing
        /\ startedBy[work[t].state] = work[t].browser
    BY <1>9, Made
  <2>2. work' = [work EXCEPT ![t] = [work[t] EXCEPT !.at = "signed in", !.session = s]]
    BY <1>9, <2>1 DEF CreateSession, CallbackWork
  <2>3. \A w \in CallbackWork :
          LET v == [w EXCEPT !.at = "signed in", !.session = s]
          IN  /\ v \in CallbackWork /\ v.at = "signed in" /\ v.session = s
              /\ v.browser = w.browser /\ v.state = w.state /\ v.code = w.code
    BY DEF CallbackWork
  <2>4. /\ work'[t] \in CallbackWork /\ work'[t].at = "signed in" /\ work'[t].session = s
        /\ work'[t].browser = work[t].browser /\ work'[t].state = work[t].state
        /\ work'[t].code = work[t].code
    BY <1>1, <2>1, <2>2, <2>3
  <2>5. madeFrom'[s] = work[t].code /\ startedBy' = startedBy /\ codes' = codes
    BY <1>1, <1>9, <2>1 DEF CreateSession, idp, LoginTypeOK
  <2>6. work'[t] \notin ProtectedWork
    BY <2>4 DEF ProtectedWork
  <2>7. Fits(t)'
    BY <2>1, <2>4, <2>5, <2>6 DEF Fits
  <2>. QED
    BY <1>1, <1>3, <2>2, <2>7
<1>10. ASSUME NEW t \in Threads, NEW b \in Browsers, NEW token \in BOOLEAN,
              NEW logout \in BOOLEAN, Send(t, b, token, logout)
       PROVE  WorkBound'
  <2>1. work'[t] = [at |-> "sent", browser |-> b, session |-> jar[b].session, token |-> token,
                    logout |-> logout, over |-> Over(jar[b].session)]
    BY <1>1, <1>10 DEF Send, Put
  <2>2. /\ madeFrom'[jar[b].session] # Nothing
        /\ Over(jar[b].session)' = Over(jar[b].session)
    BY <1>1, <1>10 DEF Send, JarsBound, store, Over
  <2>3. /\ work'[t].at = "sent" /\ work'[t].session = jar[b].session
        /\ work'[t].over => Over(jar[b].session)
    <3>1. work'[t].at = "sent" /\ work'[t].session = jar[b].session
      BY <2>1
    <3>2. ~Over(jar[b].session) => ~work'[t].over
      BY <2>1
    <3>. QED
      BY <3>1, <3>2
  <2>4. work'[t] \notin LoginWork \cup CallbackWork
    BY <2>3, Places
  <2>5. now' = now /\ session' = session
    BY <1>10 DEF Send, store
  <2>6. madeFrom'[work'[t].session] # Nothing
    BY <2>2, <2>3
  <2>7. work'[t].over => Over(work[t].session)'
    BY <2>3, <2>5 DEF Over
  <2>8. Fits(t)'
    BY <2>3, <2>4, <2>6, <2>7 DEF Fits, Over
  <2>. QED
    BY <1>1, <1>3, <1>10, <2>8 DEF Send, Put
\* A place further on is only reached by a request that was not sent too late.
<1>11. ASSUME NEW t \in Threads, work[t] \in ProtectedWork, work[t] # Nothing, ~work[t].over,
              NEW place \in {"known", "admitted", "signed out"}, Goto(t, place)
       PROVE  WorkBound'
  <2>1. work' = [work EXCEPT ![t] = [work[t] EXCEPT !.at = place]]
    BY <1>11 DEF Goto
  <2>2. /\ work'[t] \in ProtectedWork /\ work'[t].at = place
        /\ work'[t].session = work[t].session /\ work'[t].over = work[t].over
    <3>1. work'[t] = [work[t] EXCEPT !.at = place]
      BY <1>1, <2>1
    <3>2. LET v == [work[t] EXCEPT !.at = place]
          IN  /\ v \in ProtectedWork /\ v.at = place
              /\ v.session = work[t].session /\ v.over = work[t].over
      <4>1. place \in {"sent", "known", "admitted", "signed out"}
        OBVIOUS
      <4>2. work[t] \in ProtectedWork
        BY <1>11
      <4>. QED
        BY <4>1, <4>2, ProtectedMoves
    <3>. QED
      BY <3>1, <3>2
  <2>3. work[t].session \in Sessions /\ madeFrom[work[t].session] # Nothing
    BY <1>1, <1>11 DEF WorkBound, Fits, ProtectedWork
  <2>4. madeFrom'[work[t].session] # Nothing
    BY <1>1, <2>3 DEF Grows
  <2>5. work'[t] \notin LoginWork \cup CallbackWork
    BY <2>2, Places
  <2>6. Fits(t)'
    BY <1>11, <2>2, <2>4, <2>5 DEF Fits
  <2>. QED
    BY <1>1, <1>3, <2>1, <2>6
<1>12. ASSUME NEW t \in Threads, Require(t)
       PROVE  WorkBound'
  <2>1. work[t] \in ProtectedWork /\ work[t] # Nothing /\ Fits(t)
    BY <1>1, <1>12, WorkKinds DEF Require, At, WorkBound
  <2>2. Live(work[t].session) => ~work[t].over
    <3>1. work[t].session \in Sessions
      BY <2>1 DEF ProtectedWork
    <3>2. session[work[t].session] \in Row \cup {Nothing} /\ now \in Nat
      BY <1>1, <3>1, TimeAssumption DEF LoginTypeOK, LoginTimes
    <3>3. Live(work[t].session) => ~Over(work[t].session)
      BY <3>2, TimeAssumption, LifeAssumption DEF Live, Over, Row
    <3>. QED
      BY <2>1, <3>3 DEF Fits
  <2>. QED
    BY <1>5, <1>11, <1>12, <2>1, <2>2 DEF Require
<1>13. ASSUME NEW t \in Threads, RequireCsrf(t) \/ Logout(t)
       PROVE  WorkBound'
  <2>1. /\ work[t] \in ProtectedWork /\ work[t] # Nothing /\ Fits(t)
        /\ work[t].at \in {"known", "admitted"}
    BY <1>1, <1>13, WorkKinds DEF RequireCsrf, Logout, At, WorkBound
  <2>2. ~work[t].over
    BY <2>1 DEF Fits
  <2>. QED
    BY <1>5, <1>11, <1>13, <2>1, <2>2 DEF RequireCsrf, Logout
<1>14. ASSUME NEW t \in Threads, Handle(t)
       PROVE  WorkBound'
  BY <1>5, <1>8, <1>12, <1>13, <1>14 DEF Handle, LoginAnswered, ConsumeAttempt, CallbackAnswered,
     Act, LogoutAnswered, Lose
<1>. QED
  BY <1>4, <1>6, <1>7, <1>9, <1>10, <1>14 DEF LoginNext, LoginTick, DeleteExpired, IssueCode, loginVars

LEMMA AttemptsKept ==
  ASSUME LoginInv, [LoginNext]_loginVars
  PROVE  AttemptsOnce'
<1>1. /\ Grows /\ LoginTypeOK /\ AttemptsOnce /\ SessionsMade /\ CodesStarted /\ WorkBound
      /\ madeFrom \in [Sessions -> Code \cup {Nothing}]
      /\ attempt \in [States -> 0 .. MaxTime + AttemptLife \cup {Nothing}]
      /\ work \in [Threads -> LoginWork \cup CallbackWork \cup ProtectedWork \cup {Nothing}]
  BY StepGrows DEF LoginInv, LoginTypeOK
\* The exchange of a thread, and the state it is for.
<1>2. ASSUME NEW t \in Threads, At(t, "exchange")
      PROVE  work[t].state \in States /\ startedBy[work[t].state] # Nothing
  <2>1. work[t] \in CallbackWork /\ work[t] # Nothing /\ Fits(t)
    BY <1>1, <1>2, WorkKinds DEF At, WorkBound
  <2>. QED
    BY <2>1, NothingAssumption DEF Fits, CallbackWork
\* Nothing of an attempt is new: no exchange, no session, no attempt stored.
<1>3. ASSUME madeFrom' = madeFrom,
             \A t \in Threads : At(t, "exchange")' => At(t, "exchange") /\ work'[t].state = work[t].state,
             \A a \in States : attempt'[a] = attempt[a] \/ attempt'[a] = Nothing
      PROVE  AttemptsOnce'
  <2>1. \A a \in States : Unused(a)' = Unused(a)
    BY <1>3 DEF Unused
  <2>2. \A a \in States : attempt'[a] # Nothing => startedBy'[a] # Nothing /\ Unused(a)'
    BY <1>1, <1>3, <2>1 DEF AttemptsOnce, Grows
  <2>3. ASSUME NEW t \in Threads, At(t, "exchange")'
        PROVE  attempt'[work'[t].state] = Nothing /\ Unused(work[t].state)'
    <3>1. At(t, "exchange") /\ work'[t].state = work[t].state /\ work[t].state \in States
      BY <1>2, <1>3, <2>3
    <3>2. attempt[work[t].state] = Nothing /\ Unused(work[t].state)
      BY <1>1, <3>1 DEF AttemptsOnce
    <3>. QED
      BY <1>3, <3>1, <3>2 DEF Unused
  <2>4. ASSUME NEW t \in Threads, NEW u \in Threads, At(t, "exchange")', At(u, "exchange")',
               work'[t].state = work'[u].state
        PROVE  t = u
    BY <1>1, <1>3, <2>4 DEF AttemptsOnce
  <2>. QED
    BY <2>2, <2>3, <2>4 DEF AttemptsOnce
\* The thread's new work is no exchange, and the others keep theirs.
<1>4. ASSUME NEW t \in Threads, NEW w, work' = [work EXCEPT ![t] = w], w = Nothing \/ w.at # "exchange"
      PROVE  \A u \in Threads :
               At(u, "exchange")' => At(u, "exchange") /\ work'[u].state = work[u].state
  BY <1>1, <1>4 DEF At
<1>5. CASE UNCHANGED <<madeFrom, work>> /\ \A a \in States : attempt'[a] = attempt[a] \/ attempt'[a] = Nothing
  BY <1>3, <1>5 DEF At
<1>6. CASE LoginTick \/ UNCHANGED loginVars
  BY <1>5, <1>6 DEF LoginTick, idp, store, loginVars
<1>7. CASE DeleteExpired
  BY <1>5, <1>7 DEF DeleteExpired
<1>8. ASSUME NEW c \in Code, IssueCode(c)
      PROVE  AttemptsOnce'
  BY <1>5, <1>8 DEF IssueCode, store
<1>9. ASSUME NEW t \in Threads, NEW b \in Browsers, NEW a \in States, AuthorizeRedirect(t, b, a)
      PROVE  AttemptsOnce'
  <2>1. /\ madeFrom' = madeFrom /\ startedBy'[a] = b /\ startedBy[a] = Nothing
        /\ \A x \in States : x # a => attempt'[x] = attempt[x]
    BY <1>1, <1>9 DEF AuthorizeRedirect, store, LoginTypeOK
  <2>2. Unused(a)
    BY <1>1, <2>1 DEF SessionsMade, CodesStarted, Unused
  <2>3. \A u \in Threads :
          At(u, "exchange")' => At(u, "exchange") /\ work'[u].state = work[u].state
    <3>1. [at |-> "login", browser |-> b, state |-> a].at # "exchange"
      OBVIOUS
    <3>2. CASE UNCHANGED work
      BY <3>2 DEF At
    <3>3. CASE Put(t, [at |-> "login", browser |-> b, state |-> a])
      BY <1>4, <3>1, <3>3 DEF Put
    <3>. QED
      BY <1>9, <3>2, <3>3 DEF AuthorizeRedirect
  <2>4. \A x \in States : Unused(x)' = Unused(x)
    BY <2>1 DEF Unused
  <2>5. \A x \in States : attempt'[x] # Nothing => startedBy'[x] # Nothing /\ Unused(x)'
    BY <1>1, <2>1, <2>2, <2>4, NothingAssumption DEF AttemptsOnce, Grows
  <2>6. ASSUME NEW u \in Threads, At(u, "exchange")'
        PROVE  attempt'[work'[u].state] = Nothing /\ Unused(work[u].state)'
    <3>1. At(u, "exchange") /\ work'[u].state = work[u].state
      BY <2>3, <2>6
    <3>2. /\ work[u].state \in States /\ work[u].state # a
          /\ attempt[work[u].state] = Nothing /\ Unused(work[u].state)
      BY <1>1, <1>2, <2>1, <3>1 DEF AttemptsOnce
    <3>. QED
      BY <2>1, <3>1, <3>2 DEF Unused
  <2>7. ASSUME NEW u \in Threads, NEW v \in Threads, At(u, "exchange")', At(v, "exchange")',
               work'[u].state = work'[v].state
        PROVE  u = v
    BY <1>1, <2>3, <2>7 DEF AttemptsOnce
  <2>. QED
    BY <2>5, <2>6, <2>7 DEF AttemptsOnce
<1>10. ASSUME NEW t \in Threads, NEW b \in Browsers, NEW a \in States, NEW c \in Code,
              Callback(t, b, a, c)
       PROVE  AttemptsOnce'
  <2>1. [at |-> "callback", browser |-> b, state |-> a, code |-> c, session |-> Nothing].at # "exchange"
    OBVIOUS
  <2>. QED
    BY <1>3, <1>4, <1>10, <2>1 DEF Callback, Put, idp, store
<1>11. ASSUME NEW t \in Threads, NEW b \in Browsers, NEW token \in BOOLEAN,
              NEW logout \in BOOLEAN, Send(t, b, token, logout)
       PROVE  AttemptsOnce'
  <2>1. work'[t].at = "sent" /\ \A u \in Threads : u # t => work'[u] = work[u]
    BY <1>1, <1>11 DEF Send, Put
  <2>2. \A u \in Threads :
          At(u, "exchange")' => At(u, "exchange") /\ work'[u].state = work[u].state
    BY <2>1 DEF At
  <2>. QED
    BY <1>3, <1>11, <2>2 DEF Send, idp, store
<1>12. ASSUME NEW t \in Threads, ConsumeAttempt(t)
       PROVE  AttemptsOnce'
  <2> DEFINE a == work[t].state
  <2>1. work[t] \in CallbackWork /\ work[t] # Nothing /\ a \in States
    BY <1>1, <1>12, WorkKinds DEF ConsumeAttempt, At, CallbackWork
  <2>2. attempt' = [attempt EXCEPT ![a] = Nothing] /\ madeFrom' = madeFrom /\ startedBy' = startedBy
    BY <1>12 DEF ConsumeAttempt, Remove, store
  <2>3. \A x \in States : attempt'[x] = attempt[x] \/ attempt'[x] = Nothing
    BY <1>1, <2>2
  <2>4. CASE Put(t, Nothing)
    BY <1>3, <1>4, <2>2, <2>3, <2>4 DEF Put
  <2>5. CASE attempt[a] # Nothing /\ Goto(t, "exchange")
    <3>1. work' = [work EXCEPT ![t] = [work[t] EXCEPT !.at = "exchange"]]
      BY <2>5 DEF Goto
    <3>2. work'[t].state = a /\ \A u \in Threads : u # t => work'[u] = work[u]
      BY <1>1, <2>1, <3>1, CallbackMoves
    <3>3. Unused(a) /\ attempt'[a] = Nothing
      BY <1>1, <2>1, <2>2, <2>5 DEF AttemptsOnce
    <3>4. \A u \in Threads : u # t /\ At(u, "exchange")' =>
            /\ At(u, "exchange") /\ work'[u].state = work[u].state /\ work[u].state # a
            /\ work[u].state \in States
      BY <1>1, <1>2, <2>5, <3>2 DEF AttemptsOnce, At
    <3>5. \A x \in States : Unused(x)' = Unused(x)
      BY <2>2 DEF Unused
    <3>6. \A x \in States : attempt'[x] # Nothing => startedBy'[x] # Nothing /\ Unused(x)'
      BY <1>1, <2>2, <2>3, <3>5 DEF AttemptsOnce
    <3>7. ASSUME NEW u \in Threads, At(u, "exchange")'
          PROVE  attempt'[work'[u].state] = Nothing /\ Unused(work[u].state)'
      <4>1. CASE u = t
        BY <2>2, <3>2, <3>3, <4>1 DEF Unused
      <4>2. CASE u # t
        <5>1. /\ At(u, "exchange") /\ work'[u].state = work[u].state /\ work[u].state # a
              /\ work[u].state \in States
          BY <3>4, <3>7, <4>2
        <5>2. attempt[work[u].state] = Nothing /\ Unused(work[u].state)
          BY <1>1, <5>1 DEF AttemptsOnce
        <5>. QED
          BY <1>1, <2>2, <5>1, <5>2 DEF Unused
      <4>. QED
        BY <4>1, <4>2
    <3>8. ASSUME NEW u \in Threads, NEW v \in Threads, At(u, "exchange")', At(v, "exchange")',
                 work'[u].state = work'[v].state
          PROVE  u = v
      BY <1>1, <3>2, <3>4, <3>8 DEF AttemptsOnce
    <3>. QED
      BY <3>6, <3>7, <3>8 DEF AttemptsOnce
  <2>. QED
    BY <1>12, <2>4, <2>5 DEF ConsumeAttempt
<1>13. ASSUME NEW t \in Threads, NEW s \in Sessions, CreateSession(t, s)
       PROVE  AttemptsOnce'
  <2> DEFINE a == work[t].state
  <2>1. /\ At(t, "exchange") /\ a \in States /\ madeFrom[s] = Nothing
        /\ madeFrom' = [madeFrom EXCEPT ![s] = work[t].code]
        /\ work[t].code.state = a /\ work[t] \in CallbackWork
    BY <1>13, Made DEF CreateSession
  <2>2. UNCHANGED <<attempt, startedBy>>
    BY <1>13 DEF CreateSession, idp
  <2>3. work' = [work EXCEPT ![t] = [work[t] EXCEPT !.at = "signed in", !.session = s]]
    BY <1>13, <2>1 DEF CreateSession, CallbackWork
  <2>4. work'[t].at = "signed in" /\ \A u \in Threads : u # t => work'[u] = work[u]
    <3>1. \A w \in CallbackWork : [w EXCEPT !.at = "signed in", !.session = s].at = "signed in"
      BY DEF CallbackWork
    <3>. QED
      BY <1>1, <2>1, <2>3, <3>1
  \* The attempt is stored no more, and no other thread exchanges for it.
  <2>5. attempt[a] = Nothing
    BY <1>1, <2>1 DEF AttemptsOnce
  <2>6. \A u \in Threads : At(u, "exchange")' =>
          /\ At(u, "exchange") /\ work'[u].state = work[u].state /\ work[u].state # a
          /\ work[u].state \in States
    BY <1>1, <1>2, <2>1, <2>4 DEF AttemptsOnce, At
  <2>7. \A x \in States : x # a /\ Unused(x) => Unused(x)'
    BY <1>1, <2>1 DEF Unused
  <2>8. \A x \in States : attempt'[x] # Nothing => startedBy'[x] # Nothing /\ Unused(x)'
    BY <1>1, <2>2, <2>5, <2>7 DEF AttemptsOnce
  <2>9. ASSUME NEW u \in Threads, At(u, "exchange")'
        PROVE  attempt'[work'[u].state] = Nothing /\ Unused(work[u].state)'
    <3>1. /\ At(u, "exchange") /\ work'[u].state = work[u].state /\ work[u].state # a
          /\ work[u].state \in States
      BY <2>6, <2>9
    <3>2. attempt[work[u].state] = Nothing /\ Unused(work[u].state)
      BY <1>1, <3>1 DEF AttemptsOnce
    <3>3. \A r \in Sessions : madeFrom'[r] = Nothing \/ madeFrom'[r].state # work[u].state
      BY <1>1, <2>1, <3>1, <3>2 DEF Unused
    <3>. QED
      BY <2>2, <3>1, <3>2, <3>3 DEF Unused
  <2>10. ASSUME NEW u \in Threads, NEW v \in Threads, At(u, "exchange")', At(v, "exchange")',
                work'[u].state = work'[v].state
         PROVE  u = v
    BY <1>1, <2>6, <2>10 DEF AttemptsOnce
  <2>. QED
    BY <2>8, <2>9, <2>10 DEF AttemptsOnce
\* The rest of a protected request, and what only ends a thread's work.
<1>14. ASSUME NEW t \in Threads, Handle(t)
       PROVE  AttemptsOnce'
  <2>1. CASE ConsumeAttempt(t)
    BY <1>12, <2>1
  <2>2. ASSUME Put(t, Nothing), UNCHANGED <<attempt, madeFrom>>
        PROVE  AttemptsOnce'
    BY <1>3, <1>4, <2>2 DEF Put
  <2>3. ASSUME NEW place \in {"known", "admitted", "signed out"}, Goto(t, place),
               work[t] \in ProtectedWork, UNCHANGED <<attempt, madeFrom>>
        PROVE  AttemptsOnce'
    <3>1. [work[t] EXCEPT !.at = place].at # "exchange"
      <4>1. place \in {"sent", "known", "admitted", "signed out"}
        OBVIOUS
      <4>2. [work[t] EXCEPT !.at = place].at = place
        BY <2>3, <4>1, ProtectedMoves
      <4>. QED
        BY <4>2
    <3>2. work' = [work EXCEPT ![t] = [work[t] EXCEPT !.at = place]]
      BY <2>3 DEF Goto
    <3>. QED
      BY <1>3, <1>4, <2>3, <3>1, <3>2
  <2>4. CASE Require(t) \/ RequireCsrf(t) \/ Logout(t)
    <3>1. work[t] \in ProtectedWork
      BY <1>1, <2>4, WorkKinds DEF Require, RequireCsrf, Logout, At
    <3>. QED
      BY <2>2, <2>3, <2>4, <3>1 DEF Require, RequireCsrf, Logout, idp, store
  <2>. QED
    BY <1>14, <2>1, <2>2, <2>4 DEF Handle, LoginAnswered, CallbackAnswered, Act, LogoutAnswered,
       Lose, idp, store
<1>. QED
  BY <1>6, <1>7, <1>8, <1>9, <1>10, <1>11, <1>13, <1>14 DEF LoginNext

-----------------------------------------------------------------------------
(* The theorems.                                                            *)

LEMMA Starts == LoginInit => LoginInv
<1>. SUFFICES ASSUME LoginInit PROVE LoginInv
  OBVIOUS
<1>1. LoginTypeOK
  BY TimeAssumption DEF LoginInit, LoginTypeOK, LoginTimes, Jar
<1>2. CodesStarted /\ AttemptsOnce /\ WorkBound /\ JarsBound /\ SessionsMade
  BY DEF LoginInit, CodesStarted, AttemptsOnce, At, WorkBound, Fits, JarsBound, SessionsMade
<1>. QED
  BY <1>1, <1>2 DEF LoginInv

LEMMA LoginInvKept == LoginInv /\ [LoginNext]_loginVars => LoginInv'
BY TypesKept, CodesKept, AttemptsKept, WorkKept, JarsKept, SessionsKept DEF LoginInv

LEMMA Invariant == LoginSpec => []LoginInv
<1>1. LoginInit => LoginInv
  BY Starts
<1>2. LoginInv /\ [LoginNext]_loginVars => LoginInv'
  BY LoginInvKept
<1>. QED
  BY <1>1, <1>2, PTL DEF LoginSpec

\* The tables, the cookies and the work on the threads keep their types.
THEOREM TypeCorrect == LoginSpec => []LoginTypeOK
<1>1. LoginInv => LoginTypeOK
  BY DEF LoginInv
<1>. QED
  BY <1>1, Invariant, PTL

\* A session is made from a code the provider issued for its own attempt, an
\* attempt makes at most one, and a browser holds one of a login it began, for
\* any number of overlapping logins (session.py:167-182, dependencies.py:187-206).
THEOREM SessionsBound == LoginSpec => []LoginBound
<1>1. LoginInv => LoginBound
  BY DEF LoginInv, SessionsMade, JarsBound, LoginBound
<1>. QED
  BY <1>1, Invariant, PTL

\* No request sent after its session ended is admitted, whatever happens between
\* the two reads of the session (dependencies.py:133-152).
THEOREM EndedAlwaysEnded == LoginSpec => []EndedStaysEnded
<1>1. LoginInv => EndedStaysEnded
  <2>. SUFFICES ASSUME LoginInv, NEW t \in Threads, At(t, "admitted")
                PROVE  ~work[t].over
    BY DEF EndedStaysEnded
  <2>1. work[t] # Nothing /\ work[t].at = "admitted" /\ Fits(t) /\ LoginTypeOK
    BY DEF At, LoginInv, WorkBound
  <2>2. work[t] \in ProtectedWork
    BY <2>1, WorkKinds
  <2>. QED
    BY <2>1, <2>2 DEF Fits
<1>. QED
  BY <1>1, Invariant, PTL

-----------------------------------------------------------------------------
(* The key cache.  With verifications taking turns, no key in the cache was *)
(* withdrawn before the time its expiry counts from; with any number of     *)
(* them the clock a verification has read lies between its beginning and    *)
(* the present.                                                             *)

\* No key of the set was withdrawn before the time.
Lasting(keys, time, gone) == \A k \in keys : gone[k] # Nothing => time <= gone[k]

\* A key known when the verification began is in the set, or gone since.
Kept(v, keys, gone) == v.known => v.key \in keys \/ gone[v.key] # Nothing

TakeTurns ==
  alone => \A t, u \in Threads : verifying[t] # Nothing /\ verifying[u] # Nothing => t = u

ProviderSound == \A k \in published : withdrawn[k] = Nothing

\* The two attributes of the cache, but for a thread between its two writes.
CacheDated ==
  /\ expiry # Nothing => expiry <= now + TTL
  /\ alone /\ expiry # Nothing /\ (\A t \in Threads : ~Is(t, "expiry"))
       => \A k \in jwks : withdrawn[k] # Nothing => expiry <= withdrawn[k] + TTL

Timely(t) ==
  verifying[t] # Nothing =>
    /\ verifying[t].start <= verifying[t].clock
    /\ verifying[t].clock <= now
    /\ Kept(verifying[t], published, withdrawn)
    /\ verifying[t].at \in {"expiry", "return"} => jwks # Nothing

\* What a verification that is alone knows at each place.
Informed(t) ==
  alone /\ verifying[t] # Nothing =>
    LET v == verifying[t] IN
    /\ v.at = "keys" => Lasting(v.got, v.clock, withdrawn) /\ Kept(v, v.got, withdrawn)
    /\ v.at = "expiry" => Lasting(jwks, v.clock, withdrawn) /\ Kept(v, jwks, withdrawn)
    /\ v.at = "return" =>
         /\ \A k \in jwks : withdrawn[k] # Nothing => v.start < withdrawn[k] + TTL
         /\ v.forced => Kept(v, jwks, withdrawn)
    /\ v.at = "accepted" =>
         (withdrawn[v.key] # Nothing => v.start < withdrawn[v.key] + TTL)
    /\ v.at = "refused" => (v.known => withdrawn[v.key] # Nothing)

KeyInv ==
  KeyTypeOK /\ TakeTurns /\ ProviderSound /\ CacheDated
    /\ \A t \in Threads : Timely(t) /\ Informed(t)

Verifications == [Threads -> Verification \cup {Nothing}]

Places9 == {"clock", "test", "fetch", "keys", "expiry", "return", "accepted", "refused",
            "failed"}

\* g differs from f at most in four fields of the verification on thread t,
\* which have the values given.
Written(f, g, t, place, clock, forced, got) ==
  /\ g \in Verifications /\ g[t] \in Verification
  /\ g[t].at = place /\ g[t].clock = clock /\ g[t].forced = forced /\ g[t].got = got
  /\ g[t].key = f[t].key /\ g[t].start = f[t].start /\ g[t].known = f[t].known
  /\ \A u \in Threads \ {t} : g[u] = f[u]

LEMMA SetPlace ==
  ASSUME NEW f \in Verifications, NEW t \in Threads, f[t] \in Verification,
         NEW place \in Places9, NEW g, g = [f EXCEPT ![t].at = place]
  PROVE  Written(f, g, t, place, f[t].clock, f[t].forced, f[t].got)
BY DEF Verifications, Verification, Places9, Written

LEMMA SetClock ==
  ASSUME NEW f \in Verifications, NEW t \in Threads, f[t] \in Verification,
         NEW clock \in Times, NEW g, g = [f EXCEPT ![t].clock = clock]
  PROVE  Written(f, g, t, f[t].at, clock, f[t].forced, f[t].got)
BY DEF Verifications, Verification, Written

LEMMA SetForced ==
  ASSUME NEW f \in Verifications, NEW t \in Threads, f[t] \in Verification,
         NEW g, g = [f EXCEPT ![t].forced = TRUE]
  PROVE  Written(f, g, t, f[t].at, f[t].clock, TRUE, f[t].got)
BY DEF Verifications, Verification, Written

LEMMA SetGot ==
  ASSUME NEW f \in Verifications, NEW t \in Threads, f[t] \in Verification,
         NEW got \in SUBSET Keys, NEW g, g = [f EXCEPT ![t].got = got]
  PROVE  Written(f, g, t, f[t].at, f[t].clock, f[t].forced, got)
BY DEF Verifications, Verification, Written

\* What a verification's step leaves on its thread; the other threads rest.
Moved(t, place, clock, forced, got) ==
  Written(verifying, verifying', t, place, clock, forced, got)

LEMMA VerifyMoves ==
  ASSUME KeyTypeOK, NEW t \in Threads, verifying[t] # Nothing
  PROVE  LET v == verifying[t] IN
         /\ ReadClock(t) => Moved(t, "test", now, v.forced, v.got)
         /\ TestCache(t) => Moved(t, IF MustFetch(v) THEN "fetch" ELSE "return",
                                  v.clock, v.forced, v.got)
         /\ FetchKeys(t) => Moved(t, "keys", v.clock, v.forced, published)
         /\ FetchFails(t) => Moved(t, "failed", v.clock, v.forced, v.got)
         /\ StoreKeys(t) => Moved(t, "expiry", v.clock, v.forced, v.got)
         /\ StoreExpiry(t) => Moved(t, "return", v.clock, v.forced, v.got)
         /\ FindKey(t) => Moved(t, Verdict(v), v.clock, TRUE, v.got)
<1>1. /\ verifying \in Verifications /\ verifying[t] \in Verification
      /\ now \in Times /\ published \in SUBSET Keys
  BY DEF KeyTypeOK, Verifications
<1>2. ASSUME NEW place \in Places9, Next1(t, place)
      PROVE  Moved(t, place, verifying[t].clock, verifying[t].forced, verifying[t].got)
  <2>1. verifying' = [verifying EXCEPT ![t].at = place]
    BY <1>2 DEF Next1
  <2>2. QED
    BY <1>1, <2>1, SetPlace DEF Moved
<1>3. ASSUME ReadClock(t) PROVE Moved(t, "test", now, verifying[t].forced, verifying[t].got)
  <2> DEFINE f == [verifying EXCEPT ![t].at = "test"]
  <2>1. verifying' = [f EXCEPT ![t].clock = now]
    BY <1>3 DEF ReadClock
  <2>2. Written(verifying, f, t, "test", verifying[t].clock, verifying[t].forced, verifying[t].got)
    BY <1>1, SetPlace DEF Places9
  <2> HIDE DEF f
  <2>3. Written(f, verifying', t, f[t].at, now, f[t].forced, f[t].got)
    <3>1. f \in Verifications /\ f[t] \in Verification
      BY <2>2 DEF Written
    <3>2. QED
      BY <1>1, <2>1, <3>1, SetClock
  <2>4. QED
    BY <2>2, <2>3 DEF Moved, Written
<1>4. ASSUME FetchKeys(t)
      PROVE  Moved(t, "keys", verifying[t].clock, verifying[t].forced, published)
  <2> DEFINE f == [verifying EXCEPT ![t].at = "keys"]
  <2>1. verifying' = [f EXCEPT ![t].got = published]
    BY <1>4 DEF FetchKeys
  <2>2. Written(verifying, f, t, "keys", verifying[t].clock, verifying[t].forced, verifying[t].got)
    BY <1>1, SetPlace DEF Places9
  <2> HIDE DEF f
  <2>3. Written(f, verifying', t, f[t].at, f[t].clock, f[t].forced, published)
    <3>1. f \in Verifications /\ f[t] \in Verification
      BY <2>2 DEF Written
    <3>2. QED
      BY <1>1, <2>1, <3>1, SetGot
  <2>4. QED
    BY <2>2, <2>3 DEF Moved, Written
<1>5. ASSUME FindKey(t)
      PROVE  Moved(t, Verdict(verifying[t]), verifying[t].clock, TRUE, verifying[t].got)
  <2> DEFINE place == Verdict(verifying[t])
             f == [verifying EXCEPT ![t].at = place]
  <2>1. verifying' = [f EXCEPT ![t].forced = TRUE]
    BY <1>5 DEF FindKey
  <2>2. place \in Places9
    BY DEF Verdict, Places9
  <2> HIDE DEF place
  <2>3. Written(verifying, f, t, place, verifying[t].clock, verifying[t].forced, verifying[t].got)
    BY <1>1, <2>2, SetPlace
  <2> HIDE DEF f
  <2>4. Written(f, verifying', t, f[t].at, f[t].clock, TRUE, f[t].got)
    <3>1. f \in Verifications /\ f[t] \in Verification
      BY <2>3 DEF Written
    <3>2. QED
      BY <1>1, <2>1, <3>1, SetForced
  <2>5. Moved(t, place, verifying[t].clock, TRUE, verifying[t].got)
    BY <2>3, <2>4 DEF Moved, Written
  <2>6. QED
    BY <2>5 DEF place
<1>6. ASSUME TestCache(t)
      PROVE  Moved(t, IF MustFetch(verifying[t]) THEN "fetch" ELSE "return",
                   verifying[t].clock, verifying[t].forced, verifying[t].got)
  BY <1>2, <1>6 DEF TestCache, Places9
<1>7. QED
  BY <1>2, <1>3, <1>4, <1>5, <1>6 DEF FetchFails, StoreKeys, StoreExpiry, Places9

\* A verification's step is possible only at its place.
LEMMA VerifyPlaces ==
  ASSUME NEW t \in Threads, Verify(t)
  PROVE  /\ verifying[t] # Nothing
         /\ UNCHANGED <<now, published, withdrawn, alone>>
BY DEF Verify, ReadClock, TestCache, FetchKeys, FetchFails, StoreKeys, StoreExpiry, FindKey,
       End, Is, provider

LEMMA KeyTypesKept ==
  ASSUME KeyInv, [KeyNext]_keyVars
  PROVE  KeyTypeOK'
<1> USE DEF KeyTypeOK
<1>0. KeyTypeOK /\ \A t \in Threads : Timely(t)
  BY DEF KeyInv
<1>1. CASE KeyTick
  BY <1>0, <1>1, TimeAssumption DEF KeyTick, Tick, provider, cache, Times
<1>2. ASSUME NEW k \in Keys, Publish(k) \/ Withdraw(k) PROVE KeyTypeOK'
  BY <1>0, <1>2 DEF Publish, Withdraw, cache
<1>3. ASSUME NEW t \in Threads, NEW k \in Keys, Begin(t, k) PROVE KeyTypeOK'
  <2> DEFINE v == [at |-> "clock", key |-> k, start |-> now, known |-> k \in published,
                   clock |-> now, forced |-> FALSE, got |-> {}]
  <2>1. v \in Verification
    <3>1. (k \in published) \in BOOLEAN
      OBVIOUS
    <3>2. now \in Times
      BY <1>0
    <3> DEFINE known == k \in published
    <3> HIDE DEF known
    <3>3. known \in BOOLEAN
      BY DEF known
    <3>4. [at |-> "clock", key |-> k, start |-> now, known |-> known,
           clock |-> now, forced |-> FALSE, got |-> {}] \in Verification
      BY <3>2, <3>3 DEF Verification
    <3>5. QED
      BY <3>4 DEF known
  <2>2. verifying' = [verifying EXCEPT ![t] = v] /\ UNCHANGED <<now, provider, cache, alone>>
    BY <1>3 DEF Begin
  <2> HIDE DEF v
  <2>3. QED
    BY <1>0, <2>1, <2>2 DEF provider, cache
<1>4. ASSUME NEW t \in Threads, Verify(t) PROVE KeyTypeOK'
  <2>0. verifying[t] # Nothing /\ UNCHANGED <<now, published, withdrawn, alone>>
    BY <1>4, VerifyPlaces
  <2>1. CASE End(t)
    BY <1>0, <2>0, <2>1 DEF End, cache
  <2>2. CASE ~End(t)
    <3>1. verifying' \in Verifications
      BY <1>0, <1>4, <2>0, <2>2, VerifyMoves DEF Verify, Moved, Written
    <3>2. verifying[t] \in Verification
      BY <1>0, <2>0
    <3>3. CASE StoreKeys(t)
      <4>1. jwks' = verifying[t].got /\ UNCHANGED expiry
        BY <3>3 DEF StoreKeys
      <4>2. jwks' \in SUBSET Keys
        BY <3>2, <4>1 DEF Verification
      <4>3. jwks' # Nothing
        BY <4>2, KeyAssumption
      <4>4. QED
        BY <1>0, <2>0, <3>1, <4>1, <4>2, <4>3 DEF Verifications
    <3>4. CASE StoreExpiry(t)
      <4>1. /\ expiry' = verifying[t].clock + TTL /\ UNCHANGED jwks
            /\ verifying[t].at = "expiry"
        BY <3>4 DEF StoreExpiry, Is
      <4>2. verifying[t].clock \in Times
        BY <3>2 DEF Verification
      <4>3. expiry' \in 0 .. MaxTime + TTL
        BY <4>1, <4>2, TimeAssumption, KeyAssumption DEF Times
      <4>4. jwks # Nothing
        BY <1>0, <2>0, <4>1 DEF Timely
      <4>5. QED
        BY <1>0, <2>0, <3>1, <4>1, <4>3, <4>4 DEF Verifications
    <3>5. CASE UNCHANGED cache
      BY <1>0, <2>0, <3>1, <3>5 DEF Verifications, cache
    <3>6. QED
      BY <1>4, <2>2, <3>3, <3>4, <3>5
      DEF Verify, ReadClock, TestCache, FetchKeys, FetchFails, FindKey
  <2>3. QED
    BY <2>1, <2>2
<1>5. CASE UNCHANGED keyVars
  BY <1>0, <1>5 DEF keyVars, provider, cache
<1>6. QED
  BY <1>1, <1>2, <1>3, <1>4, <1>5 DEF KeyNext

\* All of the invariant but the types.
KeyFacts ==
  TakeTurns /\ ProviderSound /\ CacheDated /\ \A t \in Threads : Timely(t) /\ Informed(t)

\* The clock and the provider: a key is withdrawn now, or was before.
LEMMA ProviderKeepsFacts ==
  ASSUME KeyTypeOK, KeyTypeOK', KeyFacts,
         UNCHANGED <<cache, verifying, alone>>, now <= now',
         \A k \in Keys : \/ withdrawn'[k] = withdrawn[k]
                         \/ withdrawn[k] = Nothing /\ withdrawn'[k] = now,
         \A k \in published : k \in published' \/ withdrawn'[k] # Nothing,
         ProviderSound'
  PROVE  KeyFacts'
<1>1. /\ now \in Nat /\ now' \in Nat /\ TTL \in Nat \ {0} /\ Nothing \notin Nat
      /\ published \subseteq Keys
  BY TimeAssumption, KeyAssumption DEF KeyTypeOK, Times
<1>2. \A k \in Keys : withdrawn[k] \in Nat \cup {Nothing}
  BY TimeAssumption DEF KeyTypeOK, Times
<1>3. /\ jwks' = jwks /\ expiry' = expiry /\ verifying' = verifying /\ alone' = alone
  BY DEF cache
<1>4. TakeTurns'
  BY <1>3 DEF KeyFacts, TakeTurns
<1>5. ASSUME NEW keys \in SUBSET Keys, NEW time \in Nat, time <= now,
             Lasting(keys, time, withdrawn)
      PROVE  Lasting(keys, time, withdrawn')
  BY <1>1, <1>2, <1>5 DEF Lasting
<1>6. ASSUME NEW v \in Verification, NEW keys, Kept(v, keys, withdrawn)
      PROVE  Kept(v, keys, withdrawn')
  <2>1. v.key \in Keys
    BY DEF Verification
  <2>2. withdrawn[v.key] # Nothing => withdrawn'[v.key] # Nothing
    BY <1>1, <2>1
  <2>3. QED
    BY <1>6, <2>2 DEF Kept
<1>7. CacheDated'
  <2>1. expiry # Nothing => jwks \in SUBSET Keys
    BY DEF KeyTypeOK
  <2>2. expiry # Nothing => expiry \in Nat
    BY TimeAssumption, KeyAssumption DEF KeyTypeOK
  <2>3. expiry # Nothing => expiry <= now + TTL /\ expiry <= now' + TTL
    BY <1>1, <2>2 DEF KeyFacts, CacheDated
  <2>4. ASSUME alone, expiry # Nothing, \A t \in Threads : ~Is(t, "expiry"),
               NEW k \in jwks, withdrawn'[k] # Nothing
        PROVE  expiry <= withdrawn'[k] + TTL
    <3>1. k \in Keys
      BY <2>1, <2>4
    <3>2. withdrawn[k] # Nothing => expiry <= withdrawn[k] + TTL
      BY <2>4 DEF KeyFacts, CacheDated
    <3>3. QED
      BY <2>3, <2>4, <3>1, <3>2
  <2>5. QED
    BY <1>3, <2>3, <2>4 DEF CacheDated, Is
<1>8. ASSUME NEW t \in Threads, verifying[t] # Nothing
      PROVE  Timely(t)' /\ Informed(t)'
  <2> DEFINE v == verifying[t]
  <2>1. v \in Verification /\ verifying'[t] = v
    BY <1>3, <1>8 DEF KeyTypeOK
  <2>2. /\ v.clock \in Nat /\ v.start \in Nat /\ v.key \in Keys /\ v.got \in SUBSET Keys
    BY <2>1, TimeAssumption DEF Verification, Times
  <2>3. /\ v.start <= v.clock /\ v.clock <= now /\ Kept(v, published, withdrawn)
        /\ v.at \in {"expiry", "return"} => jwks # Nothing
    BY <1>8 DEF KeyFacts, Timely
  <2>4. withdrawn[v.key] # Nothing => withdrawn'[v.key] = withdrawn[v.key]
    BY <2>2
  <2>5. Kept(v, published', withdrawn')
    <3>1. withdrawn'[v.key] # Nothing => ~(withdrawn'[v.key] = Nothing)
      OBVIOUS
    <3>2. QED
      BY <2>3, <2>4 DEF Kept
  <2>6. Timely(t)'
    <3>1. v.clock <= now'
      BY <1>1, <2>2, <2>3
    <3>2. QED
      BY <1>3, <2>1, <2>3, <2>5, <3>1 DEF Timely
  <2>7. ASSUME alone PROVE Informed(t)'
    <3>0. /\ v.at = "keys" => Lasting(v.got, v.clock, withdrawn) /\ Kept(v, v.got, withdrawn)
          /\ v.at = "expiry" => Lasting(jwks, v.clock, withdrawn) /\ Kept(v, jwks, withdrawn)
          /\ v.at = "return" =>
               \A k \in jwks : withdrawn[k] # Nothing => v.start < withdrawn[k] + TTL
          /\ v.at = "return" => (v.forced => Kept(v, jwks, withdrawn))
          /\ v.at = "accepted" =>
               (withdrawn[v.key] # Nothing => v.start < withdrawn[v.key] + TTL)
          /\ v.at = "refused" => (v.known => withdrawn[v.key] # Nothing)
      BY <1>8, <2>7 DEF KeyFacts, Informed
    <3>1. v.at \in {"expiry", "return"} => jwks \in SUBSET Keys
      BY <2>3 DEF KeyTypeOK
    <3>2. v.at = "keys" => Lasting(v.got, v.clock, withdrawn') /\ Kept(v, v.got, withdrawn')
      BY <1>5, <1>6, <2>1, <2>2, <2>3, <3>0
    <3>3. v.at = "expiry" => Lasting(jwks, v.clock, withdrawn') /\ Kept(v, jwks, withdrawn')
      BY <1>5, <1>6, <2>1, <2>2, <2>3, <3>0, <3>1
    <3>4. v.at = "return" =>
            \A k \in jwks : withdrawn'[k] # Nothing => v.start < withdrawn'[k] + TTL
      BY <1>1, <1>2, <2>2, <2>3, <3>0, <3>1
    <3>5. v.at = "return" => (v.forced => Kept(v, jwks, withdrawn'))
      BY <1>6, <2>1, <3>0
    <3>6. v.at = "accepted" =>
            (withdrawn'[v.key] # Nothing => v.start < withdrawn'[v.key] + TTL)
      BY <1>1, <1>2, <2>2, <2>3, <3>0
    <3>7. v.at = "refused" => (v.known => withdrawn'[v.key] # Nothing)
      BY <2>4, <3>0
    <3>8. QED
      BY <1>3, <2>1, <3>2, <3>3, <3>4, <3>5, <3>6, <3>7 DEF Informed
  <2>8. QED
    BY <1>3, <2>6, <2>7 DEF Informed
<1>9. QED
  BY <1>3, <1>4, <1>7, <1>8 DEF KeyFacts, Timely, Informed

\* A step of one thread: when verifications take turns there is no other.
LEMMA ThreadKeepsFacts ==
  ASSUME KeyTypeOK', KeyFacts, NEW t \in Threads,
         UNCHANGED <<now, provider, alone>>,
         \A u \in Threads \ {t} : verifying'[u] = verifying[u],
         alone => \A u \in Threads \ {t} : verifying[u] = Nothing,
         jwks # Nothing => jwks' # Nothing,
         Timely(t)', Informed(t)', CacheDated'
  PROVE  KeyFacts'
<1>1. /\ now' = now /\ published' = published /\ withdrawn' = withdrawn /\ alone' = alone
  BY DEF provider
<1>2. TakeTurns'
  BY <1>1 DEF TakeTurns
<1>3. ProviderSound'
  BY <1>1 DEF KeyFacts, ProviderSound
<1>4. ASSUME NEW u \in Threads \ {t} PROVE Timely(u)' /\ Informed(u)'
  <2>1. verifying'[u] = verifying[u] /\ (alone => verifying[u] = Nothing)
    OBVIOUS
  <2>2. Timely(u)
    BY DEF KeyFacts
  <2>3. Timely(u)'
    BY <1>1, <2>1, <2>2 DEF Timely
  <2>4. Informed(u)'
    BY <1>1, <2>1 DEF Informed
  <2>5. QED
    BY <2>3, <2>4
<1>5. QED
  BY <1>2, <1>3, <1>4 DEF KeyFacts

LEMMA SameCacheDated ==
  ASSUME KeyFacts, NEW t \in Threads, ~Is(t, "expiry"),
         UNCHANGED <<now, provider, cache, alone>>,
         \A u \in Threads \ {t} : verifying'[u] = verifying[u]
  PROVE  CacheDated'
<1>1. /\ now' = now /\ withdrawn' = withdrawn /\ alone' = alone
      /\ jwks' = jwks /\ expiry' = expiry
  BY DEF provider, cache
<1>2. (\A u \in Threads : ~Is(u, "expiry"))' => \A u \in Threads : ~Is(u, "expiry")
  BY DEF Is
<1>3. QED
  BY <1>1, <1>2 DEF KeyFacts, CacheDated

LEMMA BeginKeepsFacts ==
  ASSUME KeyTypeOK, KeyTypeOK', KeyFacts, NEW t \in Threads, NEW k \in Keys, Begin(t, k)
  PROVE  KeyFacts'
<1> DEFINE known == k \in published
<1>1. /\ verifying[t] = Nothing /\ UNCHANGED <<now, provider, cache, alone>>
      /\ alone => \A u \in Threads : verifying[u] = Nothing
      /\ verifying' = [verifying EXCEPT ![t] =
           [at |-> "clock", key |-> k, start |-> now, known |-> known,
            clock |-> now, forced |-> FALSE, got |-> {}]]
  BY DEF Begin
<1>2. known => k \in published
  OBVIOUS
<1> HIDE DEF known
<1>3. /\ verifying'[t].at = "clock" /\ verifying'[t].key = k /\ verifying'[t].known = known
      /\ verifying'[t].start = now /\ verifying'[t].clock = now
      /\ \A u \in Threads \ {t} : verifying'[u] = verifying[u]
  BY <1>1 DEF KeyTypeOK
<1>4. now \in Nat /\ now' = now /\ published' = published
  BY <1>1, TimeAssumption DEF KeyTypeOK, Times, provider
<1>5. Kept(verifying'[t], published', withdrawn')
  BY <1>2, <1>3, <1>4 DEF Kept
<1>6. Timely(t)'
  BY <1>3, <1>4, <1>5 DEF Timely
<1>7. Informed(t)'
  BY <1>3 DEF Informed
<1>8. CacheDated'
  BY <1>1, <1>3, SameCacheDated DEF Is
<1>9. QED
  BY <1>1, <1>3, <1>6, <1>7, <1>8, ThreadKeepsFacts DEF cache

LEMMA EndKeepsFacts ==
  ASSUME KeyTypeOK, KeyTypeOK', KeyFacts, NEW t \in Threads, End(t)
  PROVE  KeyFacts'
<1>1. /\ verifying[t] # Nothing /\ UNCHANGED <<now, provider, cache, alone>>
      /\ verifying[t].at # "expiry"
      /\ verifying'[t] = Nothing
      /\ \A u \in Threads \ {t} : verifying'[u] = verifying[u]
  BY DEF End, Is, KeyTypeOK
<1>2. alone => \A u \in Threads \ {t} : verifying[u] = Nothing
  BY <1>1 DEF KeyFacts, TakeTurns
<1>3. Timely(t)' /\ Informed(t)'
  BY <1>1 DEF Timely, Informed
<1>4. CacheDated'
  BY <1>1, SameCacheDated DEF Is
<1>5. QED
  BY <1>1, <1>2, <1>3, <1>4, ThreadKeepsFacts DEF cache

LEMMA VerifyKeepsFacts ==
  ASSUME KeyTypeOK, KeyTypeOK', KeyFacts, NEW t \in Threads, Verify(t), ~End(t)
  PROVE  KeyFacts'
<1> DEFINE v == verifying[t]
           w == verifying'[t]
<1>1. verifying[t] # Nothing /\ UNCHANGED <<now, provider, alone>>
  BY VerifyPlaces DEF provider
<1>2. /\ now' = now /\ published' = published /\ withdrawn' = withdrawn /\ alone' = alone
  BY <1>1 DEF provider
<1>3. alone => \A u \in Threads \ {t} : verifying[u] = Nothing
  BY <1>1 DEF KeyFacts, TakeTurns
<1>4. /\ v \in Verification /\ v.clock \in Nat /\ v.start \in Nat /\ v.key \in Keys
      /\ v.got \in SUBSET Keys /\ now \in Nat /\ TTL \in Nat \ {0}
  BY <1>1, TimeAssumption, KeyAssumption DEF KeyTypeOK, Verification, Times
<1>5. /\ v.start <= v.clock /\ v.clock <= now /\ Kept(v, published, withdrawn)
      /\ v.at \in {"expiry", "return"} => jwks # Nothing
  BY <1>1 DEF KeyFacts, Timely
<1>6. alone => Informed(t)
  BY DEF KeyFacts
<1>7. \A keys : Kept(v, keys, withdrawn) /\ w.key = v.key /\ w.known = v.known
                  => Kept(w, keys, withdrawn')
  BY <1>2 DEF Kept
<1>8. ASSUME NEW place, NEW clock, NEW forced, NEW got, Moved(t, place, clock, forced, got)
      PROVE  /\ w.at = place /\ w.clock = clock /\ w.forced = forced /\ w.got = got
             /\ w.key = v.key /\ w.start = v.start /\ w.known = v.known
             /\ \A u \in Threads \ {t} : verifying'[u] = verifying[u]
  BY <1>8 DEF Moved, Written
<1>9. ASSUME NEW place, NEW clock, NEW forced, NEW got, Moved(t, place, clock, forced, got),
             UNCHANGED cache, v.at # "expiry", v.start <= clock, clock <= now,
             place # "expiry", place = "return" => jwks # Nothing, Informed(t)'
      PROVE  KeyFacts'
  <2>1. jwks' = jwks
    BY <1>9 DEF cache
  <2>2. Kept(w, published', withdrawn')
    BY <1>2, <1>5, <1>7, <1>8, <1>9
  <2>3. Timely(t)'
    BY <1>2, <1>8, <1>9, <2>1, <2>2 DEF Timely
  <2>4. CacheDated'
    BY <1>1, <1>8, <1>9, SameCacheDated DEF Is
  <2>5. QED
    BY <1>1, <1>3, <1>8, <1>9, <2>1, <2>3, <2>4, ThreadKeepsFacts
<1>10. CASE ReadClock(t)
  <2>1. Moved(t, "test", now, v.forced, v.got) /\ UNCHANGED cache /\ v.at = "clock"
    BY <1>1, <1>10, VerifyMoves DEF ReadClock, Is
  <2>2. Informed(t)'
    BY <1>8, <2>1 DEF Informed
  <2>3. v.start <= now /\ now <= now
    BY <1>4, <1>5
  <2>4. QED
    BY <1>9, <2>1, <2>2, <2>3
<1>11. CASE FetchFails(t)
  <2>1. Moved(t, "failed", v.clock, v.forced, v.got) /\ UNCHANGED cache /\ v.at = "fetch"
    BY <1>1, <1>11, VerifyMoves DEF FetchFails, Is
  <2>2. Informed(t)'
    BY <1>8, <2>1 DEF Informed
  <2>3. QED
    BY <1>5, <1>9, <2>1, <2>2
<1>12. CASE TestCache(t)
  <2> DEFINE place == IF MustFetch(v) THEN "fetch" ELSE "return"
  <2>1. Moved(t, place, v.clock, v.forced, v.got) /\ UNCHANGED cache /\ v.at = "test"
    BY <1>1, <1>12, VerifyMoves DEF TestCache, Is
  <2>2. place # "expiry" /\ (place = "return" => jwks # Nothing)
    BY DEF MustFetch
  <2>3. CASE MustFetch(v)
    <3>1. Informed(t)'
      BY <1>8, <2>1, <2>3 DEF Informed
    <3>2. QED
      BY <1>5, <1>9, <2>1, <2>2, <3>1
  <2>4. CASE ~MustFetch(v)
    <3>1. /\ jwks # Nothing /\ expiry # Nothing /\ ~(v.clock >= expiry) /\ ~v.forced
          /\ place = "return"
      BY <2>4 DEF MustFetch
    <3>2. jwks \in SUBSET Keys /\ expiry \in Nat
      BY <3>1, TimeAssumption, KeyAssumption DEF KeyTypeOK
    <3>3. ASSUME alone, NEW k \in jwks, withdrawn[k] # Nothing
          PROVE  v.start < withdrawn[k] + TTL
      <4>1. \A u \in Threads : ~Is(u, "expiry")
        BY <1>3, <2>1, <3>3 DEF Is
      <4>2. expiry <= withdrawn[k] + TTL
        BY <3>1, <3>3, <4>1 DEF KeyFacts, CacheDated
      <4>3. withdrawn[k] \in Nat
        BY <3>2, <3>3, TimeAssumption DEF KeyTypeOK, Times
      <4>4. QED
        BY <1>4, <1>5, <3>1, <3>2, <4>2, <4>3
    <3>4. w.at = "return" /\ w.forced = v.forced /\ w.start = v.start /\ jwks' = jwks
      BY <1>8, <2>1, <3>1 DEF cache
    <3>5. Informed(t)'
      BY <1>2, <3>1, <3>3, <3>4 DEF Informed
    <3>6. QED
      BY <1>5, <1>9, <2>1, <2>2, <3>5
  <2>5. QED
    BY <2>3, <2>4
<1>13. CASE FetchKeys(t)
  <2>1. Moved(t, "keys", v.clock, v.forced, published) /\ UNCHANGED cache /\ v.at = "fetch"
    BY <1>1, <1>13, VerifyMoves DEF FetchKeys, Is
  <2>2. /\ w.at = "keys" /\ w.clock = v.clock /\ w.got = published
        /\ w.key = v.key /\ w.known = v.known
    BY <1>8, <2>1
  <2>3. Lasting(w.got, w.clock, withdrawn')
    BY <1>2, <2>2 DEF KeyFacts, ProviderSound, Lasting
  <2>4. Kept(w, w.got, withdrawn')
    BY <1>5, <1>7, <2>2
  <2>5. Informed(t)'
    BY <2>2, <2>3, <2>4 DEF Informed
  <2>6. QED
    BY <1>5, <1>9, <2>1, <2>5
<1>14. CASE StoreKeys(t)
  <2>1. /\ Moved(t, "expiry", v.clock, v.forced, v.got) /\ v.at = "keys"
        /\ jwks' = v.got /\ expiry' = expiry
    BY <1>1, <1>14, VerifyMoves DEF StoreKeys, Is
  <2>2. /\ w.at = "expiry" /\ w.clock = v.clock /\ w.start = v.start
        /\ w.key = v.key /\ w.known = v.known
    BY <1>8, <2>1
  <2>3. jwks' # Nothing
    BY <1>4, <2>1, KeyAssumption
  <2>4. Kept(w, published', withdrawn')
    BY <1>2, <1>5, <1>7, <2>2
  <2>5. Timely(t)'
    BY <1>2, <1>5, <2>2, <2>3, <2>4 DEF Timely
  <2>6. ASSUME alone
        PROVE  Lasting(jwks', w.clock, withdrawn') /\ Kept(w, jwks', withdrawn')
    <3>1. Lasting(v.got, v.clock, withdrawn) /\ Kept(v, v.got, withdrawn)
      BY <1>1, <1>6, <2>1, <2>6 DEF Informed
    <3>2. QED
      BY <1>2, <1>7, <2>1, <2>2, <3>1
  <2>7. Informed(t)'
    BY <1>2, <2>2, <2>6 DEF Informed
  <2>8. CacheDated'
    <3>1. Is(t, "expiry")'
      <4>1. w \in Verification
        BY <2>1 DEF Moved, Written
      <4>2. QED
        BY <2>2, <4>1, NoneAssumption DEF Is
    <3>2. QED
      BY <1>2, <2>1, <3>1 DEF KeyFacts, CacheDated
  <2>9. QED
    BY <1>1, <1>3, <1>8, <2>1, <2>3, <2>5, <2>7, <2>8, ThreadKeepsFacts
<1>15. CASE StoreExpiry(t)
  <2>1. /\ Moved(t, "return", v.clock, v.forced, v.got) /\ v.at = "expiry"
        /\ expiry' = v.clock + TTL /\ jwks' = jwks
    BY <1>1, <1>15, VerifyMoves DEF StoreExpiry, Is
  <2>2. /\ w.at = "return" /\ w.clock = v.clock /\ w.start = v.start
        /\ w.key = v.key /\ w.known = v.known
    BY <1>8, <2>1
  <2>3. jwks # Nothing /\ jwks \in SUBSET Keys
    BY <1>5, <2>1 DEF KeyTypeOK
  <2>4. Kept(w, published', withdrawn')
    BY <1>2, <1>5, <1>7, <2>2
  <2>5. Timely(t)'
    BY <1>2, <1>5, <2>1, <2>2, <2>3, <2>4 DEF Timely
  <2>6. ASSUME alone
        PROVE  /\ \A k \in jwks : withdrawn[k] # Nothing => v.clock <= withdrawn[k]
               /\ Kept(v, jwks, withdrawn)
    BY <1>1, <1>6, <2>1, <2>6 DEF Informed, Lasting
  <2>7. \A k \in jwks : withdrawn[k] # Nothing => withdrawn[k] \in Nat
    BY <2>3, TimeAssumption DEF KeyTypeOK, Times
  <2>8. ASSUME alone
        PROVE  /\ \A k \in jwks : withdrawn[k] # Nothing => w.start < withdrawn[k] + TTL
               /\ Kept(w, jwks, withdrawn')
    <3>1. \A k \in jwks : withdrawn[k] # Nothing => w.start < withdrawn[k] + TTL
      BY <1>4, <1>5, <2>2, <2>6, <2>7, <2>8
    <3>2. QED
      BY <1>7, <2>2, <2>6, <2>8, <3>1
  <2>9. Informed(t)'
    BY <1>2, <2>1, <2>2, <2>8 DEF Informed
  <2>10. CacheDated'
    <3>1. expiry' <= now' + TTL
      BY <1>2, <1>4, <1>5, <2>1
    <3>2. alone => \A k \in jwks : withdrawn[k] # Nothing => expiry' <= withdrawn[k] + TTL
      BY <1>4, <2>1, <2>6, <2>7
    <3>3. QED
      BY <1>2, <2>1, <3>1, <3>2 DEF CacheDated
  <2>11. QED
    BY <1>1, <1>3, <1>8, <2>1, <2>5, <2>9, <2>10, ThreadKeepsFacts
<1>16. CASE FindKey(t)
  <2>1. Moved(t, Verdict(v), v.clock, TRUE, v.got) /\ UNCHANGED cache /\ v.at = "return"
    BY <1>1, <1>16, VerifyMoves DEF FindKey, Is
  <2>2. w.at = Verdict(v) /\ w.start = v.start /\ w.key = v.key /\ w.known = v.known
    BY <1>8, <2>1
  <2>3. Verdict(v) \in {"accepted", "refused", "clock"}
    BY DEF Verdict
  <2>4. ASSUME alone
        PROVE  /\ \A k \in jwks : withdrawn[k] # Nothing => v.start < withdrawn[k] + TTL
               /\ v.forced => Kept(v, jwks, withdrawn)
    BY <1>1, <1>6, <2>1, <2>4 DEF Informed
  <2>5. Verdict(v) = "accepted" => v.key \in jwks
    BY DEF Verdict
  <2>6. Verdict(v) = "refused" => v.key \notin jwks /\ v.forced
    BY DEF Verdict
  <2>7. Informed(t)'
    BY <1>2, <2>2, <2>3, <2>4, <2>5, <2>6 DEF Informed, Kept
  <2>8. QED
    BY <1>5, <1>9, <2>1, <2>3, <2>7
<1>17. QED
  BY <1>10, <1>11, <1>12, <1>13, <1>14, <1>15, <1>16 DEF Verify

LEMMA KeyInit_Inv == KeyInit => KeyInv
<1> SUFFICES ASSUME KeyInit PROVE KeyInv
  OBVIOUS
<1>1. KeyTypeOK
  BY TimeAssumption DEF KeyInit, KeyTypeOK, Times
<1>2. TakeTurns /\ ProviderSound /\ CacheDated /\ \A t \in Threads : Timely(t) /\ Informed(t)
  BY DEF KeyInit, TakeTurns, ProviderSound, CacheDated, Timely, Informed
<1>3. QED
  BY <1>1, <1>2 DEF KeyInv

LEMMA KeyNext_Inv == KeyInv /\ [KeyNext]_keyVars => KeyInv'
<1> SUFFICES ASSUME KeyInv, [KeyNext]_keyVars PROVE KeyInv'
  OBVIOUS
<1>1. KeyTypeOK /\ KeyTypeOK' /\ KeyFacts
  BY KeyTypesKept DEF KeyInv, KeyFacts
<1>2. /\ now \in Nat /\ Nothing \notin Nat /\ published \subseteq Keys
      /\ withdrawn \in [Keys -> Times \cup {Nothing}]
      /\ ProviderSound
  BY <1>1, TimeAssumption DEF KeyTypeOK, Times, KeyFacts
<1>3. CASE KeyTick
  <2>1. /\ UNCHANGED <<cache, verifying, alone>> /\ now <= now'
        /\ published' = published /\ withdrawn' = withdrawn
    BY <1>2, <1>3 DEF KeyTick, Tick, provider
  <2>2. ProviderSound'
    BY <1>2, <2>1 DEF ProviderSound
  <2>3. QED
    BY <1>1, <2>1, <2>2, ProviderKeepsFacts DEF KeyInv, KeyFacts
<1>4. ASSUME NEW k \in Keys, Publish(k) PROVE KeyFacts'
  <2>1. /\ UNCHANGED <<cache, verifying, alone>> /\ now <= now'
        /\ published' = published \cup {k} /\ withdrawn' = withdrawn /\ withdrawn[k] = Nothing
    BY <1>2, <1>4 DEF Publish
  <2>2. ProviderSound'
    BY <1>2, <2>1 DEF ProviderSound
  <2>3. QED
    BY <1>1, <2>1, <2>2, ProviderKeepsFacts
<1>5. ASSUME NEW k \in Keys, Withdraw(k) PROVE KeyFacts'
  <2>1. /\ UNCHANGED <<cache, verifying, alone>> /\ now <= now'
        /\ published' = published \ {k} /\ withdrawn[k] = Nothing
        /\ withdrawn'[k] = now /\ \A j \in Keys \ {k} : withdrawn'[j] = withdrawn[j]
    BY <1>2, <1>5 DEF Withdraw, ProviderSound
  <2>2. ProviderSound'
    BY <1>2, <2>1 DEF ProviderSound
  <2>3. \A j \in Keys : \/ withdrawn'[j] = withdrawn[j]
                        \/ withdrawn[j] = Nothing /\ withdrawn'[j] = now
    BY <2>1
  <2>4. \A j \in published : j \in published' \/ withdrawn'[j] # Nothing
    BY <1>2, <2>1
  <2>5. QED
    BY <1>1, <2>1, <2>2, <2>3, <2>4, ProviderKeepsFacts
<1>6. ASSUME NEW t \in Threads, Verify(t) PROVE KeyFacts'
  BY <1>1, <1>6, VerifyKeepsFacts, EndKeepsFacts
<1>7. CASE UNCHANGED keyVars
  <2>1. UNCHANGED <<cache, verifying, alone>>
    BY <1>7 DEF keyVars
  <2>2. now' = now /\ published' = published /\ withdrawn' = withdrawn
    BY <1>7 DEF keyVars, provider
  <2>3. ProviderSound'
    BY <1>2, <2>2 DEF ProviderSound
  <2>4. now <= now'
    BY <1>2, <2>2
  <2>5. \A k \in Keys : \/ withdrawn'[k] = withdrawn[k]
                        \/ withdrawn[k] = Nothing /\ withdrawn'[k] = now
    BY <2>2
  <2>6. \A k \in published : k \in published' \/ withdrawn'[k] # Nothing
    BY <2>2
  <2>7. QED
    BY <1>1, <2>1, <2>3, <2>4, <2>5, <2>6, ProviderKeepsFacts DEF KeyInv, KeyFacts
<1>8. KeyFacts'
  BY <1>1, <1>3, <1>4, <1>5, <1>6, <1>7, BeginKeepsFacts DEF KeyNext, KeyInv, KeyFacts
<1>9. QED
  BY <1>1, <1>8 DEF KeyInv, KeyFacts

LEMMA KeyInvariant == KeySpec => []KeyInv
<1>1. KeyInit => KeyInv
  BY KeyInit_Inv
<1>2. KeyInv /\ [KeyNext]_keyVars => KeyInv'
  BY KeyNext_Inv
<1>3. QED
  BY <1>1, <1>2, PTL DEF KeySpec

\* The types of the key cache and of the verifications, whatever the threads
\* interleave; an expiry is written only after a key set (oidc.py:102-111).
THEOREM KeyTypeCorrect == KeySpec => []KeyTypeOK
<1>1. KeyInv => KeyTypeOK
  BY DEF KeyInv
<1>2. QED
  BY <1>1, KeyInvariant, PTL

\* When verifications take turns, no token signed with a withdrawn key is
\* accepted by a verification begun a cache lifetime after the withdrawal,
\* however long a fetch takes (oidc.py:102-111).
THEOREM AloneTrustAlwaysEnds == KeySpec => []AloneTrustEnds
<1>1. KeyInv => AloneTrustEnds
  BY DEF KeyInv, Informed, AloneTrustEnds, TrustEnds, Is
<1>2. QED
  BY <1>1, KeyInvariant, PTL

\* When verifications take turns, a key published before its verification
\* began is refused only if it has been withdrawn since (oidc.py:94-99).
THEOREM AloneRotationAlwaysFollowed == KeySpec => []AloneRotationFollowed
<1>1. KeyInv => AloneRotationFollowed
  BY DEF KeyInv, Informed, AloneRotationFollowed, Is
<1>2. QED
  BY <1>1, KeyInvariant, PTL

-----------------------------------------------------------------------------
(* Both halves at once: the clock they share moves for each as its own      *)
(* clock does, and a step of one is a stutter of the other.                 *)

\* Only the passing of time changes the clock of the browsers' half.
LEMMA LoginClock == LoginNext => LoginTick \/ now' = now
<1>1. ASSUME NEW t \in Threads, Handle(t) PROVE now' = now
  BY <1>1 DEF Handle, LoginAnswered, ConsumeAttempt, CallbackAnswered, Require, RequireCsrf, Act,
              Logout, LogoutAnswered, Lose
<1>2. QED
  BY <1>1 DEF LoginNext, DeleteExpired, IssueCode, AuthorizeRedirect, Callback, CreateSession, Send

\* Nor that of the keys' half.
LEMMA KeyClock == KeyNext => KeyTick \/ now' = now
<1>1. ASSUME NEW t \in Threads, Verify(t) PROVE now' = now
  BY <1>1 DEF Verify, ReadClock, TestCache, FetchKeys, FetchFails, StoreKeys, StoreExpiry, FindKey, End
<1>2. QED
  BY <1>1 DEF KeyNext, Publish, Withdraw, Begin

\* Each half's invariant holds however the steps of the two follow each other.
LEMMA HalvesKept == LoginInv /\ KeyInv /\ [Next]_<<loginVars, keyVars, half>> => LoginInv' /\ KeyInv'
<1> SUFFICES ASSUME LoginInv, KeyInv, [Next]_<<loginVars, keyVars, half>>
             PROVE  LoginInv' /\ KeyInv'
  OBVIOUS
<1>1. CASE LoginNext /\ UNCHANGED <<provider, cache, verifying, alone>>
  <2>1. [KeyNext]_keyVars
    BY <1>1, LoginClock DEF LoginTick, KeyTick, KeyNext, keyVars
  <2>2. QED
    BY <1>1, <2>1, LoginInvKept, KeyNext_Inv
<1>2. CASE KeyNext /\ UNCHANGED <<idp, store, jar, work>>
  <2>1. [LoginNext]_loginVars
    BY <1>2, KeyClock DEF LoginTick, KeyTick, LoginNext, loginVars
  <2>2. QED
    BY <1>2, <2>1, LoginInvKept, KeyNext_Inv
<1>3. CASE UNCHANGED <<loginVars, keyVars, half>>
  BY <1>3, LoginInvKept, KeyNext_Inv
<1>4. QED
  BY <1>1, <1>2, <1>3 DEF Next

\* The tables, cookies, requests, key cache and verifications keep their types
\* when browsers and verifications share a clock, whichever half takes the step
\* (session.py, dependencies.py and oidc.py of qe_platform/auth).
THEOREM BothTypeCorrect == Spec => []TypeOK
<1>1. Init => LoginInv /\ KeyInv
  BY Starts, KeyInit_Inv DEF Init
<1>2. LoginInv /\ KeyInv /\ [Next]_<<loginVars, keyVars, half>> => LoginInv' /\ KeyInv'
  BY HalvesKept
<1>3. LoginInv /\ KeyInv => TypeOK
  BY DEF LoginInv, KeyInv, TypeOK
<1>4. QED
  BY <1>1, <1>2, <1>3, PTL DEF Spec
=============================================================================
