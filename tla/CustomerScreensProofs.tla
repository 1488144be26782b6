----------------------- MODULE CustomerScreensProofs ------------------------
(***************************************************************************)
(* Theorems about the screens around a customer, for every value of their  *)
(* constants.  A visit stays at one screen, whose steps it takes: for each *)
(* screen an inductive invariant is proved of its own actions, and the     *)
(* theorems put the screens together.                                      *)
(***************************************************************************)
EXTENDS CustomerScreens, FiniteSetTheorems, TLAPS

-----------------------------------------------------------------------------
(* Sessions.                                                               *)

(* Whatever is taken for a token has been issued.                          *)
TokensAreIssued ==
    /\ stored # 0 => expiry[stored] # 0
    /\ \A t \in Tab : token[t] # 0 => expiry[token[t]] # 0
    /\ \A t \in Tab, c \in Session!Call :
          answer[t][c] \in Session!Token => expiry[answer[t][c]] # 0

(* The timers of a tab are those of its token.                             *)
TimersOfToken ==
    \A t \in Tab : \A k \in sessionTimers[t] :
        token[t] # 0 /\ k[2] = expiry[token[t]] - k[1]

(* A tab that shows the pages has a token and knows the user, or else is   *)
(* logging out; while a login is out the login page is displayed and no    *)
(* profile is asked for.                                                   *)
PagesInOrder ==
    \A t \in Tab :
        /\ page[t] = "client" => token[t] # 0 /\ (user[t] \/ Session!Out(t, "logout"))
        /\ Session!Out(t, "login") => page[t] = "login" /\ ~Session!Out(t, "me")

SessionInv ==
    /\ Session!TypeOK
    /\ TokensAreIssued
    /\ TimersOfToken
    /\ PagesInOrder
    /\ Session!WarningIsTrue
    /\ Session!LogoutIsArmed

(* A browser that has just been opened keeps the invariant of the sign-in. *)
LEMMA SessionInit == Session!Init => SessionInv
  BY SessionConstants DEF Session!Init, SessionInv, Session!TypeOK, TokensAreIssued,
     TimersOfToken, PagesInOrder, Session!WarningIsTrue, Session!LogoutIsArmed,
     Session!Live, Session!Out, Session!Token, Session!Threshold, Session!Call,
     Session!Waiting, Session!Done, Session!Failed, Session!Unauthorized

(* All that SetToken arms are timers of the new token, the one for the     *)
(* logout among them if the token lives.                                   *)
LEMMA Armed ==
    ASSUME Session!TypeOK, NEW n \in {0} \cup Session!Token
    PROVE  /\ Session!ArmedFor(n) \subseteq Session!Threshold \X Nat
           /\ \A k \in Session!ArmedFor(n) : n # 0 /\ k[2] = expiry[n] - k[1]
           /\ Session!Live(n) => <<0, expiry[n]>> \in Session!ArmedFor(n)
<1>1. \A m \in Session!Threshold : m \in Nat
  BY SessionConstants DEF Session!Threshold
<1>2. sessionClock \in Nat /\ (n # 0 => expiry[n] \in Nat)
  BY SessionConstants DEF Session!TypeOK
<1>3. \A k : k \in Session!ArmedFor(n) <=>
         \E m \in Session!Threshold : /\ n # 0 /\ sessionClock + m < expiry[n]
                                     /\ k = <<m, expiry[n] - m>>
  BY DEF Session!ArmedFor
<1>4. ASSUME NEW k \in Session!ArmedFor(n)
      PROVE  k \in Session!Threshold \X Nat /\ n # 0 /\ k[2] = expiry[n] - k[1]
  <2>1. PICK m \in Session!Threshold : /\ n # 0 /\ sessionClock + m < expiry[n]
                                      /\ k = <<m, expiry[n] - m>>
    BY <1>3
  <2>2. expiry[n] - m \in Nat
    BY <1>1, <1>2, <2>1
  <2>3. QED
    BY <2>1, <2>2
<1>5. ASSUME Session!Live(n) PROVE <<0, expiry[n]>> \in Session!ArmedFor(n)
  <2>1. n # 0 /\ sessionClock + 0 < expiry[n] /\ expiry[n] - 0 = expiry[n]
    BY <1>2, <1>5 DEF Session!Live
  <2>2. 0 \in Session!Threshold
    BY DEF Session!Threshold
  <2>3. QED
    BY <1>3, <2>1, <2>2
<1>6. QED
  BY <1>4, <1>5

(* Of the calls of a tab only some change, and none is answered.           *)
OnlyCalls(t, cs) ==
    /\ sessionSent' \in [Tab -> [Session!Call -> {-1, 0} \cup Session!Token]]
    /\ answer' \in [Tab -> [Session!Call -> {Session!Waiting, Session!Unauthorized,
                                 Session!Failed, Session!Done} \cup Session!Token]]
    /\ \A u \in Tab, c \in Session!Call :
          /\ u # t \/ c \notin cs => sessionSent'[u][c] = sessionSent[u][c]
          /\ answer'[u][c] \in {answer[u][c], Session!Waiting}

(* Sending calls with a token changes what those calls hold and no other.  *)
LEMMA CallsEffect ==
    ASSUME Session!TypeOK, NEW t \in Tab, NEW cs, NEW held \in {-1, 0} \cup Session!Token,
           Session!Calls(t, cs, held)
    PROVE  OnlyCalls(t, cs) /\ \A c \in cs \cap Session!Call : sessionSent'[t][c] = held
  BY DEF Session!TypeOK, Session!Calls, OnlyCalls

(* A call that is over holds nothing.                                      *)
LEMMA OverEffect ==
    ASSUME Session!TypeOK, NEW t \in Tab, NEW c \in Session!Call, Session!Over(t, c)
    PROVE  OnlyCalls(t, {c}) /\ sessionSent'[t][c] = -1
  BY DEF Session!TypeOK, Session!Over, OnlyCalls

(* An answer that sends the next call leaves one call done and the other   *)
(* one on its way.                                                         *)
LEMMA ThenEffect ==
    ASSUME Session!TypeOK, NEW t \in Tab, NEW c \in Session!Call, NEW d \in Session!Call,
           NEW held \in {0} \cup Session!Token, c # d, Session!Then(t, c, d, held)
    PROVE  OnlyCalls(t, {c, d}) /\ sessionSent'[t][c] = -1 /\ sessionSent'[t][d] # -1
<1>1. held # -1
  BY SessionConstants DEF Session!Token
<1>2. QED
  BY <1>1 DEF Session!TypeOK, Session!Then, OnlyCalls, Session!Out

(* As no action but Serve issues tokens, it is enough to look at what an   *)
(* action takes for one.                                                   *)
LEMMA StillIssued ==
    ASSUME SessionInv, UNCHANGED expiry,
           stored' # 0 => expiry[stored'] # 0,
           \A u \in Tab : token'[u] # 0 => expiry[token'[u]] # 0,
           \A u \in Tab, c \in Session!Call : answer'[u][c] \in {answer[u][c], Session!Waiting}
    PROVE  TokensAreIssued'
  BY SessionConstants DEF SessionInv, TokensAreIssued, Session!Token, Session!Waiting

TabTimers == TimersOfToken /\ Session!WarningIsTrue /\ Session!LogoutIsArmed

(* The types of what SetToken sets.                                        *)
TokenTypes ==
    /\ token \in [Tab -> {0} \cup Session!Token]
    /\ warning \in [Tab -> Session!Threshold]
    /\ sessionTimers \in [Tab -> SUBSET (Session!Threshold \X Nat)]

(* Storing or clearing the token of a tab sets its timers as the effect of *)
(* the provider does.                                                      *)
LEMMA SetTokenEffect ==
    ASSUME SessionInv, NEW t \in Tab, NEW n \in {0} \cup Session!Token,
           Session!SetToken(t, n), UNCHANGED <<sessionClock, expiry>>
    PROVE  TokenTypes' /\ TabTimers' /\ token' = [token EXCEPT ![t] = n]
<1> DEFINE armed == Session!ArmedFor(n)
<1>1. /\ armed \subseteq Session!Threshold \X Nat
      /\ \A k \in armed : n # 0 /\ k[2] = expiry[n] - k[1]
      /\ n # 0 /\ sessionClock < expiry[n] => <<0, expiry[n]>> \in armed
  BY Armed DEF SessionInv, Session!Live
<1>2. /\ token' = [token EXCEPT ![t] = n]
      /\ sessionTimers' = [sessionTimers EXCEPT ![t] = armed]
      /\ warning' = [warning EXCEPT ![t] = 0]
  BY DEF Session!SetToken
<1>3. 0 \in Session!Threshold
  BY DEF Session!Threshold
<1> HIDE DEF armed
<1>4. QED
  BY <1>1, <1>2, <1>3 DEF SessionInv, Session!TypeOK, TokenTypes, TabTimers, TimersOfToken,
     Session!WarningIsTrue, Session!LogoutIsArmed, Session!Live

(* Every step of the browser keeps the invariant of the sign-in.           *)
LEMMA SessionStep == SessionInv /\ (Session!Next \/ UNCHANGED sessionVars) => SessionInv'
<1> SUFFICES ASSUME SessionInv, Session!Next \/ UNCHANGED sessionVars PROVE SessionInv'
  OBVIOUS
<1> USE DEF SessionInv
(* The parts that an action leaves alone. *)
<1>a. UNCHANGED <<token, warning, sessionTimers>> => TokenTypes'
  BY DEF TokenTypes, Session!TypeOK
<1>b. UNCHANGED <<sessionClock, expiry, token, warning, sessionTimers>> => TabTimers'
  BY DEF TabTimers, TimersOfToken, Session!WarningIsTrue, Session!LogoutIsArmed, Session!Live
<1>0. CASE UNCHANGED sessionVars
  BY <1>0 DEF sessionVars, Session!TypeOK, TokensAreIssued, TimersOfToken, PagesInOrder,
     Session!WarningIsTrue, Session!LogoutIsArmed, Session!Live, Session!Out
<1>tick. CASE Session!Tick
  <2>1. /\ sessionClock' = sessionClock + 1 /\ sessionClock < MaxClock
        /\ UNCHANGED <<expiry, stored, page, token, user, warning, sessionTimers, sessionSent, answer>>
    BY <1>tick DEF Session!Tick, Session!tabState
  <2>2. sessionClock' \in 0..MaxClock /\ sessionClock \in Nat
    BY <2>1, SessionConstants DEF Session!TypeOK
  <2>3. TokensAreIssued' /\ TimersOfToken' /\ PagesInOrder'
    BY <2>1 DEF TokensAreIssued, TimersOfToken, PagesInOrder, Session!Out
  <2>4. \A u \in Tab : token[u] # 0 => expiry[token[u]] \in Nat
    BY DEF Session!TypeOK
  <2>5. Session!WarningIsTrue'
    <3> SUFFICES ASSUME NEW u \in Tab, warning[u] # 0
                 PROVE  token[u] # 0 /\ expiry[token[u]] - (sessionClock + 1) <= warning[u]
      BY <2>1 DEF Session!WarningIsTrue
    <3>1. token[u] # 0 /\ expiry[token[u]] - sessionClock <= warning[u]
      BY DEF Session!WarningIsTrue
    <3>2. warning[u] \in Nat
      BY SessionConstants DEF Session!TypeOK, Session!Threshold
    <3>3. QED
      BY <2>2, <2>4, <3>1, <3>2
  <2>6. Session!LogoutIsArmed'
    BY <2>1, <2>2, <2>4 DEF Session!LogoutIsArmed, Session!Live
  <2>7. QED
    BY <2>1, <2>2, <2>3, <2>5, <2>6 DEF Session!TypeOK
<1>Mount. ASSUME NEW t \in Tab, Session!Mount(t) PROVE SessionInv'
  <2>1. CASE stored = 0
    <3>1. /\ page' = [page EXCEPT ![t] = "login"]
          /\ UNCHANGED <<sessionClock, expiry, stored, token, user, warning, sessionTimers, sessionSent, answer>>
      BY <1>Mount, <2>1 DEF Session!Mount, Session!Home
    <3>2. TokenTypes' /\ TabTimers'
      BY <3>1, <1>a, <1>b
    <3>3. Session!TypeOK'
      BY <3>1 DEF Session!TypeOK
    <3>4. TokensAreIssued'
      BY <3>1 DEF TokensAreIssued
    <3>5. PagesInOrder'
      BY <1>Mount, <3>1 DEF Session!Mount, PagesInOrder, Session!Out, Session!TypeOK
    <3>6. QED
      BY <3>2, <3>3, <3>4, <3>5 DEF TabTimers
  <2>2. CASE stored # 0
    <3>1. stored \in Session!Token /\ expiry[stored] # 0
      BY <2>2 DEF Session!TypeOK, TokensAreIssued
    <3>2. /\ Session!SetToken(t, stored) /\ Session!Calls(t, {"me"}, stored)
          /\ page[t] = "loading"
          /\ UNCHANGED <<page, sessionClock, expiry, stored, user>>
      BY <1>Mount, <2>2 DEF Session!Mount
    <3>3. TokenTypes' /\ TabTimers' /\ token' = [token EXCEPT ![t] = stored]
      BY <3>1, <3>2, SetTokenEffect
    <3>4. OnlyCalls(t, {"me"})
      BY <3>1, <3>2, CallsEffect
    <3>5. Session!TypeOK'
      BY <3>2, <3>3, <3>4 DEF Session!TypeOK, TokenTypes, OnlyCalls
    <3>6. TokensAreIssued'
      BY <3>1, <3>2, <3>3, <3>4, StillIssued DEF TokensAreIssued, OnlyCalls, Session!TypeOK
    <3>7. PagesInOrder'
      BY <3>2, <3>3, <3>4 DEF PagesInOrder, OnlyCalls, Session!Out, Session!Call, Session!TypeOK
    <3>8. QED
      BY <3>3, <3>5, <3>6, <3>7 DEF TabTimers
  <2>3. QED
    BY <2>1, <2>2
<1>Reload. ASSUME NEW t \in Tab, Session!Reload(t) PROVE SessionInv'
  <2>1. OnlyCalls(t, Session!Call) /\ \A c \in Session!Call : sessionSent'[t][c] = -1
    BY <1>Reload, CallsEffect DEF Session!Reload
  <2>2. /\ page' = [page EXCEPT ![t] = "loading"]
        /\ token' = [token EXCEPT ![t] = 0]
        /\ user' = [user EXCEPT ![t] = FALSE]
        /\ warning' = [warning EXCEPT ![t] = 0]
        /\ sessionTimers' = [sessionTimers EXCEPT ![t] = {}]
        /\ UNCHANGED <<sessionClock, expiry, stored>>
    BY <1>Reload DEF Session!Reload
  <2>3. Session!TypeOK'
    BY <2>1, <2>2 DEF Session!TypeOK, OnlyCalls, Session!Threshold
  <2>4. TabTimers'
    BY <2>2 DEF TabTimers, TimersOfToken, Session!WarningIsTrue, Session!LogoutIsArmed,
       Session!Live, Session!TypeOK
  <2>5. TokensAreIssued'
    BY <2>1, <2>2, StillIssued DEF TokensAreIssued, OnlyCalls, Session!TypeOK
  <2>6. PagesInOrder'
    BY <2>1, <2>2 DEF PagesInOrder, OnlyCalls, Session!Out, Session!Call, Session!TypeOK
  <2>7. QED
    BY <2>3, <2>4, <2>5, <2>6 DEF TabTimers
<1>SubmitLogin. ASSUME NEW t \in Tab, Session!SubmitLogin(t) PROVE SessionInv'
  <2>1. 0 \in {0} \cup Session!Token
    BY DEF Session!TypeOK
  <2>2. OnlyCalls(t, {"login"}) /\ sessionSent'[t]["login"] = 0
    BY <1>SubmitLogin, <2>1, CallsEffect DEF Session!SubmitLogin, Session!Call
  <2>3. UNCHANGED <<sessionClock, expiry, stored, page, token, user, warning, sessionTimers>>
    BY <1>SubmitLogin DEF Session!SubmitLogin, Session!tabState
  <2>4. TabTimers'
    BY <2>3, <1>b
  <2>5. Session!TypeOK'
    BY <2>2, <2>3 DEF Session!TypeOK, OnlyCalls
  <2>6. TokensAreIssued'
    BY <2>2, <2>3, StillIssued DEF TokensAreIssued, OnlyCalls
  <2>7. PagesInOrder'
    BY <1>SubmitLogin, <2>1, <2>2, <2>3, SessionConstants
    DEF Session!SubmitLogin, PagesInOrder, OnlyCalls, Session!Out, Session!Call, Session!Token
  <2>8. QED
    BY <2>4, <2>5, <2>6, <2>7 DEF TabTimers
<1>ClickLogout. ASSUME NEW t \in Tab, Session!ClickLogout(t) PROVE SessionInv'
  <2>1. stored \in {0} \cup Session!Token
    BY DEF Session!TypeOK
  <2>2. OnlyCalls(t, {"logout"}) /\ sessionSent'[t]["logout"] = stored
    BY <1>ClickLogout, <2>1, CallsEffect DEF Session!ClickLogout, Session!Call
  <2>3. UNCHANGED <<sessionClock, expiry, stored, page, token, user, warning, sessionTimers>>
    BY <1>ClickLogout DEF Session!ClickLogout, Session!tabState
  <2>4. TabTimers'
    BY <2>3, <1>b
  <2>5. Session!TypeOK'
    BY <2>2, <2>3 DEF Session!TypeOK, OnlyCalls
  <2>6. TokensAreIssued'
    BY <2>2, <2>3, StillIssued DEF TokensAreIssued, OnlyCalls
  <2>7. PagesInOrder'
    BY <1>ClickLogout, <2>1, <2>2, <2>3, SessionConstants
    DEF Session!ClickLogout, PagesInOrder, OnlyCalls, Session!Out, Session!Call, Session!Token
  <2>8. QED
    BY <2>4, <2>5, <2>6, <2>7 DEF TabTimers
<1>ClickRenew. ASSUME NEW t \in Tab, Session!ClickRenew(t) PROVE SessionInv'
  <2>1. stored \in {0} \cup Session!Token
    BY DEF Session!TypeOK
  <2>2. OnlyCalls(t, {"renew"}) /\ sessionSent'[t]["renew"] = stored
    BY <1>ClickRenew, <2>1, CallsEffect DEF Session!ClickRenew, Session!Call
  <2>3. UNCHANGED <<sessionClock, expiry, stored, page, token, user, warning, sessionTimers>>
    BY <1>ClickRenew DEF Session!ClickRenew, Session!tabState
  <2>4. TabTimers'
    BY <2>3, <1>b
  <2>5. Session!TypeOK'
    BY <2>2, <2>3 DEF Session!TypeOK, OnlyCalls
  <2>6. TokensAreIssued'
    BY <2>2, <2>3, StillIssued DEF TokensAreIssued, OnlyCalls
  <2>7. PagesInOrder'
    BY <1>ClickRenew, <2>1, <2>2, <2>3, SessionConstants
    DEF Session!ClickRenew, PagesInOrder, OnlyCalls, Session!Out, Session!Call, Session!Token
  <2>8. QED
    BY <2>4, <2>5, <2>6, <2>7 DEF TabTimers
<1>FetchUser. ASSUME NEW t \in Tab, Session!FetchUser(t) PROVE SessionInv'
  <2>1. /\ Session!Out(t, "me")
        /\ page' = [page EXCEPT ![t] = IF token[t] = 0 THEN "login" ELSE "client"]
        /\ stored' \in {0, stored}
        /\ UNCHANGED <<sessionClock, expiry, token, warning, sessionTimers>>
    BY <1>FetchUser DEF Session!FetchUser, Session!Answered, Session!Home, Session!Kept
  <2>2. stored' \in {0} \cup Session!Token
    BY <2>1 DEF Session!TypeOK
  <2>3. /\ OnlyCalls(t, {"me", "logout"})
        /\ \/ user' = [user EXCEPT ![t] = TRUE] /\ sessionSent'[t]["logout"] = sessionSent[t]["logout"]
           \/ user' = user /\ sessionSent'[t]["logout"] # -1
    <3>1. CASE answer[t]["me"] = Session!Done
      <4>1. user' = [user EXCEPT ![t] = TRUE] /\ OnlyCalls(t, {"me"})
        BY <1>FetchUser, <3>1, OverEffect DEF Session!FetchUser, Session!Call
      <4>2. QED
        BY <4>1 DEF OnlyCalls, Session!Call
    <3>2. CASE answer[t]["me"] # Session!Done
      BY <1>FetchUser, <2>2, <3>2, ThenEffect DEF Session!FetchUser, Session!Call
    <3>3. QED
      BY <3>1, <3>2
  <2>4. TabTimers'
    BY <2>1, <1>b
  <2>5. Session!TypeOK'
    BY <2>1, <2>2, <2>3 DEF Session!TypeOK, OnlyCalls
  <2>6. TokensAreIssued'
    BY <2>1, <2>3, StillIssued DEF TokensAreIssued, OnlyCalls
  <2>7. PagesInOrder'
    BY <2>1, <2>3 DEF PagesInOrder, OnlyCalls, Session!Out, Session!Call, Session!TypeOK
  <2>8. QED
    BY <2>4, <2>5, <2>6, <2>7 DEF TabTimers
<1>Login. ASSUME NEW t \in Tab, Session!Login(t) PROVE SessionInv'
  <2>1. /\ page[t] = "login" /\ "login" \in Session!Call /\ "me" \in Session!Call
        /\ UNCHANGED <<sessionClock, expiry, page, user>>
    BY <1>Login DEF Session!Login, Session!Answered, PagesInOrder, Session!Call
  <2>2. CASE answer[t]["login"] \in Session!Token
    <3> DEFINE n == answer[t]["login"]
    <3>1. n # 0 /\ n \in {0} \cup Session!Token /\ expiry[n] # 0
      BY <2>1, <2>2, SessionConstants DEF TokensAreIssued, Session!Token
    <3>2. stored' = n /\ Session!SetToken(t, n) /\ Session!Then(t, "login", "me", n)
      BY <1>Login, <2>2 DEF Session!Login
    <3>3. TokenTypes' /\ TabTimers' /\ token' = [token EXCEPT ![t] = n]
      BY <2>1, <3>1, <3>2, SetTokenEffect
    <3>4. OnlyCalls(t, {"login", "me"}) /\ sessionSent'[t]["login"] = -1
      BY <2>1, <3>1, <3>2, ThenEffect
    <3> HIDE DEF n
    <3>5. Session!TypeOK'
      BY <2>1, <3>1, <3>2, <3>3, <3>4 DEF Session!TypeOK, TokenTypes, OnlyCalls
    <3>6. TokensAreIssued'
      BY <2>1, <3>1, <3>2, <3>3, <3>4, StillIssued DEF TokensAreIssued, OnlyCalls, Session!TypeOK
    <3>7. PagesInOrder'
      BY <2>1, <3>3, <3>4 DEF PagesInOrder, OnlyCalls, Session!Out, Session!Call, Session!TypeOK
    <3>8. QED
      BY <3>3, <3>5, <3>6, <3>7 DEF TabTimers
  <2>3. CASE answer[t]["login"] \notin Session!Token
    <3>1. /\ Session!Over(t, "login")
          /\ UNCHANGED <<stored, token, sessionTimers, warning>>
      BY <1>Login, <2>3 DEF Session!Login
    <3>2. OnlyCalls(t, {"login"}) /\ sessionSent'[t]["login"] = -1
      BY <2>1, <3>1, OverEffect
    <3>3. TabTimers'
      BY <2>1, <3>1, <1>b
    <3>4. Session!TypeOK'
      BY <2>1, <3>1, <3>2 DEF Session!TypeOK, OnlyCalls
    <3>5. TokensAreIssued'
      BY <2>1, <3>1, <3>2, StillIssued DEF TokensAreIssued, OnlyCalls
    <3>6. PagesInOrder'
      BY <2>1, <3>1, <3>2 DEF PagesInOrder, OnlyCalls, Session!Out, Session!Call
    <3>7. QED
      BY <3>3, <3>4, <3>5, <3>6 DEF TabTimers
  <2>4. QED
    BY <2>2, <2>3
<1>Logout. ASSUME NEW t \in Tab, Session!Logout(t) PROVE SessionInv'
  <2>1. /\ stored' = 0 /\ Session!SetToken(t, 0) /\ Session!Over(t, "logout")
        /\ user' = [user EXCEPT ![t] = FALSE]
        /\ page' = [page EXCEPT ![t] = "login"]
        /\ UNCHANGED <<sessionClock, expiry>>
    BY <1>Logout DEF Session!Logout
  <2>2. OnlyCalls(t, {"logout"})
    BY <2>1, OverEffect DEF Session!Call
  <2>3. TokenTypes' /\ TabTimers' /\ token' = [token EXCEPT ![t] = 0]
    BY <2>1, SetTokenEffect
  <2>4. Session!TypeOK'
    BY <2>1, <2>2, <2>3 DEF Session!TypeOK, TokenTypes, OnlyCalls
  <2>5. TokensAreIssued'
    BY <2>1, <2>2, <2>3, StillIssued DEF TokensAreIssued, OnlyCalls, Session!TypeOK
  <2>6. PagesInOrder'
    BY <2>1, <2>2, <2>3 DEF PagesInOrder, OnlyCalls, Session!Out, Session!Call, Session!TypeOK
  <2>7. QED
    BY <2>3, <2>4, <2>5, <2>6 DEF TabTimers
<1>RenewSession. ASSUME NEW t \in Tab, Session!RenewSession(t) PROVE SessionInv'
  <2>1. /\ "renew" \in Session!Call /\ "logout" \in Session!Call
        /\ UNCHANGED <<sessionClock, expiry, page, user>>
    BY <1>RenewSession DEF Session!RenewSession, Session!Call
  <2>2. CASE answer[t]["renew"] \in Session!Token
    <3> DEFINE n == answer[t]["renew"]
    <3>1. n # 0 /\ n \in {0} \cup Session!Token /\ expiry[n] # 0
      BY <2>1, <2>2, SessionConstants DEF TokensAreIssued, Session!Token
    <3>2. stored' = n /\ Session!SetToken(t, n) /\ Session!Over(t, "renew")
      BY <1>RenewSession, <2>2 DEF Session!RenewSession
    <3>3. TokenTypes' /\ TabTimers' /\ token' = [token EXCEPT ![t] = n]
      BY <2>1, <3>1, <3>2, SetTokenEffect
    <3>4. OnlyCalls(t, {"renew"})
      BY <2>1, <3>2, OverEffect
    <3> HIDE DEF n
    <3>5. Session!TypeOK'
      BY <2>1, <3>1, <3>2, <3>3, <3>4 DEF Session!TypeOK, TokenTypes, OnlyCalls
    <3>6. TokensAreIssued'
      BY <2>1, <3>1, <3>2, <3>3, <3>4, StillIssued DEF TokensAreIssued, OnlyCalls, Session!TypeOK
    <3>7. PagesInOrder'
      BY <2>1, <3>1, <3>3, <3>4 DEF PagesInOrder, OnlyCalls, Session!Out, Session!Call, Session!TypeOK
    <3>8. QED
      BY <3>3, <3>5, <3>6, <3>7 DEF TabTimers
  <2>3. CASE answer[t]["renew"] \notin Session!Token
    <3>1. /\ Session!Then(t, "renew", "logout", stored)
          /\ stored \in {0} \cup Session!Token
          /\ UNCHANGED <<stored, token, sessionTimers, warning>>
      BY <1>RenewSession, <2>3 DEF Session!RenewSession, Session!TypeOK
    <3>2. OnlyCalls(t, {"renew", "logout"}) /\ sessionSent'[t]["logout"] # -1
      BY <2>1, <3>1, ThenEffect
    <3>3. TabTimers'
      BY <2>1, <3>1, <1>b
    <3>4. Session!TypeOK'
      BY <2>1, <3>1, <3>2 DEF Session!TypeOK, OnlyCalls
    <3>5. TokensAreIssued'
      BY <2>1, <3>1, <3>2, StillIssued DEF TokensAreIssued, OnlyCalls
    <3>6. PagesInOrder'
      BY <2>1, <3>1, <3>2 DEF PagesInOrder, OnlyCalls, Session!Out, Session!Call
    <3>7. QED
      BY <3>3, <3>4, <3>5, <3>6 DEF TabTimers
  <2>4. QED
    BY <2>2, <2>3
<1>DismissWarning. ASSUME NEW t \in Tab, Session!DismissWarning(t) PROVE SessionInv'
  <2>1. /\ warning' = [warning EXCEPT ![t] = 0]
        /\ UNCHANGED <<sessionClock, expiry, stored, page, token, user, sessionTimers, sessionSent, answer>>
    BY <1>DismissWarning DEF Session!DismissWarning
  <2>2. TabTimers'
    BY <2>1 DEF TabTimers, TimersOfToken, Session!WarningIsTrue, Session!LogoutIsArmed,
       Session!Live, Session!TypeOK
  <2>3. Session!TypeOK'
    BY <2>1 DEF Session!TypeOK, Session!Threshold
  <2>4. TokensAreIssued' /\ PagesInOrder'
    BY <2>1 DEF TokensAreIssued, PagesInOrder, Session!Out
  <2>5. QED
    BY <2>2, <2>3, <2>4 DEF TabTimers
<1>WarningTimer. ASSUME NEW t \in Tab, Session!WarningTimer(t) PROVE SessionInv'
  <2>1. PICK m \in WARNING_THRESHOLDS_MINUTES, at \in 0..sessionClock :
           /\ <<m, at>> \in sessionTimers[t]
           /\ sessionTimers' = [sessionTimers EXCEPT ![t] = @ \ {<<m, at>>}]
           /\ warning' = [warning EXCEPT ![t] = m]
           /\ UNCHANGED <<sessionClock, expiry, stored, page, token, user, sessionSent, answer>>
    BY <1>WarningTimer DEF Session!WarningTimer, Session!Due
  <2>2. m \in Nat /\ m # 0 /\ m \in Session!Threshold
    BY SessionConstants DEF Session!Threshold
  <2>3. token[t] # 0 /\ at = expiry[token[t]] - m
    BY <2>1 DEF TimersOfToken
  <2>4. expiry[token[t]] - sessionClock <= m
    BY <2>1, <2>2, <2>3, SessionConstants DEF Session!TypeOK
  <2>5. Session!TypeOK'
    BY <2>1, <2>2 DEF Session!TypeOK
  <2>6. TimersOfToken'
    BY <2>1 DEF TimersOfToken, Session!TypeOK
  <2>7. Session!WarningIsTrue'
    BY <2>1, <2>3, <2>4 DEF Session!WarningIsTrue, Session!TypeOK
  <2>8. Session!LogoutIsArmed'
    BY <2>1, <2>2 DEF Session!LogoutIsArmed, Session!Live, Session!TypeOK
  <2>9. TokensAreIssued' /\ PagesInOrder'
    BY <2>1 DEF TokensAreIssued, PagesInOrder, Session!Out
  <2>10. QED
    BY <2>5, <2>6, <2>7, <2>8, <2>9
<1>ExpiryTimer. ASSUME NEW t \in Tab, Session!ExpiryTimer(t) PROVE SessionInv'
  <2>1. PICK at \in 0..sessionClock :
           /\ sessionTimers' = [sessionTimers EXCEPT ![t] = @ \ {<<0, at>>}]
           /\ IF Session!Out(t, "logout") THEN UNCHANGED <<sessionSent, answer>>
              ELSE Session!Calls(t, {"logout"}, stored)
           /\ UNCHANGED <<sessionClock, expiry, stored, page, token, user, warning>>
    BY <1>ExpiryTimer DEF Session!ExpiryTimer, Session!Due
  <2>2. stored \in {0} \cup Session!Token
    BY DEF Session!TypeOK
  <2>3. OnlyCalls(t, {"logout"}) /\ sessionSent'[t]["logout"] # -1
    <3>1. CASE Session!Out(t, "logout")
      BY <2>1, <3>1 DEF OnlyCalls, Session!TypeOK, Session!Out
    <3>2. CASE ~Session!Out(t, "logout")
      BY <2>1, <2>2, <3>2, CallsEffect, SessionConstants DEF Session!Call, Session!Token
    <3>3. QED
      BY <3>1, <3>2
  <2>4. Session!TypeOK'
    BY <2>1, <2>3 DEF Session!TypeOK, OnlyCalls
  <2>5. TimersOfToken' /\ Session!WarningIsTrue'
    BY <2>1 DEF TimersOfToken, Session!WarningIsTrue, Session!TypeOK
  <2>6. Session!LogoutIsArmed'
    BY <2>1, SessionConstants DEF Session!LogoutIsArmed, Session!Live, Session!TypeOK
  <2>7. TokensAreIssued'
    BY <2>1, <2>3, StillIssued DEF TokensAreIssued, OnlyCalls
  <2>8. PagesInOrder'
    BY <2>1, <2>3 DEF PagesInOrder, OnlyCalls, Session!Out, Session!Call
  <2>9. QED
    BY <2>4, <2>5, <2>6, <2>7, <2>8
<1>Serve. ASSUME NEW t \in Tab, NEW c \in Session!Call, Session!Serve(t, c) PROVE SessionInv'
  <2>1. UNCHANGED <<sessionClock, stored, page, token, user, warning, sessionTimers, sessionSent>>
    BY <1>Serve DEF Session!Serve, Session!tabState
  <2>2. PagesInOrder'
    BY <2>1 DEF PagesInOrder, Session!Out
  <2>3. CASE Session!Issue(t, c)
    <3>1. PICK n \in Session!Token :
             /\ expiry[n] = 0
             /\ expiry' = [expiry EXCEPT ![n] = sessionClock + ACCESS_TOKEN_EXPIRE_MINUTES]
             /\ answer' = [answer EXCEPT ![t][c] = n]
      BY <2>3 DEF Session!Issue
    <3>2. /\ sessionClock + ACCESS_TOKEN_EXPIRE_MINUTES \in Nat
          /\ sessionClock + ACCESS_TOKEN_EXPIRE_MINUTES # 0
      BY SessionConstants DEF Session!TypeOK
    <3> DEFINE end == sessionClock + ACCESS_TOKEN_EXPIRE_MINUTES
    <3> HIDE DEF end
    <3>3. expiry' = [expiry EXCEPT ![n] = end] /\ end \in Nat /\ end # 0
      BY <3>1, <3>2 DEF end
    <3>4. expiry'[n] = end /\ \A k \in Session!Token : k # n => expiry'[k] = expiry[k]
      BY <3>3 DEF Session!TypeOK
    <3>5. Session!TypeOK'
      BY <2>1, <3>1, <3>3 DEF Session!TypeOK
    <3>6. \A u \in Tab : token[u] # 0 => token[u] \in Session!Token /\ token[u] # n
      BY <3>1 DEF Session!TypeOK, TokensAreIssued
    <3>7. TabTimers'
      BY <2>1, <3>4, <3>6 DEF TabTimers, TimersOfToken, Session!WarningIsTrue,
         Session!LogoutIsArmed, Session!Live
    <3>8. TokensAreIssued'
      <4>1. \A u \in Tab, x \in Session!Call : answer'[u][x] \in {n, answer[u][x]}
        BY <3>1 DEF Session!TypeOK
      <4>2. stored # 0 => stored \in Session!Token /\ stored # n
        BY <3>1 DEF Session!TypeOK, TokensAreIssued
      <4>3. \A k \in Session!Token : expiry[k] # 0 => expiry'[k] # 0
        BY <3>3, <3>4
      <4>4. QED
        BY <2>1, <3>1, <3>3, <3>4, <3>6, <4>1, <4>2, <4>3 DEF TokensAreIssued
    <3>9. QED
      BY <2>2, <3>5, <3>7, <3>8 DEF TabTimers
  <2>4. CASE /\ expiry' = expiry
             /\ \E a \in {Session!Unauthorized, Session!Failed, Session!Done} :
                   answer' = [answer EXCEPT ![t][c] = a]
    <3>1. PICK a \in {Session!Unauthorized, Session!Failed, Session!Done} :
             answer' = [answer EXCEPT ![t][c] = a]
      BY <2>4
    <3>2. a \notin Session!Token
      BY SessionConstants DEF Session!Unauthorized, Session!Failed, Session!Done, Session!Token
    <3>3. Session!TypeOK'
      BY <2>1, <2>4, <3>1 DEF Session!TypeOK
    <3>4. \A u \in Tab, x \in Session!Call : answer'[u][x] \in {a, answer[u][x]}
      BY <3>1 DEF Session!TypeOK
    <3>5. TokensAreIssued'
      BY <2>1, <2>4, <3>2, <3>4 DEF TokensAreIssued
    <3>6. TabTimers'
      BY <2>1, <2>4, <1>b
    <3>7. QED
      BY <2>2, <3>3, <3>5, <3>6 DEF TabTimers
  <2>5. QED
    BY <1>Serve, <2>3, <2>4 DEF Session!Serve
<1> QED
  BY <1>0, <1>tick, <1>Mount, <1>Reload, <1>FetchUser, <1>SubmitLogin, <1>Login, <1>ClickLogout,
     <1>Logout, <1>ClickRenew, <1>RenewSession, <1>DismissWarning, <1>ExpiryTimer,
     <1>WarningTimer, <1>Serve DEF Session!Next, Session!TabStep, Session!Deliver

(* A warning speaks of the token there is, a token that lives will sign    *)
(* its tab out, and no tab shows an administrator's pages to a user it     *)
(* does not know, in any number of tabs, for any lifetime of a token and   *)
(* any thresholds: lib/AuthContext.tsx, components/AdminWrapper.tsx.       *)
THEOREM SessionsAreGuarded == VisitSpec => []SessionIsGuarded
<1> DEFINE I == At("session") => SessionInv
<1>1. VisitInit => I
  BY SessionInit DEF VisitInit
<1>2. I /\ [VisitNext]_visitVars => I'
  BY SessionStep DEF VisitNext, visitVars, At
<1>3. I => SessionIsGuarded
  BY DEF SessionInv, SessionIsGuarded, PagesInOrder, Session!GateKnowsTheUser,
     Session!AdminGate
<1>4. QED
  BY <1>1, <1>2, <1>3, PTL DEF VisitSpec

-----------------------------------------------------------------------------
(* The captcha.                                                            *)

(* Tokens are spent after they are issued, and the one a form that can be  *)
(* submitted holds was not spent yet.                                      *)
CaptchaInOrder == captchaToken <= issued /\ \A n \in spent : n <= issued

CaptchaInv ==
    /\ Captcha!TypeOK
    /\ CaptchaInOrder
    /\ Captcha!TokensAreSpentOnce

(* The retries and the challenges of the form stay in their ranges.        *)
LEMMA CaptchaBounds ==
    /\ 0 \in 0..maxRetries /\ 0 \in 0..MaxChallenges
    /\ \A n \in 0..maxRetries : Captcha!MayRetry /\ n = retryCount => n + 1 \in 0..maxRetries
  BY CaptchaConstants DEF Captcha!MayRetry

(* The form as it is first shown keeps its invariant.                      *)
LEMMA CaptchaInit == Captcha!Init => CaptchaInv
<1> SUFFICES ASSUME Captcha!Init PROVE CaptchaInv
  OBVIOUS
<1>1. Captcha!TypeOK
  BY CaptchaBounds DEF Captcha!Init, Captcha!TypeOK
<1>2. CaptchaInOrder
  BY DEF Captcha!Init, Captcha!null, CaptchaInOrder
<1>3. Captcha!TokensAreSpentOnce
  BY DEF Captcha!Init, Captcha!TokensAreSpentOnce
<1>4. QED
  BY <1>1, <1>2, <1>3 DEF CaptchaInv

(* Every step of the form keeps its invariant.                             *)
LEMMA CaptchaStep == CaptchaInv /\ (Captcha!Next \/ UNCHANGED captchaVars) => CaptchaInv'
<1> SUFFICES ASSUME CaptchaInv, Captcha!Next \/ UNCHANGED captchaVars PROVE CaptchaInv'
  OBVIOUS
<1>1. Captcha!TypeOK'
  <2> USE DEF CaptchaInv, Captcha!TypeOK
  <2>1. CASE Captcha!SkipChallenge \/ Captcha!ChallengeFails
    BY <2>1 DEF Captcha!SkipChallenge, Captcha!ChallengeFails, Captcha!FallBack
  <2>2. CASE Captcha!LoadScript
    BY <2>2 DEF Captcha!LoadScript
  <2>3. CASE Captcha!RenderTurnstile
    BY <2>3, CaptchaBounds DEF Captcha!RenderTurnstile, Captcha!FallBack
  <2>4. CASE Captcha!Verify
    BY <2>4, CaptchaConstants DEF Captcha!Verify, Captcha!Token
  <2>6. CASE Captcha!Expire
    BY <2>6 DEF Captcha!Expire
  <2>7. CASE Captcha!HandleSubmit
    BY <2>7 DEF Captcha!HandleSubmit
  <2>8. CASE Captcha!Accepted
    BY <2>8 DEF Captcha!Accepted
  <2>9. CASE Captcha!NotAccepted
    BY <2>9, CaptchaBounds DEF Captcha!NotAccepted, Captcha!Restart
  <2>10. CASE UNCHANGED captchaVars
    BY <2>10 DEF captchaVars
  <2>11. QED
    BY <2>1, <2>2, <2>3, <2>4, <2>6, <2>7, <2>8, <2>9, <2>10 DEF Captcha!Next
<1>2. /\ issued \in Nat /\ captchaToken \in Int
      /\ \A n \in spent : n \in Int /\ n # 0 /\ n # -1
  <2>1. issued \in Nat
    BY CaptchaConstants DEF CaptchaInv, Captcha!TypeOK
  <2>2. captchaToken \in Int
    BY CaptchaConstants DEF CaptchaInv, Captcha!TypeOK, Captcha!Token, Captcha!null, Captcha!Mock
  <2>3. ASSUME NEW n \in spent PROVE n \in Int /\ n # 0 /\ n # -1
    BY CaptchaConstants DEF CaptchaInv, Captcha!TypeOK, Captcha!Token
  <2>4. QED
    BY <2>1, <2>2, <2>3
<1>3. -1 \notin spent /\ 0 \notin spent
  BY <1>2
<1>4. CaptchaInOrder /\ Captcha!TokensAreSpentOnce
  BY DEF CaptchaInv
<1> DEFINE Issues == issued' = issued + 1 /\ captchaToken' = issued' /\ UNCHANGED <<form, spent>>
           Drops == captchaToken' \in {0, -1} /\ UNCHANGED <<issued, spent>>
           Submits == /\ form' # "editing" /\ UNCHANGED <<issued, captchaToken>>
                      /\ spent' \subseteq spent \cup {captchaToken}
           Keeps == UNCHANGED <<issued, captchaToken, form, spent>>
<1>5. Issues \/ Drops \/ Submits \/ Keeps
  <2> USE DEF Captcha!null, Captcha!Mock
  <2>1. CASE Captcha!SkipChallenge \/ Captcha!RenderTurnstile \/ Captcha!ChallengeFails
    BY <2>1 DEF Captcha!SkipChallenge, Captcha!RenderTurnstile, Captcha!ChallengeFails,
       Captcha!FallBack
  <2>2. CASE Captcha!LoadScript \/ Captcha!Verify \/ Captcha!Expire \/ UNCHANGED captchaVars
    BY <2>2 DEF Captcha!LoadScript, Captcha!Verify, Captcha!Expire, captchaVars
  <2>3. CASE Captcha!HandleSubmit \/ Captcha!Accepted \/ Captcha!NotAccepted
    BY <2>3 DEF Captcha!HandleSubmit, Captcha!Accepted, Captcha!NotAccepted, Captcha!Restart
  <2>4. QED
    BY <2>1, <2>2, <2>3 DEF Captcha!Next
<1>6. CaptchaInOrder'
  BY <1>2, <1>4, <1>5 DEF CaptchaInOrder
<1>7. Captcha!TokensAreSpentOnce'
  <2>1. CASE Issues
    BY <1>2, <1>4, <2>1 DEF CaptchaInOrder, Captcha!TokensAreSpentOnce
  <2>2. CASE Drops
    BY <1>3, <2>2 DEF Captcha!TokensAreSpentOnce
  <2>3. CASE Submits \/ Keeps
    BY <1>4, <2>3 DEF Captcha!TokensAreSpentOnce
  <2>4. QED
    BY <1>5, <2>1, <2>2, <2>3
<1>8. QED
  BY <1>1, <1>6, <1>7 DEF CaptchaInv

-----------------------------------------------------------------------------
(* The contacts.                                                           *)

(* What the form sends is complete, and an edit that is answered well has  *)
(* the contact it stored for an answer.                                    *)
InOrder(r) ==
    /\ r.phase # "done" => r.why = "ok"
    /\ r.op = "list" => r.why \in {"ok", "lost"}
    /\ r.mine => r.why # "incomplete"
    /\ r.mine /\ r.op \in {"add", "edit"} => r.contact.name # Contacts!NoName
    /\ r.mine /\ r.op = "add" => r.contact.payee # Contacts!NoPayee
    /\ r.op = "edit" /\ r.phase = "done" /\ r.why = "ok" => \E c : r.answer = {c}

CallsInOrder == calls \subseteq Contacts!Call /\ \A r \in calls : InOrder(r)

IdsInOrder == \A b \in book : b.id < bookNextId

Changing(r) == r.mine /\ r.op \in {"add", "edit"}

(* OneAtATime, without counting.                                           *)
OneChanging ==
    /\ actionLoading <=> \E r \in calls : Changing(r)
    /\ \A r, s \in calls : Changing(r) /\ Changing(s) => r = s

(* What a request of a page that is alone has done to the book, compared   *)
(* with the contacts that are displayed.                                   *)
OnTheWay(r) ==
    /\ r.mine /\ r.why # "lost"
    /\ r.op = "list" /\ r.phase = "done" => r.answer = book
    /\ r.op # "list" => r.captured = contacts
    /\ r.op # "list" /\ (r.phase # "done" \/ r.why # "ok") => contacts = book
    /\ r.op = "delete" /\ r.phase = "done" /\ r.why = "ok" =>
          book = {c \in r.captured : c.id # r.contact.id}
    /\ r.op = "edit" /\ r.phase = "done" /\ r.why = "ok" =>
          \E d \in r.answer : book = {IF c.id = r.contact.id THEN d ELSE c : c \in r.captured}

AloneAgrees == alone =>
    /\ calls = {} => contacts = book
    /\ \A r, s \in calls : r = s
    /\ \A r \in calls : OnTheWay(r)

BookInv ==
    /\ Contacts!TypeOK
    /\ CallsInOrder
    /\ IdsInOrder
    /\ OneChanging
    /\ AloneAgrees

(* The payee used for the placeholder contact is a payee.                  *)
LEMMA LeastPayee == Contacts!Min(Payee) \in Payee
  BY BookConstants DEF Contacts!Min

(* A contact made of legal parts is a contact, and keeps its parts.        *)
LEMMA NewContactIs ==
    ASSUME NEW d, d.kind \in Contacts!Kind, d.name \in Contacts!Names,
           d.payee \in Payee \cup {Contacts!NoPayee}
    PROVE  /\ Contacts!NewContact(d) \in Contacts!Contact
           /\ Contacts!NewContact(d).id = 1 /\ Contacts!NewContact(d).kind = d.kind
           /\ Contacts!NewContact(d).name = d.name /\ Contacts!NewContact(d).payee = d.payee
<1>1. 1 \in 1..MaxIds
  BY BookConstants
<1>2. QED
  BY <1>1 DEF Contacts!NewContact, Contacts!Contact

(* A request made of legal parts is a call, and keeps its parts.           *)
LEMMA RequestIs ==
    \A n \in 0..MaxCalls, mine \in BOOLEAN, op \in {"list", "add", "edit", "delete"},
       c \in Contacts!Contact, s \in SUBSET Contacts!Contact :
      /\ Contacts!Request(n, mine, op, c, s) \in Contacts!Call
      /\ Contacts!Request(n, mine, op, c, s).mine = mine
      /\ Contacts!Request(n, mine, op, c, s).op = op
      /\ Contacts!Request(n, mine, op, c, s).contact = c
      /\ Contacts!Request(n, mine, op, c, s).captured = s
      /\ Contacts!Request(n, mine, op, c, s).phase = "sent"
      /\ Contacts!Request(n, mine, op, c, s).why = "ok"
  BY DEF Contacts!Request, Contacts!Call

(* The parts of a call.                                                    *)
LEMMA CallIs ==
    ASSUME NEW r \in Contacts!Call
    PROVE  /\ DOMAIN r = {"n", "mine", "op", "phase", "why", "contact", "captured", "answer"}
           /\ r.n \in 0..MaxCalls /\ r.mine \in BOOLEAN
           /\ r.op \in {"list", "add", "edit", "delete"} /\ r.contact \in Contacts!Contact
           /\ r.captured \subseteq Contacts!Contact /\ r.answer \subseteq Contacts!Contact
           /\ r.phase \in {"sent", "checked", "done"}
  BY DEF Contacts!Call

(* The placeholder of a call without a contact is a contact.               *)
LEMMA AnyContactIs == Contacts!AnyContact \in Contacts!Contact
<1> DEFINE d == [kind |-> "karin", name |-> Contacts!NoName, payee |-> Contacts!NoPayee]
<1>1. d.kind \in Contacts!Kind /\ d.name \in Contacts!Names /\ d.payee = Contacts!NoPayee
  BY DEF Contacts!Kind, Contacts!Names
<1>2. Contacts!AnyContact = Contacts!NewContact(d)
  BY DEF Contacts!AnyContact
<1> HIDE DEF d
<1>3. QED
  BY <1>1, <1>2, NewContactIs

(* The module counts as the library does.                                  *)
LEMMA ContactsCount == \A S : Contacts!Cardinality(S) = Cardinality(S)
  BY DEF Contacts!Cardinality, Cardinality

(* The empty book and the page that has just been mounted keep the         *)
(* invariant.                                                              *)
LEMMA BookInit == Contacts!Init => BookInv
<1> SUFFICES ASSUME Contacts!Init PROVE BookInv
  OBVIOUS
<1> DEFINE c == Contacts!NewContact([kind |-> "merchant", name |-> "nick", payee |-> Contacts!Min(Payee)])
           r == Contacts!Request(0, TRUE, "list", Contacts!AnyContact, {})
<1>1. c \in Contacts!Contact /\ c.id = 1
  <2> DEFINE d == [kind |-> "merchant", name |-> "nick", payee |-> Contacts!Min(Payee)]
  <2>1. d.kind \in Contacts!Kind /\ d.name \in Contacts!Names /\ d.payee \in Payee
    BY LeastPayee DEF Contacts!Kind, Contacts!Names
  <2>2. c = Contacts!NewContact(d)
    OBVIOUS
  <2> HIDE DEF d, c
  <2>3. QED
    BY <2>1, <2>2, NewContactIs
<1>2. r \in Contacts!Call /\ r.mine /\ r.op = "list" /\ r.phase = "sent" /\ r.why = "ok"
  <2>1. /\ 0 \in 0..MaxCalls /\ TRUE \in BOOLEAN /\ {} \in SUBSET Contacts!Contact
        /\ "list" \in {"list", "add", "edit", "delete"}
    BY BookConstants
  <2>2. /\ r \in Contacts!Call /\ r.mine = TRUE /\ r.op = "list"
        /\ r.phase = "sent" /\ r.why = "ok"
    BY <2>1, AnyContactIs DEF Contacts!Request, Contacts!Call
  <2>3. QED
    BY <2>2
<1>3. book \in {{}, {c}} /\ calls = {r} /\ ~actionLoading /\ contacts = {}
  BY DEF Contacts!Init
<1> HIDE DEF c, r
<1>4. (book = {} => bookNextId = 1) /\ (book = {c} => bookNextId = 2)
  <2>1. bookNextId = Cardinality(book) + 1
    BY ContactsCount DEF Contacts!Init
  <2>2. Cardinality({}) = 0 /\ Cardinality({c}) = 1
    BY FS_EmptySet, FS_Singleton
  <2>3. QED
    BY <2>1, <2>2
<1>5. CallsInOrder
  BY <1>2, <1>3 DEF CallsInOrder, InOrder
<1>6. Contacts!TypeOK
  <2>1. bookNextId \in 1..(MaxIds + 1)
    BY <1>3, <1>4, BookConstants
  <2>2. book \subseteq Contacts!Contact /\ \A b, d \in book : b.id = d.id => b = d
    BY <1>1, <1>3
  <2>3. \A q \in calls : /\ DOMAIN q = {"n", "mine", "op", "phase", "why", "contact", "captured", "answer"}
                         /\ q.op \in {"list", "add", "edit", "delete"} /\ q.contact \in Contacts!Contact
                         /\ q.captured \subseteq Contacts!Contact /\ q.answer \subseteq Contacts!Contact
    BY <1>2, <1>3, CallIs
  <2>4. contacts \subseteq Contacts!Contact /\ metadata \subseteq Contacts!Kind
    BY DEF Contacts!Init
  <2>5. editing \in 0..MaxIds /\ bookSent \in 0..MaxCalls
    BY BookConstants DEF Contacts!Init
  <2>6. actionLoading \in BOOLEAN /\ alone \in BOOLEAN
    BY DEF Contacts!Init
  <2>7. QED
    BY <2>1, <2>2, <2>3, <2>4, <2>5, <2>6 DEF Contacts!TypeOK
<1>7. IdsInOrder
  BY <1>1, <1>3, <1>4 DEF IdsInOrder
<1>8. OneChanging
  BY <1>2, <1>3 DEF OneChanging, Changing
<1>9. AloneAgrees
  BY <1>2, <1>3 DEF AloneAgrees, OnTheWay
<1>10. QED
  BY <1>5, <1>6, <1>7, <1>8, <1>9 DEF BookInv

(* A request goes on at the endpoint, or is lost.                          *)
GoesOn(r, s) ==
    /\ r \in calls /\ s \in Contacts!Call /\ InOrder(s)
    /\ s.mine = r.mine /\ s.op = r.op /\ s.contact = r.contact /\ s.captured = r.captured
    /\ calls' = (calls \ {r}) \cup {s}

(* A call that goes on to its next phase keeps the order of the calls and  *)
(* the one that changes the book.                                          *)
LEMMA GoesOnKeeps ==
    ASSUME BookInv, NEW r, NEW s, GoesOn(r, s), UNCHANGED actionLoading
    PROVE  CallsInOrder' /\ OneChanging'
  BY DEF BookInv, CallsInOrder, OneChanging, Changing, GoesOn

(* Its types follow from what the endpoint and the page keep by themselves. *)
LEMMA BookTypes ==
    ASSUME BookInv, CallsInOrder', book' \subseteq Contacts!Contact,
           \A c, d \in book' : c.id = d.id => c = d,
           bookNextId' \in 1..(MaxIds + 1), contacts' \subseteq Contacts!Contact,
           metadata' \subseteq Contacts!Kind, editing' \in 0..MaxIds,
           actionLoading' \in BOOLEAN, alone' \in BOOLEAN, bookSent' \in 0..MaxCalls
    PROVE  Contacts!TypeOK'
<1>1. \A q \in calls' : /\ DOMAIN q = {"n", "mine", "op", "phase", "why", "contact", "captured", "answer"}
                        /\ q.op \in {"list", "add", "edit", "delete"} /\ q.contact \in Contacts!Contact
                        /\ q.captured \subseteq Contacts!Contact /\ q.answer \subseteq Contacts!Contact
  BY CallIs DEF CallsInOrder
<1>2. QED
  BY <1>1 DEF Contacts!TypeOK

(* What the endpoint does for a call keeps the invariant of the book.      *)
LEMMA ServeKeeps == ASSUME BookInv, NEW r \in calls, Contacts!Serve(r) PROVE BookInv'
<1>1. /\ r \in Contacts!Call /\ InOrder(r) /\ Contacts!TypeOK
      /\ UNCHANGED <<contacts, metadata, editing, actionLoading, bookSent, alone>>
  BY DEF BookInv, CallsInOrder, Contacts!Serve
<1>2. ASSUME UNCHANGED <<book, bookNextId>>, NEW s, GoesOn(r, s), alone => OnTheWay(s)
      PROVE  BookInv'
  <2>1. CallsInOrder' /\ OneChanging'
    BY <1>1, <1>2, GoesOnKeeps
  <2>2. Contacts!TypeOK'
    BY <1>1, <1>2, <2>1, BookTypes DEF Contacts!TypeOK
  <2>3. IdsInOrder'
    BY <1>2 DEF BookInv, IdsInOrder
  <2>4. AloneAgrees'
    BY <1>1, <1>2 DEF BookInv, AloneAgrees, GoesOn, OnTheWay
  <2>5. QED
    BY <2>1, <2>2, <2>3, <2>4 DEF BookInv
<1>3. alone => OnTheWay(r)
  BY DEF BookInv, AloneAgrees
<1>4. CASE Contacts!ServeList(r)
  <2> DEFINE s == [r EXCEPT !.phase = "done", !.answer = book]
  <2>1. GoesOn(r, s)
    BY <1>1, <1>4 DEF Contacts!ServeList, Contacts!Step, GoesOn, InOrder, Contacts!Call, Contacts!TypeOK
  <2>2. alone => OnTheWay(s)
    BY <1>1, <1>3, <1>4 DEF Contacts!ServeList, OnTheWay, InOrder, Contacts!Call
  <2>3. UNCHANGED <<book, bookNextId>>
    BY <1>4 DEF Contacts!ServeList
  <2>4. QED
    BY <1>2, <2>1, <2>2, <2>3
<1>5. ASSUME NEW why \in {"incomplete", "duplicate", "missing"}, Contacts!Refused(r, why),
             r.op # "list", r.phase # "done", r.mine => why # "incomplete",
             UNCHANGED <<book, bookNextId>>
      PROVE  BookInv'
  <2> DEFINE s == [r EXCEPT !.phase = "done", !.why = why]
  <2>1. GoesOn(r, s)
    BY <1>1, <1>5 DEF Contacts!Refused, Contacts!Step, GoesOn, InOrder, Contacts!Call
  <2>2. alone => OnTheWay(s)
    BY <1>1, <1>3, <1>5 DEF OnTheWay, Contacts!Call
  <2>3. QED
    BY <1>2, <1>5, <2>1, <2>2
<1>6. CASE Contacts!CheckContact(r)
  <2>1. /\ r.op = "add" /\ r.phase = "sent" /\ UNCHANGED <<book, bookNextId>>
        /\ \/ Contacts!Refused(r, "incomplete") /\ ~r.mine
           \/ Contacts!Refused(r, "duplicate")
           \/ Contacts!Step(r, [r EXCEPT !.phase = "checked"])
    BY <1>1, <1>6 DEF Contacts!CheckContact, InOrder
  <2>2. CASE Contacts!Step(r, [r EXCEPT !.phase = "checked"])
    <3> DEFINE s == [r EXCEPT !.phase = "checked"]
    <3>1. GoesOn(r, s)
      BY <1>1, <2>1, <2>2 DEF Contacts!Step, GoesOn, InOrder, Contacts!Call
    <3>2. alone => OnTheWay(s)
      BY <1>1, <1>3, <2>1 DEF OnTheWay, Contacts!Call
    <3>3. QED
      BY <1>2, <2>1, <3>1, <3>2
  <2>3. QED
    BY <1>5, <2>1, <2>2
<1>7. CASE Contacts!InsertContact(r)
  <2>1. PICK c, s : /\ r.op = "add" /\ r.phase = "checked" /\ bookNextId <= MaxIds
                    /\ c = [r.contact EXCEPT !.id = bookNextId]
                    /\ s = [r EXCEPT !.phase = "done", !.answer = {c}]
                    /\ book' = book \cup {c} /\ bookNextId' = bookNextId + 1
                    /\ Contacts!Step(r, s)
    BY <1>7 DEF Contacts!InsertContact
  <2>2. bookNextId \in 1..MaxIds /\ bookNextId + 1 \in 1..(MaxIds + 1)
    BY <1>1, <2>1, BookConstants DEF Contacts!TypeOK
  <2>3. c \in Contacts!Contact /\ c.id = bookNextId
    BY <1>1, <2>1, <2>2 DEF Contacts!Call, Contacts!Contact
  <2>4. GoesOn(r, s)
    BY <1>1, <2>1, <2>3 DEF Contacts!Step, GoesOn, InOrder, Contacts!Call
  <2>5. alone => OnTheWay(s)'
    <3>1. /\ s.mine = r.mine /\ s.op = "add" /\ s.phase = "done" /\ s.why = "ok"
          /\ s.captured = r.captured
      BY <1>1, <2>1 DEF InOrder, Contacts!Call
    <3>2. QED
      BY <1>1, <1>3, <2>1, <3>1 DEF OnTheWay
  <2>6. CallsInOrder' /\ OneChanging'
    BY <1>1, <2>4, GoesOnKeeps
  <2>7. \A b \in book : b.id \in Int /\ b.id < bookNextId
    BY <1>1 DEF BookInv, IdsInOrder, Contacts!TypeOK, Contacts!Contact
  <2>8. Contacts!TypeOK'
    <3>1. book' \subseteq Contacts!Contact /\ \A b, d \in book' : b.id = d.id => b = d
      <4>1. \A b \in book : b.id # c.id
        BY <2>2, <2>3, <2>7
      <4>2. book \subseteq Contacts!Contact /\ \A b, d \in book : b.id = d.id => b = d
        BY <1>1 DEF Contacts!TypeOK
      <4>3. QED
        BY <2>1, <2>3, <4>1, <4>2
    <3>2. QED
      BY <1>1, <2>1, <2>2, <2>6, <3>1, BookTypes DEF Contacts!TypeOK
  <2>9. IdsInOrder'
    <3>1. \A b \in book : b.id < bookNextId + 1
      BY <2>2, <2>7
    <3>2. bookNextId < bookNextId + 1
      BY <2>2
    <3>3. QED
      BY <2>1, <2>3, <3>1, <3>2 DEF IdsInOrder
  <2>10. AloneAgrees'
    BY <1>1, <2>4, <2>5 DEF BookInv, AloneAgrees, GoesOn
  <2>11. QED
    BY <2>6, <2>8, <2>9, <2>10 DEF BookInv
<1>8. CASE Contacts!UpdateUserContact(r)
  <2>1. /\ r.op = "edit" /\ r.phase = "sent" /\ UNCHANGED bookNextId
        /\ \/ Contacts!Refused(r, "missing") /\ UNCHANGED book
           \/ Contacts!Refused(r, "incomplete") /\ UNCHANGED book /\ ~r.mine
           \/ \E b \in book :
                /\ b.id = r.contact.id
                /\ LET c == [b EXCEPT !.name = r.contact.name, !.payee = r.contact.payee]
                   IN  /\ book' = (book \ {b}) \cup {c}
                       /\ Contacts!Step(r, [r EXCEPT !.phase = "done", !.answer = {c}])
    BY <1>1, <1>8 DEF Contacts!UpdateUserContact, InOrder
  <2>2. CASE Contacts!Refused(r, "missing") /\ UNCHANGED book
    BY <1>5, <2>1, <2>2
  <2>3. CASE Contacts!Refused(r, "incomplete") /\ UNCHANGED book /\ ~r.mine
    BY <1>5, <2>1, <2>3
  <2>4. ASSUME NEW b \in book, b.id = r.contact.id, NEW c, NEW s,
               c = [b EXCEPT !.name = r.contact.name, !.payee = r.contact.payee],
               s = [r EXCEPT !.phase = "done", !.answer = {c}],
               book' = (book \ {b}) \cup {c}, Contacts!Step(r, s)
        PROVE  BookInv'
    <3>1. /\ book \subseteq Contacts!Contact /\ \A x, y \in book : x.id = y.id => x = y
          /\ r.contact \in Contacts!Contact
      BY <1>1 DEF Contacts!TypeOK, Contacts!Call
    <3>2. c \in Contacts!Contact /\ c.id = b.id
      BY <2>4, <3>1 DEF Contacts!Contact
    <3>3. /\ s \in Contacts!Call /\ s.mine = r.mine /\ s.op = "edit" /\ s.phase = "done"
          /\ s.why = "ok" /\ s.captured = r.captured /\ s.answer = {c} /\ s.contact = r.contact
      BY <1>1, <2>1, <2>4, <3>2 DEF InOrder, Contacts!Call
    <3>4. GoesOn(r, s)
      BY <1>1, <2>1, <2>4, <3>3 DEF Contacts!Step, GoesOn, InOrder
    <3>5. CallsInOrder' /\ OneChanging'
      BY <1>1, <3>4, GoesOnKeeps
    <3>6. book' \subseteq Contacts!Contact /\ \A x, y \in book' : x.id = y.id => x = y
      <4>1. /\ book' = (book \ {b}) \cup {c} /\ \A x \in book \ {b} : x.id # c.id
        BY <2>4, <3>1, <3>2
      <4>2. QED
        BY <3>1, <3>2, <4>1
    <3>7. Contacts!TypeOK'
      BY <1>1, <2>1, <3>5, <3>6, BookTypes DEF Contacts!TypeOK
    <3>8. IdsInOrder'
      BY <2>1, <2>4, <3>2 DEF BookInv, IdsInOrder
    <3>9. book' = {IF x.id = r.contact.id THEN c ELSE x : x \in book}
      BY <2>4, <3>1
    <3>10. alone => OnTheWay(s)'
      <4>1. alone => r.mine /\ r.captured = book /\ contacts = book
        BY <1>3, <2>1 DEF OnTheWay
      <4>2. contacts' = contacts
        BY <1>1
      <4>3. QED
        BY <3>3, <3>9, <4>1, <4>2 DEF OnTheWay
    <3>11. AloneAgrees'
      BY <1>1, <3>4, <3>10 DEF BookInv, AloneAgrees, GoesOn
    <3>12. QED
      BY <3>5, <3>7, <3>8, <3>11 DEF BookInv
  <2>5. QED
    BY <2>1, <2>2, <2>3, <2>4
<1>9. CASE Contacts!DeleteUserContact(r)
  <2> DEFINE rest == {b \in book : b.id # r.contact.id}
  <2>1. /\ r.op = "delete" /\ r.phase = "sent" /\ UNCHANGED bookNextId /\ book' = rest
        /\ \/ Contacts!Refused(r, "missing") /\ UNCHANGED book
           \/ Contacts!Step(r, [r EXCEPT !.phase = "done"])
    BY <1>9 DEF Contacts!DeleteUserContact
  <2>2. CASE Contacts!Refused(r, "missing") /\ UNCHANGED book
    BY <1>5, <2>1, <2>2
  <2>3. ASSUME NEW s, s = [r EXCEPT !.phase = "done"], Contacts!Step(r, s) PROVE BookInv'
    <3>1. /\ s \in Contacts!Call /\ s.mine = r.mine /\ s.op = "delete" /\ s.phase = "done"
          /\ s.why = "ok" /\ s.captured = r.captured /\ s.contact = r.contact
      BY <1>1, <2>1, <2>3 DEF InOrder, Contacts!Call
    <3>2. GoesOn(r, s)
      BY <1>1, <2>1, <2>3, <3>1 DEF Contacts!Step, GoesOn, InOrder
    <3>3. CallsInOrder' /\ OneChanging'
      BY <1>1, <3>2, GoesOnKeeps
    <3>4. book' \subseteq book
      BY <2>1
    <3>5. Contacts!TypeOK'
      BY <1>1, <2>1, <3>3, <3>4, BookTypes DEF Contacts!TypeOK
    <3>6. IdsInOrder'
      BY <2>1, <3>4 DEF BookInv, IdsInOrder
    <3>7. alone => OnTheWay(s)'
      BY <1>1, <1>3, <2>1, <3>1 DEF OnTheWay
    <3>8. AloneAgrees'
      BY <1>1, <3>2, <3>7 DEF BookInv, AloneAgrees, GoesOn
    <3>9. QED
      BY <3>3, <3>5, <3>6, <3>8 DEF BookInv
  <2>4. QED
    BY <2>1, <2>2, <2>3
<1>10. QED
  BY <1>4, <1>6, <1>7, <1>8, <1>9 DEF Contacts!Serve

(* A new request.                                                          *)
LEMMA NewRequest ==
    ASSUME BookInv, NEW q \in Contacts!Call, InOrder(q), calls' = calls \cup {q},
           Changing(q) => ~actionLoading,
           actionLoading' = (actionLoading \/ Changing(q))
    PROVE  CallsInOrder' /\ OneChanging'
  BY DEF BookInv, CallsInOrder, OneChanging

(* A form or a button that sends one more call keeps it.                   *)
LEMMA SendKeeps ==
    ASSUME BookInv, NEW op \in {"add", "edit", "delete"}, NEW c \in Contacts!Contact,
           op \in {"add", "edit"} => c.name # Contacts!NoName,
           op = "add" => c.payee # Contacts!NoPayee,
           op = "delete" \/ ~actionLoading,
           actionLoading' = (actionLoading \/ op # "delete"),
           Contacts!Send(op, c),
           UNCHANGED <<book, bookNextId, contacts, metadata, editing>>
    PROVE  BookInv'
<1>1. Contacts!TypeOK
  BY DEF BookInv
<1>2. PICK q : q = Contacts!Request(bookSent + 1, TRUE, op, c, contacts)
  OBVIOUS
<1>3. /\ bookSent < MaxCalls /\ bookSent' = bookSent + 1 /\ alone' = (alone /\ calls = {})
      /\ calls' = calls \cup {q}
  BY <1>2 DEF Contacts!Send
<1>4. bookSent + 1 \in 0..MaxCalls
  BY <1>1, <1>3, BookConstants DEF Contacts!TypeOK
<1>5. /\ q \in Contacts!Call /\ q.mine = TRUE /\ q.op = op /\ q.contact = c
      /\ q.captured = contacts /\ q.phase = "sent" /\ q.why = "ok"
  BY <1>1, <1>2, <1>4 DEF Contacts!TypeOK, Contacts!Request, Contacts!Call
<1>6. InOrder(q) /\ (Changing(q) <=> op # "delete")
  BY <1>5 DEF InOrder, Changing
<1>7. CallsInOrder' /\ OneChanging'
  BY <1>3, <1>5, <1>6, NewRequest
<1>8. Contacts!TypeOK'
  <2>1. actionLoading' \in BOOLEAN /\ alone' \in BOOLEAN
    BY <1>3
  <2>2. QED
    BY <1>1, <1>3, <1>4, <1>7, <2>1, BookTypes DEF Contacts!TypeOK
<1>9. IdsInOrder'
  BY DEF BookInv, IdsInOrder
<1>10. AloneAgrees'
  <2>1. CASE alone /\ calls = {}
    <3>1. contacts = book
      BY <2>1 DEF BookInv, AloneAgrees
    <3>2. OnTheWay(q)'
      BY <1>5, <3>1 DEF OnTheWay
    <3>3. QED
      BY <1>3, <2>1, <3>2 DEF AloneAgrees
  <2>2. CASE ~(alone /\ calls = {})
    BY <1>3, <2>2 DEF AloneAgrees
  <2>3. QED
    BY <2>1, <2>2
<1>11. QED
  BY <1>7, <1>8, <1>9, <1>10 DEF BookInv

(* So the three handlers of the page that send a call keep it.             *)
LEMMA PageKeeps ==
    ASSUME BookInv, \/ Contacts!HandleAddContact \/ Contacts!HandleDeleteContact
                    \/ Contacts!HandleSaveEdit
    PROVE  BookInv'
<1>1. Contacts!TypeOK
  BY DEF BookInv
<1>2. CASE Contacts!HandleAddContact
  <2>1. PICK d \in Contacts!Drafts :
            Contacts!Send("add", Contacts!NewContact([d EXCEPT !.name = Contacts!ContactName(d)]))
    BY <1>2 DEF Contacts!HandleAddContact
  <2>2. PICK e : e = [d EXCEPT !.name = Contacts!ContactName(d)]
    OBVIOUS
  <2>3. /\ e.kind \in Contacts!Kind /\ e.name \in Contacts!Names \ {Contacts!NoName}
        /\ e.payee \in Payee /\ e.payee # Contacts!NoPayee
    BY <2>2, BookConstants DEF Contacts!Drafts, Contacts!IsFormValid, Contacts!ContactName,
       Contacts!Names, Contacts!NoName, Contacts!NoPayee
  <2>4. PICK c : c = Contacts!NewContact(e)
    OBVIOUS
  <2>5. c \in Contacts!Contact /\ c.name # Contacts!NoName /\ c.payee # Contacts!NoPayee
    BY <2>3, <2>4, NewContactIs
  <2>6. ~actionLoading /\ actionLoading' = TRUE /\ Contacts!Send("add", c)
    BY <1>2, <2>1, <2>2, <2>4 DEF Contacts!HandleAddContact
  <2>7. actionLoading' = (actionLoading \/ "add" # "delete")
    BY <2>6
  <2>8. QED
    BY <1>2, <2>5, <2>6, <2>7, SendKeeps DEF Contacts!HandleAddContact
<1>3. CASE Contacts!HandleDeleteContact
  <2>1. PICK c \in contacts : Contacts!Send("delete", c)
    BY <1>3 DEF Contacts!HandleDeleteContact
  <2>2. c \in Contacts!Contact
    BY <1>1 DEF Contacts!TypeOK
  <2>3. actionLoading' = (actionLoading \/ "delete" # "delete")
    BY <1>1, <1>3 DEF Contacts!HandleDeleteContact, Contacts!TypeOK
  <2>4. QED
    BY <1>3, <2>1, <2>2, <2>3, SendKeeps DEF Contacts!HandleDeleteContact
<1>4. CASE Contacts!HandleSaveEdit
  <2>1. PICK c \in contacts : \E d \in Contacts!Edited(c) : Contacts!Send("edit", d)
    BY <1>4 DEF Contacts!HandleSaveEdit
  <2>2. PICK d \in Contacts!Edited(c) : Contacts!Send("edit", d)
    BY <2>1
  <2>3. c \in Contacts!Contact
    BY <1>1 DEF Contacts!TypeOK
  <2>4. d \in Contacts!Contact /\ d.name # Contacts!NoName
    BY <2>2, <2>3 DEF Contacts!Edited, Contacts!Contact, Contacts!Names, Contacts!NoName
  <2>5. ~actionLoading /\ actionLoading' = (actionLoading \/ "edit" # "delete")
    BY <1>4 DEF Contacts!HandleSaveEdit
  <2>6. QED
    BY <1>4, <2>2, <2>4, <2>5, SendKeeps DEF Contacts!HandleSaveEdit
<1>5. QED
  BY <1>2, <1>3, <1>4

(* An answer is taken up: the request is over.                             *)
LEMMA OverKeeps ==
    ASSUME BookInv, NEW r \in calls, calls' = calls \ {r},
           \/ ~Changing(r) /\ UNCHANGED actionLoading
           \/ Changing(r) /\ actionLoading' = FALSE,
           UNCHANGED <<book, bookNextId, metadata, bookSent, alone>>,
           contacts' \subseteq Contacts!Contact, editing' \in 0..MaxIds,
           alone => contacts' = book
    PROVE  BookInv'
<1>1. Contacts!TypeOK
  BY DEF BookInv
<1>2. CallsInOrder'
  BY DEF BookInv, CallsInOrder
<1>3. OneChanging'
  BY DEF BookInv, OneChanging
<1>4. Contacts!TypeOK'
  <2>1. actionLoading' \in BOOLEAN
    BY <1>1 DEF Contacts!TypeOK
  <2>2. QED
    BY <1>1, <1>2, <2>1, BookTypes DEF Contacts!TypeOK
<1>5. IdsInOrder'
  BY DEF BookInv, IdsInOrder
<1>6. AloneAgrees'
  <2>1. alone => calls' = {}
    BY DEF BookInv, AloneAgrees
  <2>2. QED
    BY <2>1 DEF AloneAgrees
<1>7. QED
  BY <1>2, <1>3, <1>4, <1>5, <1>6 DEF BookInv

(* What the page does with an answer keeps it.                             *)
LEMMA AnsweredKeeps == ASSUME BookInv, NEW r \in calls, Contacts!Answered(r) PROVE BookInv'
<1>1. /\ Contacts!TypeOK /\ r \in Contacts!Call /\ InOrder(r) /\ (alone => OnTheWay(r))
      /\ r.mine /\ r.phase = "done" /\ UNCHANGED <<book, bookNextId, metadata, alone>>
  BY DEF BookInv, CallsInOrder, AloneAgrees, Contacts!Answered
<1>2. r.answer \subseteq Contacts!Contact /\ r.captured \subseteq Contacts!Contact
  BY <1>1 DEF Contacts!Call
<1>3. editing \in 0..MaxIds /\ contacts \subseteq Contacts!Contact
  BY <1>1 DEF Contacts!TypeOK
<1>4. CASE Contacts!ContactsListed(r)
  <2>1. /\ r.op = "list" /\ contacts' = IF r.why = "ok" THEN r.answer ELSE contacts
        /\ calls' = calls \ {r} /\ UNCHANGED <<editing, actionLoading, bookSent>>
    BY <1>4 DEF Contacts!ContactsListed
  <2>2. alone => contacts' = book
    BY <1>1, <2>1 DEF OnTheWay, InOrder
  <2>3. QED
    BY <1>1, <1>2, <1>3, <2>1, <2>2, OverKeeps DEF Changing
<1>5. CASE Contacts!ContactDeleted(r)
  <2>1. /\ r.op = "delete" /\ calls' = calls \ {r}
        /\ contacts' = IF r.why = "ok" THEN {c \in r.captured : c.id # r.contact.id} ELSE contacts
        /\ UNCHANGED <<editing, actionLoading, bookSent>>
    BY <1>5 DEF Contacts!ContactDeleted
  <2>2. contacts' \subseteq Contacts!Contact
    BY <1>2, <1>3, <2>1
  <2>3. alone => contacts' = book
    BY <1>1, <2>1 DEF OnTheWay
  <2>4. QED
    BY <1>1, <1>3, <2>1, <2>2, <2>3, OverKeeps DEF Changing
<1>6. CASE Contacts!ContactEdited(r)
  <2>1. /\ r.op = "edit" /\ calls' = calls \ {r} /\ actionLoading' = FALSE /\ UNCHANGED bookSent
    BY <1>6 DEF Contacts!ContactEdited
  <2>2. CASE r.why # "ok"
    <3>1. UNCHANGED <<contacts, editing>>
      BY <1>6, <2>2 DEF Contacts!ContactEdited
    <3>2. alone => contacts = book
      BY <1>1, <2>1, <2>2 DEF OnTheWay
    <3>3. QED
      BY <1>1, <1>3, <2>1, <3>1, <3>2, OverKeeps DEF Changing
  <2>3. CASE r.why = "ok"
    <3>1. PICK d : r.answer = {d}
      BY <1>1, <2>1, <2>3 DEF InOrder
    <3>2. (CHOOSE e \in r.answer : TRUE) = d
      BY <3>1
    <3>3. editing' = 0 /\ contacts' = {IF c.id = r.contact.id THEN d ELSE c : c \in r.captured}
      BY <1>6, <2>3, <3>2 DEF Contacts!ContactEdited
    <3>4. contacts' \subseteq Contacts!Contact
      BY <1>2, <3>1, <3>3
    <3>5. alone => contacts' = book
      <4>1. ASSUME alone PROVE contacts' = book
        <5>1. \E e \in r.answer : book = {IF c.id = r.contact.id THEN e ELSE c : c \in r.captured}
          BY <1>1, <2>1, <2>3, <4>1 DEF OnTheWay
        <5>2. QED
          BY <3>1, <3>3, <5>1
      <4>2. QED
        BY <4>1
    <3>6. 0 \in 0..MaxIds
      BY BookConstants
    <3>7. QED
      BY <1>1, <2>1, <3>3, <3>4, <3>5, <3>6, OverKeeps DEF Changing
  <2>4. QED
    BY <2>2, <2>3
<1>7. CASE Contacts!ContactAdded(r)
  <2>1. PICK q : q = Contacts!Request(r.n, TRUE, "list", Contacts!AnyContact, {})
    OBVIOUS
  <2>2. /\ r.op = "add" /\ actionLoading' = FALSE /\ UNCHANGED <<contacts, editing, bookSent>>
        /\ calls' = (calls \ {r}) \cup (IF r.why = "ok" THEN {q} ELSE {})
    BY <1>7, <2>1 DEF Contacts!ContactAdded
  <2>3. /\ q \in Contacts!Call /\ q.mine = TRUE /\ q.op = "list" /\ q.phase = "sent" /\ q.why = "ok"
    BY <1>1, <2>1, AnyContactIs DEF Contacts!Request, Contacts!Call
  <2>4. InOrder(q) /\ ~Changing(q)
    BY <2>3 DEF InOrder, Changing
  <2>5. CallsInOrder'
    BY <2>2, <2>3, <2>4 DEF BookInv, CallsInOrder
  <2>6. OneChanging'
    BY <1>1, <2>2, <2>4 DEF BookInv, OneChanging, Changing
  <2>7. Contacts!TypeOK'
    BY <1>1, <2>2, <2>5, BookTypes DEF Contacts!TypeOK
  <2>8. IdsInOrder'
    BY <1>1 DEF BookInv, IdsInOrder
  <2>9. AloneAgrees'
    <3>1. alone => calls' = IF r.why = "ok" THEN {q} ELSE {}
      BY <2>2 DEF BookInv, AloneAgrees
    <3>2. alone /\ r.why # "ok" => contacts = book
      BY <1>1, <2>2 DEF OnTheWay
    <3>3. OnTheWay(q)'
      BY <2>3 DEF OnTheWay
    <3>4. QED
      BY <1>1, <2>2, <3>1, <3>2, <3>3 DEF AloneAgrees
  <2>10. QED
    BY <2>5, <2>6, <2>7, <2>8, <2>9 DEF BookInv
<1>8. QED
  BY <1>4, <1>5, <1>6, <1>7 DEF Contacts!Answered

(* Every step of the page and of the endpoint keeps the invariant of the   *)
(* book.                                                                   *)
LEMMA BookStep == BookInv /\ (Contacts!Next \/ UNCHANGED bookVars) => BookInv'
<1> SUFFICES ASSUME BookInv, Contacts!Next \/ UNCHANGED bookVars PROVE BookInv'
  OBVIOUS
<1>1. Contacts!TypeOK /\ CallsInOrder
  BY DEF BookInv
<1>2. CASE \E r \in calls : Contacts!Serve(r)
  BY <1>2, ServeKeeps
<1>3. CASE \E r \in calls : Contacts!Answered(r)
  BY <1>3, AnsweredKeeps
<1>4. ASSUME NEW r \in calls, Contacts!Lost(r) PROVE BookInv'
  <2>1. PICK s : s = [r EXCEPT !.phase = "done", !.why = "lost"]
    OBVIOUS
  <2>2. r \in Contacts!Call /\ InOrder(r)
    BY <1>1 DEF CallsInOrder
  <2>3. /\ s \in Contacts!Call /\ s.mine = r.mine /\ s.op = r.op /\ s.contact = r.contact
        /\ s.captured = r.captured /\ s.phase = "done" /\ s.why = "lost"
    BY <2>1, <2>2 DEF Contacts!Call
  <2>4. /\ calls' = (calls \ {r}) \cup {s} /\ alone' = FALSE
        /\ UNCHANGED <<book, bookNextId, contacts, metadata, editing, actionLoading, bookSent>>
    BY <1>4, <2>1 DEF Contacts!Lost, Contacts!Step
  <2>5. GoesOn(r, s)
    BY <2>2, <2>3, <2>4 DEF GoesOn, InOrder
  <2>6. CallsInOrder' /\ OneChanging'
    BY <2>4, <2>5, GoesOnKeeps
  <2>7. Contacts!TypeOK'
    BY <1>1, <2>4, <2>6, BookTypes DEF Contacts!TypeOK
  <2>8. IdsInOrder' /\ AloneAgrees'
    BY <2>4 DEF BookInv, IdsInOrder, AloneAgrees
  <2>9. QED
    BY <2>6, <2>7, <2>8 DEF BookInv
<1>5. CASE Contacts!OtherPage
  <2> DEFINE d == [kind |-> "karin", name |-> "nick", payee |-> Contacts!Min(Payee)]
  <2>1. PICK c, q : /\ c = Contacts!NewContact(d)
                    /\ q = Contacts!Request(bookSent + 1, FALSE, "add", c, {})
    OBVIOUS
  <2>2. /\ bookSent < MaxCalls /\ bookSent' = bookSent + 1 /\ alone' = FALSE
        /\ calls' = calls \cup {q}
        /\ UNCHANGED <<book, bookNextId, contacts, metadata, editing, actionLoading>>
    BY <1>5, <2>1 DEF Contacts!OtherPage
  <2>3. d.kind \in Contacts!Kind /\ d.name \in Contacts!Names /\ d.payee \in Payee
    BY LeastPayee DEF Contacts!Kind, Contacts!Names
  <2> HIDE DEF d
  <2>4. c \in Contacts!Contact
    BY <2>1, <2>3, NewContactIs
  <2>5. bookSent + 1 \in 0..MaxCalls
    BY <1>1, <2>2, BookConstants DEF Contacts!TypeOK
  <2>6. /\ q \in Contacts!Call /\ q.mine = FALSE /\ q.op = "add" /\ q.phase = "sent" /\ q.why = "ok"
    BY <2>1, <2>4, <2>5 DEF Contacts!Request, Contacts!Call
  <2>7. InOrder(q) /\ ~Changing(q)
    BY <2>6 DEF InOrder, Changing
  <2>8. actionLoading' = (actionLoading \/ Changing(q))
    BY <1>1, <2>2, <2>7 DEF Contacts!TypeOK
  <2>9. CallsInOrder' /\ OneChanging'
    BY <2>2, <2>6, <2>7, <2>8, NewRequest
  <2>10. Contacts!TypeOK'
    BY <1>1, <2>2, <2>5, <2>9, BookTypes DEF Contacts!TypeOK
  <2>11. IdsInOrder' /\ AloneAgrees'
    BY <2>2 DEF BookInv, IdsInOrder, AloneAgrees
  <2>12. QED
    BY <2>9, <2>10, <2>11 DEF BookInv
<1>6. ASSUME NEW r \in calls, Contacts!OtherAnswered(r) PROVE BookInv'
  <2>1. /\ ~r.mine /\ calls' = calls \ {r}
        /\ UNCHANGED <<book, bookNextId, contacts, metadata, editing, actionLoading, bookSent, alone>>
    BY <1>6 DEF Contacts!OtherAnswered
  <2>2. ~alone /\ ~Changing(r)
    BY <2>1 DEF BookInv, AloneAgrees, OnTheWay, Changing
  <2>3. QED
    BY <1>1, <2>1, <2>2, OverKeeps DEF Contacts!TypeOK
<1>7. CASE Contacts!HandleAddContact \/ Contacts!HandleDeleteContact \/ Contacts!HandleSaveEdit
  BY <1>7, PageKeeps
<1>8. CASE \/ Contacts!FetchMetadata \/ Contacts!HandleStartEdit \/ Contacts!HandleCancelEdit
           \/ UNCHANGED bookVars
  <2>1. UNCHANGED <<book, bookNextId, contacts, actionLoading, calls, bookSent, alone>>
    BY <1>8 DEF Contacts!FetchMetadata, Contacts!HandleStartEdit, Contacts!HandleCancelEdit, bookVars
  <2>2. metadata' \subseteq Contacts!Kind
    BY <1>1, <1>8 DEF Contacts!FetchMetadata, Contacts!HandleStartEdit,
       Contacts!HandleCancelEdit, bookVars, Contacts!TypeOK, Contacts!Kind
  <2>3. editing' \in 0..MaxIds
    <3>1. \A c \in contacts : c.id \in 0..MaxIds
      BY <1>1, BookConstants DEF Contacts!TypeOK, Contacts!Contact
    <3>2. editing \in 0..MaxIds /\ 0 \in 0..MaxIds
      BY <1>1, BookConstants DEF Contacts!TypeOK
    <3>3. QED
      BY <1>8, <3>1, <3>2 DEF Contacts!FetchMetadata, Contacts!HandleStartEdit,
         Contacts!HandleCancelEdit, bookVars
  <2>4. CallsInOrder' /\ OneChanging' /\ IdsInOrder'
    BY <2>1 DEF BookInv, CallsInOrder, OneChanging, IdsInOrder
  <2>5. Contacts!TypeOK'
    BY <1>1, <2>1, <2>2, <2>3, <2>4, BookTypes DEF Contacts!TypeOK
  <2>6. AloneAgrees'
    BY <2>1 DEF BookInv, AloneAgrees, OnTheWay
  <2>7. QED
    BY <2>4, <2>5, <2>6 DEF BookInv
<1>9. QED
  BY <1>2, <1>3, <1>4, <1>5, <1>6, <1>7, <1>8 DEF Contacts!Next

(* What the invariant of the book says of the three claims about it.       *)
LEMMA BookFacts ==
    ASSUME BookInv
    PROVE  Contacts!OneAtATime /\ Contacts!NeverIncomplete /\ Contacts!ShowsTheBook
<1> DEFINE changing == {r \in calls : Changing(r)}
<1>1. CASE actionLoading
  <2>1. PICK r \in calls : changing = {r}
    BY <1>1 DEF BookInv, OneChanging
  <2>2. Cardinality(changing) = 1
    BY <2>1, FS_Singleton
  <2>3. QED
    BY <1>1, <2>2, ContactsCount
       DEF Contacts!OneAtATime, Changing, BookInv, CallsInOrder, InOrder,
           Contacts!NeverIncomplete, AloneAgrees, Contacts!ShowsTheBook
<1>2. CASE ~actionLoading
  <2>1. changing = {}
    BY <1>2 DEF BookInv, OneChanging
  <2>2. Cardinality(changing) = 0
    BY <2>1, FS_EmptySet
  <2>3. QED
    BY <1>2, <2>2, ContactsCount
       DEF Contacts!OneAtATime, Changing, BookInv, CallsInOrder, InOrder,
           Contacts!NeverIncomplete, AloneAgrees, Contacts!ShowsTheBook
<1>3. QED
  BY <1>1, <1>2

-----------------------------------------------------------------------------
(* Deposits.  The patient customer takes some of the steps of any other.   *)

DialogTypes ==
    /\ loadingPage \in BOOLEAN
    /\ isOpen \in BOOLEAN /\ amount \in Amounts /\ depositDialog \in 0..MaxDialogs
    /\ isOpen => depositDialog # 0
    /\ clientSecret \in 0..Len(intents)
    /\ loading \in BOOLEAN /\ initError \in BOOLEAN
    /\ depositStatus \in {"idle", "success", "error"}

DepositRun == [n : 1..MaxPresses, intent : 1..Len(intents), dialog : 1..MaxDialogs,
               shown : Amounts, attempt : 0..MAX_RETRIES,
               stage : {"method", "confirm", "answered"}]

CallTypes ==
    /\ inits \subseteq [amount : Amounts, dialog : 1..MaxDialogs]
    /\ deposits \subseteq DepositRun
    /\ depositTimers \subseteq [n : 1..MaxPresses, kind : {"close", "refuse"},
                                intent : 0..Len(intents), dialog : 1..MaxDialogs]
    /\ presses \in 0..MaxPresses

BankTypes ==
    /\ intents \in Seq(Amounts)
    /\ credits \in Seq(Nat) /\ Len(credits) = Len(intents)
    /\ topupKey \in Seq(Deposit!KeyStatus) /\ Len(topupKey) = Len(intents)
    /\ confirmKey \in Seq(Deposit!KeyStatus) /\ Len(confirmKey) = Len(intents)
    /\ confirmations \subseteq Deposit!Confirmation
    /\ doubted \subseteq 1..Len(intents)

(* There are as many intents as dialogs at most.                           *)
IntentsCounted ==
    IsFiniteSet(inits) /\ Len(intents) + Cardinality(inits) <= depositDialog

(* The keys of an intent know how often it was credited.                   *)
KeysOf(i) ==
    \/ credits[i] = 0 /\ topupKey[i] = "absent" /\ confirmKey[i] = "absent"
    \/ credits[i] = 1 /\ topupKey[i] = "pending" /\ confirmKey[i] # "absent"
    \/ credits[i] = 2 /\ topupKey[i] = "completed" /\ confirmKey[i] # "absent"

(* Without a doubt about it, one handler at most has it in hand, and a key *)
(* that is pending is about to be completed by it.                         *)
Sure(i) ==
    /\ credits[i] <= 1
    /\ \A h, g \in confirmations : h.intent = i /\ g.intent = i => h = g
    /\ confirmKey[i] = "pending" =>
         \E h \in confirmations : h.intent = i /\ h.stage = "credited"

KeysInOrder ==
    /\ \A i \in 1..Len(intents) : KeysOf(i)
    /\ \A i \in 1..Len(intents) : i \notin doubted => Sure(i)
    /\ \A h \in confirmations : h.stage = "credited" => confirmKey[h.intent] # "absent"

(* A press of the button is about one intent.                              *)
PressesInOrder ==
    /\ \A d \in deposits : d.n <= presses
    /\ \A h \in confirmations : h.n <= presses
    /\ \A d, e \in deposits : d.n = e.n => d.intent = e.intent
    /\ \A d \in deposits : \A h \in confirmations : d.n = h.n => d.intent = h.intent

(* What has been answered is final.                                        *)
AnswersInOrder ==
    /\ \A d \in deposits : d.stage = "answered" => confirmKey[d.intent] = "completed"
    /\ \A t \in depositTimers : t.kind = "close" =>
         t.intent # 0 /\ confirmKey[t.intent] = "completed"

DepositInv ==
    /\ DialogTypes /\ CallTypes /\ BankTypes /\ IntentsCounted
    /\ KeysInOrder /\ PressesInOrder /\ AnswersInOrder

(* The page before its first deposit keeps the invariant, whichever the    *)
(* calls it allows.                                                        *)
LEMMA DepositInit == Deposit!Init \/ DepositPatient!Init => DepositInv
<1> SUFFICES ASSUME Deposit!Init \/ DepositPatient!Init PROVE DepositInv
  OBVIOUS
<1>1. /\ isOpen = FALSE /\ amount \in Amounts /\ depositDialog = 0
      /\ loadingPage = FALSE
      /\ clientSecret = 0 /\ loading = FALSE /\ initError = FALSE /\ depositStatus = "idle"
      /\ inits = {} /\ deposits = {} /\ depositTimers = {} /\ presses = 0
      /\ intents = <<>> /\ credits = <<>> /\ topupKey = <<>> /\ confirmKey = <<>>
      /\ confirmations = {} /\ doubted = {}
  BY DEF Deposit!Init, DepositPatient!Init
<1>2. /\ 0 \in 0..MaxDialogs /\ 0 \in 0..MaxPresses /\ Len(intents) = 0 /\ 0 \in 0..Len(intents)
      /\ 1..Len(intents) = {}
  BY <1>1, DepositConstants
<1>3. IntentsCounted
  BY <1>1, <1>2, FS_EmptySet DEF IntentsCounted
<1>4. DialogTypes
  BY <1>1, <1>2 DEF DialogTypes
<1>5. CallTypes /\ PressesInOrder /\ AnswersInOrder
  BY <1>1, <1>2 DEF CallTypes, PressesInOrder, AnswersInOrder
<1>6. BankTypes /\ KeysInOrder
  BY <1>1, <1>2 DEF BankTypes, KeysInOrder
<1>7. QED
  BY <1>3, <1>4, <1>5, <1>6 DEF DepositInv

(* The patient customer only waits.                                        *)
LEMMA PatientSteps == DepositPatient!Next => Deposit!Next
<1> SUFFICES ASSUME DepositPatient!Next PROVE Deposit!Next
  OBVIOUS
<1> USE DEF DepositPatient!opened, DepositPatient!modal, DepositPatient!calls,
     DepositPatient!bank, DepositPatient!keys, Deposit!opened, Deposit!modal,
     Deposit!calls, Deposit!bank, Deposit!keys, Deposit!Next
<1>1. CASE DepositPatient!StartCheckout \/ DepositPatient!CheckoutEnds
  BY <1>1 DEF DepositPatient!StartCheckout, DepositPatient!CheckoutEnds,
     Deposit!StartCheckout, Deposit!CheckoutEnds
<1>2. CASE DepositPatient!TopUp \/ DepositPatient!OnClose
  BY <1>2 DEF DepositPatient!TopUp, DepositPatient!OnClose, DepositPatient!ClearResult,
     DepositPatient!Closed,
     Deposit!TopUp, Deposit!OnClose, Deposit!ClearResult, Deposit!Closed
<1>3. CASE DepositPatient!IntentAnswered
  BY <1>3 DEF DepositPatient!IntentAnswered, DepositPatient!IntentCreated,
     DepositPatient!IntentFailed,
     Deposit!IntentAnswered, Deposit!IntentCreated, Deposit!IntentFailed
<1>4. CASE DepositPatient!HandleDeposit
  BY <1>4 DEF DepositPatient!HandleDeposit, DepositPatient!FormShown,
     Deposit!HandleDeposit, Deposit!FormShown
<1>5. CASE DepositPatient!DepositStep
  BY <1>5 DEF DepositPatient!DepositStep, DepositPatient!CreatePaymentMethod,
     DepositPatient!ConfirmAgain, DepositPatient!Becomes, DepositPatient!Confirm,
     Deposit!DepositStep, Deposit!CreatePaymentMethod, Deposit!ConfirmAgain,
     Deposit!Becomes, Deposit!Confirm
<1>6. CASE DepositPatient!ConfirmPaymentIntent
  BY <1>6 DEF DepositPatient!ConfirmPaymentIntent, DepositPatient!CreditCommits,
     DepositPatient!KeyCommits, DepositPatient!Replayed, DepositPatient!HandlerFails,
     DepositPatient!Reported,
     Deposit!ConfirmPaymentIntent, Deposit!CreditCommits, Deposit!KeyCommits,
     Deposit!Replayed, Deposit!HandlerFails, Deposit!Reported
<1>7. CASE DepositPatient!DepositEnds
  BY <1>7 DEF DepositPatient!DepositEnds, DepositPatient!DepositSucceeds,
     DepositPatient!DepositFails,
     Deposit!DepositEnds, Deposit!DepositSucceeds, Deposit!DepositFails
<1>8. CASE DepositPatient!TimerFires
  BY <1>8 DEF DepositPatient!TimerFires, DepositPatient!HandlePaymentSuccess,
     DepositPatient!SimulatedRefusal, DepositPatient!Closed, DepositPatient!ClearResult,
     Deposit!TimerFires, Deposit!HandlePaymentSuccess, Deposit!SimulatedRefusal,
     Deposit!Closed, Deposit!ClearResult
<1>9. QED
  BY <1>1, <1>2, <1>3, <1>4, <1>5, <1>6, <1>7, <1>8 DEF DepositPatient!Next

(* The dialog and its deposits, while the bank does nothing.               *)
BankUnchanged == UNCHANGED <<intents, credits, topupKey, confirmKey, confirmations, doubted>>

LEMMA DialogStep ==
    ASSUME DepositInv, DialogTypes', UNCHANGED <<inits, depositDialog>>, BankUnchanged,
           CallTypes', PressesInOrder', AnswersInOrder'
    PROVE  DepositInv'
<1>1. BankTypes' /\ KeysInOrder'
  BY DEF DepositInv, BankUnchanged, BankTypes, KeysInOrder, KeysOf, Sure, Deposit!Confirmation
<1>2. IntentsCounted'
  BY DEF DepositInv, BankUnchanged, IntentsCounted
<1>3. QED
  BY <1>1, <1>2 DEF DepositInv

(* Opening the dialog keeps the invariant of the deposit.                  *)
LEMMA TopUpKeeps == ASSUME DepositInv, Deposit!TopUp PROVE DepositInv'
<1>1. /\ DialogTypes /\ CallTypes /\ BankTypes /\ IntentsCounted
      /\ KeysInOrder /\ PressesInOrder /\ AnswersInOrder
  BY DEF DepositInv
<1>2. PICK q : q = [amount |-> amount', dialog |-> depositDialog']
  OBVIOUS
<1>3. /\ depositDialog < MaxDialogs /\ amount' \in Amounts /\ isOpen' = TRUE
      /\ depositDialog' = depositDialog + 1 /\ loading' = TRUE
      /\ initError' = FALSE /\ depositStatus' = "idle" /\ inits' = inits \cup {q}
      /\ UNCHANGED <<loadingPage, clientSecret, deposits, depositTimers, presses>>
      /\ BankUnchanged
  BY <1>2 DEF Deposit!TopUp, Deposit!ClearResult, Deposit!bank, Deposit!keys, BankUnchanged
<1>4. /\ depositDialog' \in 1..MaxDialogs /\ depositDialog' \in 0..MaxDialogs
      /\ depositDialog' # 0
  BY <1>1, <1>3, DepositConstants DEF DialogTypes
<1>5. DialogTypes'
  BY <1>1, <1>3, <1>4 DEF DialogTypes, BankUnchanged
<1>6. CallTypes'
  BY <1>1, <1>2, <1>3, <1>4 DEF CallTypes, DepositRun, BankUnchanged
<1>7. IntentsCounted'
  <2>0. IsFiniteSet(inits) /\ Cardinality(inits) \in Nat
    BY <1>1, FS_CardinalityType DEF IntentsCounted
  <2>1. /\ IsFiniteSet(inits')
        /\ Cardinality(inits') = IF q \in inits THEN Cardinality(inits) ELSE Cardinality(inits) + 1
    BY <1>3, <2>0, FS_AddElement
  <2>2. Cardinality(inits') \in Nat /\ Len(intents) \in Nat /\ depositDialog \in Nat
    BY <1>1, <2>1, FS_CardinalityType, DepositConstants DEF BankTypes, DialogTypes
  <2>3. QED
    BY <1>1, <1>3, <2>0, <2>1, <2>2 DEF IntentsCounted, BankUnchanged
<1>8. BankTypes' /\ KeysInOrder' /\ PressesInOrder' /\ AnswersInOrder'
  BY <1>1, <1>3 DEF BankTypes, KeysInOrder, KeysOf, Sure, PressesInOrder, AnswersInOrder,
     Deposit!Confirmation, BankUnchanged
<1>9. QED
  BY <1>5, <1>6, <1>7, <1>8 DEF DepositInv

(* The answer that brings the intent of a dialog keeps it.                 *)
LEMMA IntentCreatedKeeps ==
    ASSUME DepositInv, NEW q \in inits, Deposit!IntentCreated(q) PROVE DepositInv'
<1>1. /\ DialogTypes /\ CallTypes /\ BankTypes /\ IntentsCounted
      /\ KeysInOrder /\ PressesInOrder /\ AnswersInOrder
  BY DEF DepositInv
<1>2. /\ inits' = inits \ {q} /\ IsFiniteSet(inits') /\ Cardinality(inits') = Cardinality(inits) - 1
      /\ Cardinality(inits) \in Nat
  BY <1>1, FS_RemoveElement, FS_CardinalityType DEF IntentsCounted, Deposit!IntentCreated
<1>3. Len(intents) \in Nat /\ depositDialog \in Nat
  BY <1>1, DepositConstants DEF BankTypes, DialogTypes
<1>4. /\ intents' = Append(intents, q.amount) /\ credits' = Append(credits, 0)
      /\ topupKey' = Append(topupKey, "absent") /\ confirmKey' = Append(confirmKey, "absent")
      /\ clientSecret' = Len(intents') /\ loading' = FALSE
      /\ UNCHANGED <<loadingPage, isOpen, amount, depositDialog, initError, depositStatus,
                     deposits, depositTimers, presses, confirmations, doubted>>
  BY DEF Deposit!IntentCreated, Deposit!opened
<1>5. q.amount \in Amounts
  BY <1>1 DEF CallTypes
<1>6. "absent" \in Deposit!KeyStatus
  BY DEF Deposit!KeyStatus
<1>7. intents' \in Seq(Amounts) /\ Len(intents') = Len(intents) + 1
  BY <1>1, <1>4, <1>5 DEF BankTypes
<1>8. /\ credits' \in Seq(Nat) /\ Len(credits') = Len(intents')
      /\ \A i \in 1..Len(intents) : credits'[i] = credits[i]
      /\ credits'[Len(intents')] = 0
  BY <1>1, <1>4, <1>7 DEF BankTypes
<1>9. /\ topupKey' \in Seq(Deposit!KeyStatus) /\ Len(topupKey') = Len(intents')
      /\ \A i \in 1..Len(intents) : topupKey'[i] = topupKey[i]
      /\ topupKey'[Len(intents')] = "absent"
  BY <1>1, <1>4, <1>6, <1>7 DEF BankTypes
<1>10. /\ confirmKey' \in Seq(Deposit!KeyStatus) /\ Len(confirmKey') = Len(intents')
       /\ \A i \in 1..Len(intents) : confirmKey'[i] = confirmKey[i]
       /\ confirmKey'[Len(intents')] = "absent"
  BY <1>1, <1>4, <1>6, <1>7 DEF BankTypes
<1>11. /\ 1..Len(intents) \subseteq 1..Len(intents') /\ 0..Len(intents) \subseteq 0..Len(intents')
       /\ Len(intents') \in 0..Len(intents')
       /\ \A i \in 1..Len(intents') : i \in 1..Len(intents) \/ i = Len(intents')
       /\ Len(intents') \notin 1..Len(intents)
  BY <1>3, <1>7
<1>12. DialogTypes'
  BY <1>1, <1>4, <1>11 DEF DialogTypes
<1>13. CallTypes'
  BY <1>1, <1>2, <1>4, <1>11 DEF CallTypes, DepositRun
<1>14. IntentsCounted'
  BY <1>1, <1>2, <1>3, <1>4, <1>7 DEF IntentsCounted
<1>15. \A h \in confirmations : h.intent \in 1..Len(intents)
  BY <1>1 DEF BankTypes, Deposit!Confirmation
<1>16. BankTypes'
  <2>1. confirmations' \subseteq Deposit!Confirmation'
    BY <1>1, <1>4, <1>11 DEF BankTypes, Deposit!Confirmation
  <2>2. doubted' \subseteq 1..Len(intents')
    BY <1>1, <1>4, <1>11 DEF BankTypes
  <2>3. QED
    BY <1>7, <1>8, <1>9, <1>10, <2>1, <2>2 DEF BankTypes, Deposit!KeyStatus
<1>17. KeysInOrder'
  <2>1. ASSUME NEW i \in 1..Len(intents') PROVE KeysOf(i)' /\ (i \notin doubted' => Sure(i)')
    <3>1. CASE i \in 1..Len(intents)
      <4>1. KeysOf(i) /\ (i \notin doubted => Sure(i))
        BY <1>1, <3>1 DEF KeysInOrder
      <4>2. credits'[i] = credits[i] /\ topupKey'[i] = topupKey[i] /\ confirmKey'[i] = confirmKey[i]
        BY <1>8, <1>9, <1>10, <3>1
      <4>3. KeysOf(i)'
        BY <4>1, <4>2 DEF KeysOf
      <4>4. i \notin doubted' => Sure(i)'
        BY <1>4, <4>1, <4>2 DEF Sure
      <4>5. QED
        BY <4>3, <4>4
    <3>2. CASE i = Len(intents')
      BY <1>4, <1>8, <1>9, <1>10, <1>11, <1>15, <3>2 DEF KeysOf, Sure
    <3>3. QED
      BY <1>11, <2>1, <3>1, <3>2
  <2>2. \A h \in confirmations' : h.stage = "credited" => confirmKey'[h.intent] # "absent"
    BY <1>1, <1>4, <1>10, <1>15 DEF KeysInOrder
  <2>3. QED
    BY <2>1, <2>2 DEF KeysInOrder
<1>18. PressesInOrder' /\ AnswersInOrder'
  <2>1. \A d \in deposits : d.intent \in 1..Len(intents)
    BY <1>1 DEF CallTypes, DepositRun
  <2>2. \A t \in depositTimers : t.intent # 0 => t.intent \in 1..Len(intents)
    BY <1>1, <1>3 DEF CallTypes
  <2>3. QED
    BY <1>1, <1>4, <1>10, <2>1, <2>2 DEF PressesInOrder, AnswersInOrder
<1>19. QED
  BY <1>12, <1>13, <1>14, <1>16, <1>17, <1>18 DEF DepositInv

(* The failure to bring it keeps it.                                       *)
LEMMA IntentFailedKeeps ==
    ASSUME DepositInv, NEW q \in inits, Deposit!IntentFailed(q) PROVE DepositInv'
<1>1. /\ DialogTypes /\ CallTypes /\ BankTypes /\ IntentsCounted
      /\ KeysInOrder /\ PressesInOrder /\ AnswersInOrder
  BY DEF DepositInv
<1>2. /\ inits' = inits \ {q} /\ IsFiniteSet(inits') /\ Cardinality(inits') = Cardinality(inits) - 1
      /\ Cardinality(inits) \in Nat
  BY <1>1, FS_RemoveElement, FS_CardinalityType DEF IntentsCounted, Deposit!IntentFailed
<1>3. Len(intents) \in Nat /\ depositDialog \in Nat
  BY <1>1, DepositConstants DEF BankTypes, DialogTypes
<1>4. /\ initError' = TRUE /\ loading' = FALSE
      /\ UNCHANGED <<loadingPage, isOpen, amount, depositDialog, clientSecret,
                     depositStatus, deposits, depositTimers, presses>>
      /\ BankUnchanged
  BY DEF Deposit!IntentFailed, Deposit!opened, Deposit!bank, Deposit!keys, BankUnchanged
<1>5. DialogTypes' /\ CallTypes'
  BY <1>1, <1>2, <1>4 DEF DialogTypes, CallTypes, DepositRun, BankUnchanged
<1>6. BankTypes' /\ KeysInOrder' /\ PressesInOrder' /\ AnswersInOrder'
  BY <1>1, <1>4 DEF BankTypes, KeysInOrder, KeysOf, Sure, PressesInOrder, AnswersInOrder,
     Deposit!Confirmation, BankUnchanged
<1>7. IntentsCounted'
  BY <1>1, <1>2, <1>3, <1>4 DEF IntentsCounted, BankUnchanged
<1>8. QED
  BY <1>5, <1>6, <1>7 DEF DepositInv

(* Pressing the button of the deposit keeps it: the press is a new one.    *)
LEMMA HandleDepositKeeps == ASSUME DepositInv, Deposit!HandleDeposit PROVE DepositInv'
<1>1. /\ DialogTypes /\ CallTypes /\ BankTypes /\ PressesInOrder /\ AnswersInOrder
  BY DEF DepositInv
<1>2. PICK t, d :
        /\ t = [n |-> presses', kind |-> "refuse", intent |-> 0, dialog |-> depositDialog]
        /\ d = [n |-> presses', intent |-> clientSecret, dialog |-> depositDialog, shown |-> amount,
                attempt |-> 0, stage |-> "method"]
  OBVIOUS
<1>3. /\ isOpen /\ clientSecret # 0 /\ presses < MaxPresses /\ presses' = presses + 1
      /\ loading' = TRUE /\ depositStatus' = "idle"
      /\ \/ depositTimers' = depositTimers \cup {t} /\ UNCHANGED deposits
         \/ deposits' = deposits \cup {d} /\ UNCHANGED depositTimers
      /\ UNCHANGED <<loadingPage, isOpen, amount, depositDialog, clientSecret, initError, inits>>
      /\ BankUnchanged
  BY <1>2 DEF Deposit!HandleDeposit, Deposit!opened, Deposit!bank, Deposit!keys, BankUnchanged
<1>4. presses' \in 1..MaxPresses /\ presses' \in 0..MaxPresses /\ presses \in Nat
  BY <1>1, <1>3, DepositConstants DEF CallTypes
<1>5. /\ depositDialog \in 1..MaxDialogs /\ clientSecret \in 1..Len(intents)
      /\ 0 \in 0..Len(intents) /\ 0 \in 0..MAX_RETRIES
  BY <1>1, <1>3, DepositConstants DEF DialogTypes, BankTypes
<1>6. DialogTypes'
  BY <1>1, <1>3 DEF DialogTypes, BankUnchanged
<1>7. CallTypes'
  <2>1. /\ d \in DepositRun
        /\ t \in [n : 1..MaxPresses, kind : {"close", "refuse"},
                  intent : 0..Len(intents), dialog : 1..MaxDialogs]
    BY <1>1, <1>2, <1>4, <1>5 DEF DepositRun, DialogTypes
  <2>2. QED
    BY <1>1, <1>3, <1>4, <2>1 DEF CallTypes, DepositRun, BankUnchanged
<1>8. AnswersInOrder'
  <2>1. d.stage = "method" /\ t.kind = "refuse"
    BY <1>2
  <2>2. QED
    BY <1>1, <1>3, <2>1 DEF AnswersInOrder, BankUnchanged
<1>9. PressesInOrder'
  <2>1. /\ \A e \in deposits : e.n \in Nat /\ e.n <= presses
        /\ \A h \in confirmations : h.n \in Nat /\ h.n <= presses
    BY <1>1 DEF PressesInOrder, CallTypes, DepositRun, BankTypes, Deposit!Confirmation
  <2>2. /\ \A e \in deposits : e.n <= presses' /\ e.n # presses'
        /\ \A h \in confirmations : h.n <= presses' /\ h.n # presses'
    BY <1>3, <1>4, <2>1
  <2>3. d.n = presses' /\ presses' <= presses'
    BY <1>2, <1>4
  <2>4. QED
    BY <1>1, <1>3, <2>2, <2>3 DEF PressesInOrder, BankUnchanged
<1>10. QED
  BY <1>3, <1>6, <1>7, <1>8, <1>9, DialogStep

(* Sending a confirmation, for the first time or again, keeps it: while    *)
(* another one is under way, the intent is doubted.                        *)
LEMMA DepositStepKeeps ==
    ASSUME DepositInv, NEW d \in deposits, Deposit!CreatePaymentMethod(d) \/ Deposit!ConfirmAgain(d)
    PROVE  DepositInv'
<1>1. /\ DialogTypes /\ CallTypes /\ BankTypes /\ IntentsCounted
      /\ KeysInOrder /\ PressesInOrder /\ AnswersInOrder
  BY DEF DepositInv
<1>2. UNCHANGED <<loadingPage, isOpen, amount, depositDialog, clientSecret, loading, initError,
                  depositStatus, inits, depositTimers, presses, intents, credits, topupKey,
                  confirmKey>>
  BY DEF Deposit!CreatePaymentMethod, Deposit!ConfirmAgain, Deposit!Confirm, Deposit!opened,
     Deposit!modal, Deposit!keys
<1>3. d \in DepositRun
  BY <1>1 DEF CallTypes
<1>4. PICK m \in 0..MAX_RETRIES :
        /\ deposits' = (deposits \ {d}) \cup {[d EXCEPT !.attempt = m, !.stage = "confirm"]}
        /\ Deposit!Confirm(d.n, m, d.intent)
  <2>1. CASE Deposit!CreatePaymentMethod(d)
    <3>1. /\ deposits' = (deposits \ {d}) \cup {[d EXCEPT !.stage = "confirm"]}
          /\ Deposit!Confirm(d.n, d.attempt, d.intent)
      BY <2>1 DEF Deposit!CreatePaymentMethod, Deposit!Becomes
    <3>2. /\ d.attempt \in 0..MAX_RETRIES
          /\ [d EXCEPT !.stage = "confirm"] = [d EXCEPT !.attempt = d.attempt, !.stage = "confirm"]
      BY <1>3 DEF DepositRun
    <3>3. QED
      BY <3>1, <3>2
  <2>2. CASE Deposit!ConfirmAgain(d)
    <3>1. /\ deposits' = (deposits \ {d}) \cup
                           {[d EXCEPT !.attempt = d.attempt + 1, !.stage = "confirm"]}
          /\ Deposit!Confirm(d.n, d.attempt + 1, d.intent)
          /\ d.attempt < MAX_RETRIES
      BY <1>3, <2>2 DEF Deposit!ConfirmAgain, Deposit!Becomes, DepositRun
    <3>2. d.attempt + 1 \in 0..MAX_RETRIES
      BY <1>3, <3>1, DepositConstants DEF DepositRun
    <3>3. QED
      BY <3>1, <3>2
  <2>3. QED
    BY <2>1, <2>2
<1>5. PICK e, c :
        /\ e = [d EXCEPT !.attempt = m, !.stage = "confirm"]
        /\ c = [n |-> d.n, attempt |-> m, intent |-> d.intent, stage |-> "sent"]
  OBVIOUS
<1>6. /\ deposits' = (deposits \ {d}) \cup {e} /\ e \in DepositRun
      /\ e.n = d.n /\ e.intent = d.intent /\ e.stage = "confirm"
  BY <1>3, <1>4, <1>5 DEF DepositRun
<1>7. /\ confirmations' = confirmations \cup {c} /\ c \in Deposit!Confirmation
      /\ c.n = d.n /\ c.intent = d.intent /\ c.stage = "sent"
      /\ d.intent \in 1..Len(intents)
  BY <1>3, <1>4, <1>5 DEF DepositRun, Deposit!Confirm, Deposit!Confirmation
<1>8. doubted' = IF \E h \in confirmations : h.intent = d.intent THEN doubted \cup {d.intent}
                 ELSE doubted
  BY <1>4 DEF Deposit!Confirm
<1>9. DialogTypes' /\ IntentsCounted'
  BY <1>1, <1>2 DEF DialogTypes, IntentsCounted
<1>10. CallTypes'
  BY <1>1, <1>2, <1>6 DEF CallTypes, DepositRun
<1>11. BankTypes'
  BY <1>1, <1>2, <1>7, <1>8 DEF BankTypes, Deposit!Confirmation
<1>12. KeysInOrder'
  <2>1. ASSUME NEW i \in 1..Len(intents), i \notin doubted' PROVE Sure(i)'
    <3>1. Sure(i) /\ (i = d.intent => ~\E h \in confirmations : h.intent = d.intent)
      BY <1>1, <1>8, <2>1 DEF KeysInOrder
    <3>2. QED
      BY <1>2, <1>7, <3>1 DEF Sure
  <2>2. \A i \in 1..Len(intents) : KeysOf(i)'
    BY <1>1, <1>2 DEF KeysInOrder, KeysOf
  <2>3. \A h \in confirmations' : h.stage = "credited" => confirmKey'[h.intent] # "absent"
    BY <1>1, <1>2, <1>7 DEF KeysInOrder
  <2>4. QED
    BY <1>2, <2>1, <2>2, <2>3 DEF KeysInOrder
<1>13. PressesInOrder' /\ AnswersInOrder'
  BY <1>1, <1>2, <1>6, <1>7 DEF PressesInOrder, AnswersInOrder
<1>14. QED
  BY <1>9, <1>10, <1>11, <1>12, <1>13 DEF DepositInv

(* An entry of a sequence is replaced.                                     *)
LEMMA EntryReplaced ==
    ASSUME NEW S, NEW q \in Seq(S), NEW i, NEW v \in S
    PROVE  [q EXCEPT ![i] = v] \in Seq(S) /\ Len([q EXCEPT ![i] = v]) = Len(q)
<1>1. q \in [1..Len(q) -> S] /\ Len(q) \in Nat
  OBVIOUS
<1>2. [q EXCEPT ![i] = v] \in [1..Len(q) -> S]
  BY <1>1
<1>3. QED
  BY <1>1, <1>2

(* The first commit of the bank keeps it: without a doubt there was no     *)
(* credit yet.                                                             *)
LEMMA CreditCommitsKeeps ==
    ASSUME DepositInv, NEW h \in confirmations, Deposit!CreditCommits(h) PROVE DepositInv'
<1>1. /\ DialogTypes /\ CallTypes /\ BankTypes /\ IntentsCounted
      /\ KeysInOrder /\ PressesInOrder /\ AnswersInOrder
  BY DEF DepositInv
<1>2. UNCHANGED <<loadingPage, isOpen, amount, depositDialog, clientSecret, loading, initError,
                  depositStatus, inits, deposits, depositTimers, presses, intents, doubted>>
  BY DEF Deposit!CreditCommits, Deposit!opened, Deposit!modal, Deposit!calls
<1>3. PICK c, i : c = [h EXCEPT !.stage = "credited"] /\ i = h.intent
  OBVIOUS
<1>4. h \in Deposit!Confirmation
  BY <1>1 DEF BankTypes
<1>5. /\ confirmations' = (confirmations \ {h}) \cup {c} /\ c \in Deposit!Confirmation
      /\ c.n = h.n /\ c.intent = i /\ c.stage = "credited" /\ i \in 1..Len(intents)
  BY <1>3, <1>4 DEF Deposit!CreditCommits, Deposit!Confirmation
<1>6. /\ h.stage = "sent" /\ confirmKey[i] # "completed"
      /\ \/ topupKey[i] = "completed" /\ UNCHANGED <<credits, topupKey, confirmKey>>
         \/ /\ topupKey[i] # "completed"
            /\ credits' = [credits EXCEPT ![i] = @ + 1]
            /\ topupKey' = [topupKey EXCEPT ![i] = IF @ = "absent" THEN "pending" ELSE "completed"]
            /\ confirmKey' = [confirmKey EXCEPT ![i] = "pending"]
  BY <1>3 DEF Deposit!CreditCommits, Deposit!keys
<1>7. credits[i] \in Nat /\ KeysOf(i)
  BY <1>1, <1>5 DEF BankTypes, KeysInOrder
<1>8. /\ credits' \in Seq(Nat) /\ Len(credits') = Len(intents)
      /\ topupKey' \in Seq(Deposit!KeyStatus) /\ Len(topupKey') = Len(intents)
      /\ confirmKey' \in Seq(Deposit!KeyStatus) /\ Len(confirmKey') = Len(intents)
  <2>1. {"pending", "completed"} \subseteq Deposit!KeyStatus
    BY DEF Deposit!KeyStatus
  <2>2. CASE topupKey[i] = "completed" /\ UNCHANGED <<credits, topupKey, confirmKey>>
    BY <1>1, <2>2 DEF BankTypes
  <2>3. CASE topupKey[i] # "completed"
    <3>1. PICK n \in Nat, v \in Deposit!KeyStatus, w \in Deposit!KeyStatus :
            /\ credits' = [credits EXCEPT ![i] = n] /\ topupKey' = [topupKey EXCEPT ![i] = v]
            /\ confirmKey' = [confirmKey EXCEPT ![i] = w]
      <4>1. credits[i] + 1 \in Nat /\ credits' = [credits EXCEPT ![i] = credits[i] + 1]
        BY <1>6, <1>7, <2>3
      <4>2. \E v \in Deposit!KeyStatus : topupKey' = [topupKey EXCEPT ![i] = v]
        BY <1>6, <2>1, <2>3
      <4>3. \E w \in Deposit!KeyStatus : confirmKey' = [confirmKey EXCEPT ![i] = w]
        BY <1>6, <2>1, <2>3
      <4>4. QED
        BY <4>1, <4>2, <4>3
    <3>2. QED
      BY <1>1, <3>1, EntryReplaced DEF BankTypes
  <2>4. QED
    BY <1>6, <2>2, <2>3
<1>9. /\ i \in DOMAIN credits /\ i \in DOMAIN topupKey /\ i \in DOMAIN confirmKey
      /\ \A j \in 1..Len(intents) \ {i} : /\ credits'[j] = credits[j]
                                         /\ topupKey'[j] = topupKey[j]
                                         /\ confirmKey'[j] = confirmKey[j]
  BY <1>1, <1>5, <1>6 DEF BankTypes
<1>10. /\ confirmKey'[i] = "pending"
       /\ \/ credits'[i] = 1 /\ topupKey'[i] = "pending" /\ credits[i] = 0
          \/ credits'[i] = 2 /\ topupKey'[i] = "completed" /\ confirmKey[i] = "pending"
  <2>1. confirmKey[i] \in Deposit!KeyStatus
    BY <1>1, <1>5 DEF BankTypes
  <2>2. QED
    BY <1>6, <1>7, <1>9, <2>1 DEF KeysOf, Deposit!KeyStatus
<1>11. DialogTypes' /\ IntentsCounted' /\ CallTypes'
  BY <1>1, <1>2 DEF DialogTypes, IntentsCounted, CallTypes, DepositRun
<1>12. BankTypes'
  <2>1. confirmations' \subseteq Deposit!Confirmation' /\ doubted' \subseteq 1..Len(intents')
    BY <1>1, <1>2, <1>5 DEF BankTypes, Deposit!Confirmation
  <2>2. QED
    BY <1>1, <1>2, <1>8, <2>1 DEF BankTypes, Deposit!KeyStatus
<1>13. KeysInOrder'
  <2>1. ASSUME NEW j \in 1..Len(intents), j \notin doubted PROVE Sure(j)'
    <3>1. Sure(j)
      BY <1>1, <2>1 DEF KeysInOrder
    <3>2. CASE j = i
      <4>1. confirmKey[i] # "pending"
        BY <1>3, <1>6, <3>1, <3>2 DEF Sure
      <4>2. credits'[i] = 1
        BY <1>10, <4>1
      <4>3. \A g \in confirmations' : g.intent = i => g = c
        BY <1>3, <1>5, <3>1, <3>2 DEF Sure
      <4>4. QED
        BY <1>5, <3>2, <4>2, <4>3 DEF Sure
    <3>3. CASE j # i
      <4>1. \A g \in confirmations' : g.intent = j => g \in confirmations
        BY <1>5, <3>3
      <4>2. \A g \in confirmations : g.intent = j => g \in confirmations'
        BY <1>3, <1>5, <3>3
      <4>3. QED
        BY <1>9, <3>1, <3>3, <4>1, <4>2 DEF Sure
    <3>4. QED
      BY <3>2, <3>3
  <2>2. ASSUME NEW j \in 1..Len(intents) PROVE KeysOf(j)'
    <3>1. CASE j = i
      BY <1>10, <3>1 DEF KeysOf
    <3>2. CASE j # i
      BY <1>1, <1>9, <3>2 DEF KeysInOrder, KeysOf
    <3>3. QED
      BY <3>1, <3>2
  <2>3. ASSUME NEW g \in confirmations', g.stage = "credited" PROVE confirmKey'[g.intent] # "absent"
    <3>1. g.intent \in 1..Len(intents)
      BY <1>2, <1>12, <2>3 DEF BankTypes, Deposit!Confirmation
    <3>2. CASE g.intent = i
      BY <1>10, <3>2
    <3>3. CASE g.intent # i
      BY <1>1, <1>5, <1>9, <2>3, <3>1, <3>3 DEF KeysInOrder
    <3>4. QED
      BY <3>2, <3>3
  <2>4. QED
    BY <1>2, <2>1, <2>2, <2>3 DEF KeysInOrder
<1>14. PressesInOrder'
  <2>1. \A g \in confirmations' : \E f \in confirmations : g.n = f.n /\ g.intent = f.intent
    BY <1>3, <1>5
  <2>2. QED
    BY <1>1, <1>2, <2>1 DEF PressesInOrder
<1>15. AnswersInOrder'
  <2>1. \A d \in deposits : d.intent \in 1..Len(intents)
    BY <1>1 DEF CallTypes, DepositRun
  <2>2. \A t \in depositTimers : t.intent # 0 => t.intent \in 1..Len(intents)
    BY <1>1 DEF CallTypes, BankTypes
  <2>3. QED
    BY <1>1, <1>2, <1>6, <1>9, <2>1, <2>2 DEF AnswersInOrder
<1>16. QED
  BY <1>11, <1>12, <1>13, <1>14, <1>15 DEF DepositInv

(* What an answer does to the deposits.                                    *)
LEMMA ReportedDeposits ==
    ASSUME CallTypes, NEW h \in confirmations, Deposit!Reported(h)
    PROVE  /\ deposits' \subseteq DepositRun
           /\ \A e \in deposits' : \E d \in deposits :
                /\ e.n = d.n /\ e.intent = d.intent /\ e.dialog = d.dialog /\ e.shown = d.shown
                /\ e.stage = "answered" => d.stage = "answered" \/ d.n = h.n
<1>1. deposits' = {IF d.n = h.n /\ d.attempt = h.attempt /\ d.stage = "confirm"
                   THEN [d EXCEPT !.stage = "answered"] ELSE d : d \in deposits}
  BY DEF Deposit!Reported
<1>2. ASSUME NEW d \in deposits, NEW e,
             e = IF d.n = h.n /\ d.attempt = h.attempt /\ d.stage = "confirm"
                 THEN [d EXCEPT !.stage = "answered"] ELSE d
      PROVE  /\ e \in DepositRun
             /\ e.n = d.n /\ e.intent = d.intent /\ e.dialog = d.dialog /\ e.shown = d.shown
             /\ e.stage = "answered" => d.stage = "answered" \/ d.n = h.n
  <2>1. d \in DepositRun
    BY DEF CallTypes
  <2>2. CASE e = d
    BY <2>1, <2>2
  <2>3. CASE d.n = h.n /\ e = [d EXCEPT !.stage = "answered"]
    <3>1. e \in DepositRun /\ e.n = d.n /\ e.intent = d.intent /\ e.dialog = d.dialog
          /\ e.shown = d.shown
      BY <2>1, <2>3 DEF DepositRun
    <3>2. QED
      BY <2>3, <3>1
  <2>4. QED
    BY <1>2, <2>2, <2>3
<1>3. QED
  BY <1>1, <1>2

(* The second commit and a replayed answer keep it.                        *)
LEMMA AnswerKeeps ==
    ASSUME DepositInv, NEW h \in confirmations, Deposit!KeyCommits(h) \/ Deposit!Replayed(h)
    PROVE  DepositInv'
<1>1. /\ DialogTypes /\ CallTypes /\ BankTypes /\ IntentsCounted
      /\ KeysInOrder /\ PressesInOrder /\ AnswersInOrder
  BY DEF DepositInv
<1>2. /\ UNCHANGED <<loadingPage, isOpen, amount, depositDialog, clientSecret, loading,
                     initError, depositStatus, inits, depositTimers, presses, intents, credits,
                     topupKey, doubted>>
      /\ confirmations' = confirmations \ {h} /\ Deposit!Reported(h)
  BY DEF Deposit!KeyCommits, Deposit!Replayed, Deposit!opened, Deposit!modal, Deposit!keys
<1>3. PICK i : i = h.intent
  OBVIOUS
<1>4. i \in 1..Len(intents)
  BY <1>1, <1>3 DEF BankTypes, Deposit!Confirmation
<1>5. confirmKey[i] # "absent" /\ confirmKey' = [confirmKey EXCEPT ![i] = "completed"]
  <2>1. CASE Deposit!KeyCommits(h)
    BY <1>1, <1>3, <2>1 DEF Deposit!KeyCommits, KeysInOrder
  <2>2. CASE Deposit!Replayed(h)
    <3>1. confirmKey[i] = "completed" /\ confirmKey' = confirmKey
      BY <1>3, <2>2 DEF Deposit!Replayed, Deposit!keys
    <3>2. QED
      BY <1>1, <3>1 DEF BankTypes
  <2>3. QED
    BY <2>1, <2>2
<1>6. /\ confirmKey' \in Seq(Deposit!KeyStatus) /\ Len(confirmKey') = Len(intents)
      /\ confirmKey'[i] = "completed"
      /\ \A j \in 1..Len(intents) \ {i} : confirmKey'[j] = confirmKey[j]
  <2>1. "completed" \in Deposit!KeyStatus
    BY DEF Deposit!KeyStatus
  <2>2. QED
    BY <1>1, <1>4, <1>5, <2>1 DEF BankTypes
<1>7. /\ deposits' \subseteq DepositRun
      /\ \A e \in deposits' : \E d \in deposits :
           /\ e.n = d.n /\ e.intent = d.intent
           /\ e.stage = "answered" => d.stage = "answered" \/ d.n = h.n
  BY <1>1, <1>2, ReportedDeposits
<1>8. DialogTypes' /\ IntentsCounted'
  BY <1>1, <1>2 DEF DialogTypes, IntentsCounted
<1>9. CallTypes'
  BY <1>1, <1>2, <1>7 DEF CallTypes, DepositRun
<1>10. BankTypes'
  <2>1. confirmations' \subseteq Deposit!Confirmation'
    BY <1>1, <1>2 DEF BankTypes, Deposit!Confirmation
  <2>2. QED
    BY <1>1, <1>2, <1>6, <2>1 DEF BankTypes, Deposit!KeyStatus
<1>11. KeysInOrder'
  <2>1. ASSUME NEW j \in 1..Len(intents) PROVE KeysOf(j)' /\ (j \notin doubted => Sure(j)')
    <3>1. KeysOf(j) /\ (j \notin doubted => Sure(j))
      BY <1>1, <2>1 DEF KeysInOrder
    <3>2. CASE j = i
      BY <1>2, <1>5, <1>6, <3>1, <3>2 DEF KeysOf, Sure
    <3>3. CASE j # i
      <4>1. confirmKey'[j] = confirmKey[j]
        BY <1>6, <3>3
      <4>2. KeysOf(j)'
        BY <1>2, <3>1, <4>1 DEF KeysOf
      <4>3. ASSUME j \notin doubted PROVE Sure(j)'
        BY <1>2, <1>3, <3>1, <3>3, <4>1, <4>3 DEF Sure
      <4>4. QED
        BY <4>2, <4>3
    <3>4. QED
      BY <3>2, <3>3
  <2>2. ASSUME NEW g \in confirmations', g.stage = "credited" PROVE confirmKey'[g.intent] # "absent"
    <3>1. g.intent \in 1..Len(intents) /\ g \in confirmations
      BY <1>1, <1>2, <2>2 DEF BankTypes, Deposit!Confirmation
    <3>2. QED
      BY <1>1, <1>6, <2>2, <3>1 DEF KeysInOrder
  <2>3. QED
    BY <1>2, <2>1, <2>2 DEF KeysInOrder
<1>12. PressesInOrder'
  BY <1>1, <1>2, <1>7 DEF PressesInOrder
<1>13. AnswersInOrder'
  <2>1. ASSUME NEW e \in deposits', e.stage = "answered" PROVE confirmKey'[e.intent] = "completed"
    <3>1. PICK d \in deposits : /\ e.intent = d.intent
                                /\ d.stage = "answered" \/ d.n = h.n
      BY <1>7, <2>1
    <3>2. d.intent = i \/ d.stage = "answered"
      BY <1>1, <1>3, <3>1 DEF PressesInOrder
    <3>3. d.intent \in 1..Len(intents)
      BY <1>1 DEF CallTypes, DepositRun
    <3>4. QED
      BY <1>1, <1>6, <3>1, <3>2, <3>3 DEF AnswersInOrder
  <2>2. \A t \in depositTimers : t.intent # 0 => t.intent \in 1..Len(intents)
    BY <1>1 DEF CallTypes, BankTypes
  <2>3. QED
    BY <1>1, <1>2, <1>6, <2>1, <2>2 DEF AnswersInOrder
<1>14. QED
  BY <1>8, <1>9, <1>10, <1>11, <1>12, <1>13 DEF DepositInv

(* A handler that fails keeps it: between the commits, it leaves a doubt.  *)
LEMMA HandlerFailsKeeps ==
    ASSUME DepositInv, NEW h \in confirmations, Deposit!HandlerFails(h) PROVE DepositInv'
<1>1. /\ DialogTypes /\ CallTypes /\ BankTypes /\ IntentsCounted
      /\ KeysInOrder /\ PressesInOrder /\ AnswersInOrder
  BY DEF DepositInv
<1>2. /\ UNCHANGED <<loadingPage, isOpen, amount, depositDialog, clientSecret, loading,
                     initError, depositStatus, inits, deposits, depositTimers, presses, intents,
                     credits, topupKey, confirmKey>>
      /\ confirmations' = confirmations \ {h}
      /\ doubted' = IF h.stage = "credited" THEN doubted \cup {h.intent} ELSE doubted
  BY DEF Deposit!HandlerFails, Deposit!opened, Deposit!modal, Deposit!calls, Deposit!keys
<1>3. h.intent \in 1..Len(intents)
  BY <1>1 DEF BankTypes, Deposit!Confirmation
<1>4. DialogTypes' /\ IntentsCounted' /\ CallTypes'
  BY <1>1, <1>2 DEF DialogTypes, IntentsCounted, CallTypes, DepositRun
<1>5. BankTypes'
  BY <1>1, <1>2, <1>3 DEF BankTypes, Deposit!Confirmation
<1>6. KeysInOrder'
  <2>1. ASSUME NEW i \in 1..Len(intents), i \notin doubted' PROVE Sure(i)'
    <3>1. Sure(i) /\ (h.intent = i => h.stage # "credited")
      BY <1>1, <1>2, <2>1 DEF KeysInOrder
    <3>2. QED
      BY <1>2, <3>1 DEF Sure
  <2>2. \A i \in 1..Len(intents) : KeysOf(i)'
    BY <1>1, <1>2 DEF KeysInOrder, KeysOf
  <2>3. QED
    BY <1>1, <1>2, <2>1, <2>2 DEF KeysInOrder
<1>7. PressesInOrder' /\ AnswersInOrder'
  BY <1>1, <1>2 DEF PressesInOrder, AnswersInOrder
<1>8. QED
  BY <1>4, <1>5, <1>6, <1>7 DEF DepositInv

(* The end of a deposit, with the credit or without, keeps it.             *)
LEMMA DepositEndsKeeps ==
    ASSUME DepositInv, NEW d \in deposits, Deposit!DepositSucceeds(d) \/ Deposit!DepositFails(d)
    PROVE  DepositInv'
<1>1. /\ DialogTypes /\ CallTypes /\ BankTypes /\ PressesInOrder /\ AnswersInOrder
  BY DEF DepositInv
<1>2. /\ deposits' = deposits \ {d} /\ loading' = FALSE
      /\ UNCHANGED <<loadingPage, isOpen, amount, depositDialog, clientSecret, inits, presses>>
      /\ BankUnchanged
  BY DEF Deposit!DepositSucceeds, Deposit!DepositFails, Deposit!opened, Deposit!bank,
     Deposit!keys, BankUnchanged
<1>3. PressesInOrder'
  BY <1>1, <1>2 DEF PressesInOrder, BankUnchanged
<1>4. CASE Deposit!DepositSucceeds(d)
  <2>1. PICK t : t = [n |-> d.n, kind |-> "close", intent |-> d.intent, dialog |-> d.dialog]
    OBVIOUS
  <2>2. /\ d.stage = "answered" /\ depositStatus' = "success"
        /\ depositTimers' = depositTimers \cup {t} /\ UNCHANGED initError
    BY <1>4, <2>1 DEF Deposit!DepositSucceeds
  <2>3. d \in DepositRun /\ confirmKey[d.intent] = "completed"
    BY <1>1, <2>2 DEF CallTypes, AnswersInOrder
  <2>4. d.intent \in 0..Len(intents) /\ d.intent # 0
    BY <1>1, <2>3 DEF BankTypes, DepositRun
  <2>5. DialogTypes'
    BY <1>1, <1>2, <2>2 DEF DialogTypes, BankUnchanged
  <2>6. /\ t \in [n : 1..MaxPresses, kind : {"close", "refuse"},
                  intent : 0..Len(intents), dialog : 1..MaxDialogs]
        /\ t.intent = d.intent
    BY <2>1, <2>3, <2>4 DEF DepositRun
  <2>7. CallTypes'
    BY <1>1, <1>2, <2>2, <2>6 DEF CallTypes, DepositRun, BankUnchanged
  <2>8. AnswersInOrder'
    BY <1>1, <1>2, <2>2, <2>3, <2>4, <2>6 DEF AnswersInOrder, BankUnchanged
  <2>9. QED
    BY <1>2, <1>3, <2>5, <2>7, <2>8, DialogStep
<1>5. CASE Deposit!DepositFails(d)
  <2>1. depositStatus' = "error" /\ initError' = TRUE /\ UNCHANGED depositTimers
    BY <1>5 DEF Deposit!DepositFails
  <2>2. DialogTypes' /\ CallTypes' /\ AnswersInOrder'
    BY <1>1, <1>2, <2>1 DEF DialogTypes, CallTypes, DepositRun, AnswersInOrder, BankUnchanged
  <2>3. QED
    BY <1>2, <1>3, <2>2, DialogStep
<1>6. QED
  BY <1>4, <1>5

(* The timers that end a deposit on the screen keep it.                    *)
LEMMA TimerKeeps ==
    ASSUME DepositInv, NEW t \in depositTimers,
           Deposit!HandlePaymentSuccess(t) \/ Deposit!SimulatedRefusal(t)
    PROVE  DepositInv'
<1>1. /\ DialogTypes /\ CallTypes /\ BankTypes /\ PressesInOrder /\ AnswersInOrder
  BY DEF DepositInv
<1>2. /\ depositTimers' = depositTimers \ {t}
      /\ UNCHANGED <<loadingPage, amount, depositDialog, inits, deposits, presses>>
      /\ BankUnchanged
  BY DEF Deposit!HandlePaymentSuccess, Deposit!SimulatedRefusal, Deposit!opened, Deposit!bank,
     Deposit!keys, BankUnchanged
<1>3. DialogTypes'
  <2>1. 0 \in 0..Len(intents)
    BY <1>1 DEF BankTypes
  <2>2. CASE Deposit!HandlePaymentSuccess(t)
    BY <1>1, <1>2, <2>1, <2>2 DEF DialogTypes, Deposit!HandlePaymentSuccess,
       Deposit!Closed, Deposit!ClearResult, BankUnchanged
  <2>3. CASE Deposit!SimulatedRefusal(t)
    BY <1>1, <1>2, <2>1, <2>3 DEF DialogTypes, Deposit!SimulatedRefusal, Deposit!opened,
       BankUnchanged
  <2>4. QED
    BY <2>2, <2>3
<1>4. CallTypes' /\ PressesInOrder' /\ AnswersInOrder'
  BY <1>1, <1>2 DEF CallTypes, DepositRun, PressesInOrder, AnswersInOrder, BankUnchanged
<1>5. QED
  BY <1>2, <1>3, <1>4, DialogStep

(* Every step of the deposit keeps its invariant.                          *)
LEMMA DepositStep == DepositInv /\ (Deposit!Next \/ UNCHANGED depositVars) => DepositInv'
<1> SUFFICES ASSUME DepositInv, Deposit!Next \/ UNCHANGED depositVars PROVE DepositInv'
  OBVIOUS
<1>1. DialogTypes /\ CallTypes /\ BankTypes /\ PressesInOrder /\ AnswersInOrder
  BY DEF DepositInv
<1>2. CASE Deposit!StartCheckout \/ Deposit!CheckoutEnds \/ UNCHANGED depositVars
  <2>1. /\ UNCHANGED <<isOpen, amount, depositDialog, clientSecret, loading, initError,
                       depositStatus, inits, deposits, depositTimers, presses>>
        /\ loadingPage' \in BOOLEAN /\ BankUnchanged
    BY <1>1, <1>2 DEF Deposit!StartCheckout, Deposit!CheckoutEnds, depositVars, Deposit!opened,
       Deposit!modal, Deposit!calls, Deposit!bank, Deposit!keys, BankUnchanged, DialogTypes
  <2>2. DialogTypes' /\ CallTypes' /\ PressesInOrder' /\ AnswersInOrder'
    BY <1>1, <2>1 DEF DialogTypes, CallTypes, DepositRun, PressesInOrder, AnswersInOrder,
       BankUnchanged
  <2>3. QED
    BY <2>1, <2>2, DialogStep
<1>3. CASE Deposit!TopUp
  BY <1>3, TopUpKeeps
<1>4. CASE Deposit!OnClose
  <2>1. /\ UNCHANGED <<loadingPage, amount, depositDialog, loading, inits, deposits,
                       depositTimers, presses>>
        /\ isOpen' = FALSE /\ clientSecret' = 0 /\ initError' = FALSE /\ depositStatus' = "idle"
        /\ BankUnchanged
    BY <1>4 DEF Deposit!OnClose, Deposit!Closed, Deposit!ClearResult, Deposit!calls,
       Deposit!bank, Deposit!keys, BankUnchanged
  <2>2. 0 \in 0..Len(intents)
    BY <1>1 DEF BankTypes
  <2>3. DialogTypes' /\ CallTypes' /\ PressesInOrder' /\ AnswersInOrder'
    BY <1>1, <2>1, <2>2 DEF DialogTypes, CallTypes, DepositRun, PressesInOrder,
       AnswersInOrder, BankUnchanged
  <2>4. QED
    BY <2>1, <2>3, DialogStep
<1>5. CASE Deposit!IntentAnswered
  BY <1>5, IntentCreatedKeeps, IntentFailedKeeps DEF Deposit!IntentAnswered
<1>6. CASE Deposit!HandleDeposit
  BY <1>6, HandleDepositKeeps
<1>7. CASE Deposit!DepositStep
  BY <1>7, DepositStepKeeps DEF Deposit!DepositStep
<1>8. CASE Deposit!ConfirmPaymentIntent
  BY <1>8, CreditCommitsKeeps, AnswerKeeps, HandlerFailsKeeps DEF Deposit!ConfirmPaymentIntent
<1>9. CASE Deposit!DepositEnds
  BY <1>9, DepositEndsKeeps DEF Deposit!DepositEnds
<1>10. CASE Deposit!TimerFires
  BY <1>10, TimerKeeps DEF Deposit!TimerFires
<1>11. QED
  BY <1>2, <1>3, <1>4, <1>5, <1>6, <1>7, <1>8, <1>9, <1>10 DEF Deposit!Next

(* What the invariant of the deposit says of the claims about it.          *)
LEMMA DepositFacts ==
    ASSUME DepositInv
    PROVE  Deposit!TypeOK /\ Deposit!CreditedTwice /\ Deposit!AnnouncedIsFinal
<1>1. /\ DialogTypes /\ CallTypes /\ BankTypes /\ IntentsCounted
      /\ KeysInOrder /\ PressesInOrder /\ AnswersInOrder
  BY DEF DepositInv
<1>2. Deposit!CreditedTwice
  <2>1. ASSUME NEW i \in DOMAIN credits PROVE credits[i] <= 2 /\ (credits[i] = 2 => i \in doubted)
    <3>1. i \in 1..Len(intents)
      BY <1>1, <2>1 DEF BankTypes
    <3>2. KeysOf(i) /\ (i \notin doubted => credits[i] <= 1)
      BY <1>1, <3>1 DEF KeysInOrder, Sure
    <3>3. QED
      BY <3>2 DEF KeysOf
  <2>2. QED
    BY <2>1 DEF Deposit!CreditedTwice
<1>3. Deposit!AnnouncedIsFinal
  <2>1. ASSUME NEW t \in depositTimers, t.kind = "close"
        PROVE  credits[t.intent] > 0 /\ confirmKey[t.intent] = "completed"
    <3>1. confirmKey[t.intent] = "completed" /\ t.intent \in 1..Len(intents)
      BY <1>1, <2>1 DEF AnswersInOrder, CallTypes, BankTypes
    <3>2. KeysOf(t.intent)
      BY <1>1, <3>1 DEF KeysInOrder
    <3>3. QED
      BY <3>1, <3>2 DEF KeysOf
  <2>2. QED
    BY <2>1 DEF Deposit!AnnouncedIsFinal
<1>4. /\ credits \in [1..Len(intents) -> Nat]
      /\ topupKey \in [1..Len(intents) -> Deposit!KeyStatus]
      /\ confirmKey \in [1..Len(intents) -> Deposit!KeyStatus]
  BY <1>1 DEF BankTypes
<1>5. Len(intents) <= MaxDialogs
  <2>1. Len(intents) \in Nat /\ Cardinality(inits) \in Nat
    BY <1>1, FS_CardinalityType DEF BankTypes, IntentsCounted
  <2>2. QED
    BY <1>1, <2>1, DepositConstants DEF IntentsCounted, DialogTypes
<1>6. Deposit!TypeOK
  BY <1>1, <1>4, <1>5 DEF Deposit!TypeOK, DialogTypes, CallTypes, DepositRun, BankTypes
<1>7. QED
  BY <1>2, <1>3, <1>6

(* A customer who waits has one dialog in hand: its intent is asked for    *)
(* before anything else goes on and is of the amount displayed, and the    *)
(* deposits and the timers are those of this dialog.                       *)
PatientInv ==
    /\ inits # {} => isOpen /\ clientSecret = 0 /\ deposits = {} /\ depositTimers = {}
    /\ \A p, q \in inits : p = q
    /\ \A q \in inits : q.amount = amount
    /\ clientSecret # 0 => isOpen /\ intents[clientSecret] = amount
    /\ \A d \in deposits : intents[d.intent] = d.shown /\ d.dialog = depositDialog
    /\ \A t \in depositTimers : t.dialog = depositDialog
    /\ DepositPatient!SuccessOfThisDialog

(* Every step keeps it.                                                    *)
LEMMA PatientStep ==
    ASSUME DialogTypes, CallTypes, BankTypes, PatientInv,
           DepositPatient!Next \/ UNCHANGED depositVars
    PROVE  PatientInv'
<1>1. ASSUME UNCHANGED <<isOpen, amount, depositDialog, clientSecret, depositStatus, inits,
                         deposits, depositTimers, intents>>
      PROVE  PatientInv'
  BY <1>1 DEF PatientInv, DepositPatient!SuccessOfThisDialog
<1>2. CASE \/ DepositPatient!StartCheckout \/ DepositPatient!CheckoutEnds
           \/ UNCHANGED depositVars
  BY <1>1, <1>2 DEF DepositPatient!StartCheckout, DepositPatient!CheckoutEnds,
     DepositPatient!opened, DepositPatient!modal, DepositPatient!calls, DepositPatient!bank,
     depositVars
<1>3. CASE DepositPatient!TopUp
  <2>1. PICK q : q = [amount |-> amount', dialog |-> depositDialog']
    OBVIOUS
  <2>2. /\ ~isOpen /\ DepositPatient!Quiet /\ isOpen' = TRUE /\ depositStatus' = "idle"
        /\ inits' = inits \cup {q}
        /\ UNCHANGED <<clientSecret, deposits, depositTimers, intents>>
    BY <1>3, <2>1 DEF DepositPatient!TopUp, DepositPatient!ClearResult, DepositPatient!bank
  <2>3. clientSecret = 0 /\ q.amount = amount'
    BY <2>1, <2>2 DEF PatientInv
  <2>4. QED
    BY <2>2, <2>3 DEF DepositPatient!Quiet, PatientInv, DepositPatient!SuccessOfThisDialog
<1>4. CASE DepositPatient!OnClose
  <2>1. /\ DepositPatient!Quiet /\ isOpen' = FALSE /\ clientSecret' = 0
        /\ UNCHANGED <<inits, deposits, depositTimers>>
    BY <1>4 DEF DepositPatient!OnClose, DepositPatient!Closed, DepositPatient!calls
  <2>2. QED
    BY <2>1 DEF DepositPatient!Quiet, PatientInv, DepositPatient!SuccessOfThisDialog
<1>5. ASSUME NEW q \in inits, DepositPatient!IntentCreated(q) PROVE PatientInv'
  <2>1. /\ inits' = inits \ {q} /\ intents' = Append(intents, q.amount)
        /\ clientSecret' = Len(intents')
        /\ UNCHANGED <<isOpen, amount, depositDialog, depositStatus, deposits, depositTimers>>
    BY <1>5 DEF DepositPatient!IntentCreated, DepositPatient!opened
  <2>2. /\ isOpen /\ deposits = {} /\ depositTimers = {} /\ inits' = {} /\ q.amount = amount
    BY <2>1 DEF PatientInv
  <2>3. q.amount \in Amounts /\ intents \in Seq(Amounts)
    BY DEF CallTypes, BankTypes
  <2>4. intents'[clientSecret'] = amount
    BY <2>1, <2>2, <2>3
  <2>5. QED
    BY <2>1, <2>2, <2>4 DEF PatientInv, DepositPatient!SuccessOfThisDialog
<1>6. ASSUME NEW q \in inits, DepositPatient!IntentFailed(q) PROVE PatientInv'
  <2>1. /\ inits' = inits \ {q}
        /\ UNCHANGED <<isOpen, amount, depositDialog, clientSecret, depositStatus, deposits,
                       depositTimers, intents>>
    BY <1>6 DEF DepositPatient!IntentFailed, DepositPatient!opened, DepositPatient!bank
  <2>2. QED
    BY <2>1 DEF PatientInv, DepositPatient!SuccessOfThisDialog
<1>7. CASE DepositPatient!HandleDeposit
  <2>1. PICK t, d :
          /\ t = [n |-> presses', kind |-> "refuse", intent |-> 0, dialog |-> depositDialog]
          /\ d = [n |-> presses', intent |-> clientSecret, dialog |-> depositDialog,
                  shown |-> amount, attempt |-> 0, stage |-> "method"]
    OBVIOUS
  <2>2. /\ clientSecret # 0 /\ depositStatus' = "idle"
        /\ \/ depositTimers' = depositTimers \cup {t} /\ UNCHANGED deposits
           \/ deposits' = deposits \cup {d} /\ UNCHANGED depositTimers
        /\ UNCHANGED <<isOpen, amount, depositDialog, clientSecret, inits, intents>>
    BY <1>7, <2>1 DEF DepositPatient!HandleDeposit, DepositPatient!opened, DepositPatient!bank
  <2>3. /\ t.dialog = depositDialog
        /\ d.dialog = depositDialog /\ d.intent = clientSecret /\ d.shown = amount
    BY <2>1
  <2>4. inits = {} /\ intents[clientSecret] = amount
    BY <2>2 DEF PatientInv
  <2>5. QED
    BY <2>2, <2>3, <2>4 DEF PatientInv, DepositPatient!SuccessOfThisDialog
<1>8. ASSUME NEW d \in deposits,
             DepositPatient!CreatePaymentMethod(d) \/ DepositPatient!ConfirmAgain(d)
      PROVE  PatientInv'
  <2>1. PICK e : /\ deposits' = (deposits \ {d}) \cup {e}
                 /\ e = [d EXCEPT !.stage = "confirm"]
                    \/ e = [d EXCEPT !.attempt = @ + 1, !.stage = "confirm"]
    BY <1>8 DEF DepositPatient!CreatePaymentMethod, DepositPatient!ConfirmAgain,
       DepositPatient!Becomes
  <2>2. UNCHANGED <<isOpen, amount, depositDialog, clientSecret, depositStatus, inits,
                    depositTimers, intents>>
    BY <1>8 DEF DepositPatient!CreatePaymentMethod, DepositPatient!ConfirmAgain,
       DepositPatient!Confirm, DepositPatient!opened, DepositPatient!modal
  <2>3. e.dialog = d.dialog /\ e.intent = d.intent /\ e.shown = d.shown
    BY <2>1 DEF CallTypes, DepositRun
  <2>4. inits = {}
    BY DEF PatientInv
  <2>5. QED
    BY <2>1, <2>2, <2>3, <2>4 DEF PatientInv, DepositPatient!SuccessOfThisDialog
<1>12. ASSUME NEW h \in confirmations,
              \/ DepositPatient!CreditCommits(h) \/ DepositPatient!KeyCommits(h)
              \/ DepositPatient!Replayed(h) \/ DepositPatient!HandlerFails(h)
       PROVE  PatientInv'
  <2>1. UNCHANGED <<isOpen, amount, depositDialog, clientSecret, depositStatus, inits,
                    depositTimers, intents>>
    BY <1>12 DEF DepositPatient!CreditCommits, DepositPatient!KeyCommits,
       DepositPatient!Replayed, DepositPatient!HandlerFails, DepositPatient!opened,
       DepositPatient!modal, DepositPatient!calls
  <2>2. \/ UNCHANGED deposits
        \/ Deposit!Reported(h)
    BY <1>12 DEF DepositPatient!CreditCommits, DepositPatient!KeyCommits,
       DepositPatient!Replayed, DepositPatient!HandlerFails, DepositPatient!calls,
       DepositPatient!Reported, Deposit!Reported
  <2>3. \A e \in deposits' : \E d \in deposits :
          e.intent = d.intent /\ e.dialog = d.dialog /\ e.shown = d.shown
    BY <2>2, ReportedDeposits
  <2>4. deposits = {} => deposits' = {}
    BY <2>3
  <2>5. QED
    BY <2>1, <2>3, <2>4 DEF PatientInv, DepositPatient!SuccessOfThisDialog
<1>9. ASSUME NEW d \in deposits,
             DepositPatient!DepositSucceeds(d) \/ DepositPatient!DepositFails(d)
      PROVE  PatientInv'
  <2>1. inits = {} /\ d.dialog = depositDialog
    BY DEF PatientInv
  <2>2. /\ deposits' = deposits \ {d}
        /\ UNCHANGED <<isOpen, amount, depositDialog, clientSecret, inits, intents>>
    BY <1>9 DEF DepositPatient!DepositSucceeds, DepositPatient!DepositFails,
       DepositPatient!opened, DepositPatient!bank
  <2>3. CASE DepositPatient!DepositSucceeds(d)
    <3>1. PICK t : t = [n |-> d.n, kind |-> "close", intent |-> d.intent, dialog |-> d.dialog]
      OBVIOUS
    <3>2. depositTimers' = depositTimers \cup {t} /\ t.kind = "close" /\ t.dialog = depositDialog
      BY <2>1, <2>3, <3>1 DEF DepositPatient!DepositSucceeds
    <3>3. QED
      BY <2>1, <2>2, <3>2 DEF PatientInv, DepositPatient!SuccessOfThisDialog
  <2>4. CASE DepositPatient!DepositFails(d)
    <3>1. depositStatus' = "error" /\ UNCHANGED depositTimers
      BY <2>4 DEF DepositPatient!DepositFails
    <3>2. QED
      BY <2>1, <2>2, <3>1 DEF PatientInv, DepositPatient!SuccessOfThisDialog
  <2>5. QED
    BY <1>9, <2>3, <2>4
<1>10. ASSUME NEW t \in depositTimers,
              DepositPatient!HandlePaymentSuccess(t) \/ DepositPatient!SimulatedRefusal(t)
       PROVE  PatientInv'
  <2>1. inits = {}
    BY DEF PatientInv
  <2>2. /\ depositTimers' = depositTimers \ {t}
        /\ UNCHANGED <<amount, depositDialog, inits, deposits, intents>>
    BY <1>10 DEF DepositPatient!HandlePaymentSuccess, DepositPatient!SimulatedRefusal,
       DepositPatient!opened, DepositPatient!bank
  <2>3. CASE DepositPatient!HandlePaymentSuccess(t)
    <3>1. ~isOpen' /\ clientSecret' = 0
      BY <2>3 DEF DepositPatient!HandlePaymentSuccess, DepositPatient!Closed, PatientInv
    <3>2. QED
      BY <2>1, <2>2, <3>1 DEF PatientInv, DepositPatient!SuccessOfThisDialog
  <2>4. CASE DepositPatient!SimulatedRefusal(t)
    <3>1. depositStatus' = "error" /\ UNCHANGED <<isOpen, clientSecret>>
      BY <2>4 DEF DepositPatient!SimulatedRefusal, DepositPatient!opened
    <3>2. QED
      BY <2>1, <2>2, <3>1 DEF PatientInv, DepositPatient!SuccessOfThisDialog
  <2>5. QED
    BY <1>10, <2>3, <2>4
<1>11. QED
  BY <1>2, <1>3, <1>4, <1>5, <1>6, <1>7, <1>8, <1>9, <1>10, <1>12 DEF DepositPatient!Next,
     DepositPatient!IntentAnswered, DepositPatient!DepositStep, DepositPatient!DepositEnds,
     DepositPatient!ConfirmPaymentIntent,
     DepositPatient!TimerFires

(* At first nothing is asked for; and what the invariant says of the       *)
(* claims.                                                                 *)
LEMMA PatientFacts ==
    /\ DepositPatient!Init => PatientInv
    /\ PatientInv => DepositPatient!DepositsWhatIsShown /\ DepositPatient!SuccessOfThisDialog
<1>1. DepositPatient!Init => PatientInv
  BY DEF DepositPatient!Init, PatientInv, DepositPatient!SuccessOfThisDialog
<1>2. QED
  BY <1>1 DEF PatientInv, DepositPatient!DepositsWhatIsShown

-----------------------------------------------------------------------------
(* Payment requests.                                                       *)

(* Where a call can be between its read of the request and its end.        *)
RequestCalls ==
    /\ DOMAIN attempt = Attempt
    /\ \A a \in Attempt : attempt[a] # Nothing => attempt[a] \in Requests!Call

(* A request that two calls never had in hand together: it is in one hand  *)
(* at most, nothing was paid for it before the payment that is in hand, or *)
(* before it left the state pending, and nothing after that.               *)
HandledAlone(r) ==
    /\ \A a, b \in Requests!InHand(r) : a = b
    /\ \A a \in Requests!InHand(r) : attempt[a].op = "pay" => Requests!PaidBy(r) = {}
    /\ requestStatus[r] \in Requests!Pending \cup {Nothing} => Requests!PaidBy(r) = {}
    /\ \A a, b \in Requests!PaidBy(r) : a = b

PaidOnceInv ==
    /\ RequestCalls
    /\ \A r \in RequestId : requestStatus[r] = Nothing => Requests!InHand(r) = {}
    /\ \A r \in RequestId \ overlapped : HandledAlone(r)

PaidInv ==
    /\ requestStatus \in [RequestId -> Requests!Status \cup {Nothing}]
    /\ requestBalance \in 0..RequestOpening
    /\ moved \in [RequestId -> Nat]
    /\ Requests!PaidIsMoved

-----------------------------------------------------------------------------
(* Before the first request, nothing is moved and nothing is paid.         *)
LEMMA PaidInit == Requests!Init => PaidInv
  BY RequestConstants DEF Requests!Init, PaidInv, Requests!PaidIsMoved, Requests!Status, Requests!Pending

(* Paying one takes one off a balance that has it.                         *)
LEMMA OnePaid ==
    ASSUME NEW seen \in 0..RequestOpening, seen >= 1
    PROVE  seen - 1 \in 0..RequestOpening
  BY RequestConstants

(* Every step keeps the requests paid in agreement with the money moved.   *)
LEMMA PaidStep ==
    RequestCalls /\ PaidInv /\ (Requests!Next \/ UNCHANGED requestVars) => PaidInv'
<1> SUFFICES ASSUME RequestCalls, PaidInv, Requests!Next \/ UNCHANGED requestVars
             PROVE  PaidInv'
  OBVIOUS
<1> USE DEF PaidInv, Requests!PaidIsMoved
<1>0. ASSUME UNCHANGED <<requestStatus, requestBalance, moved>> PROVE PaidInv'
  BY <1>0
<1>1. ASSUME NEW r \in RequestId, Requests!HandleSubmit(r) PROVE PaidInv'
  BY <1>1 DEF Requests!HandleSubmit, Requests!Status, Requests!Pending
<1>2. ASSUME NEW a \in Attempt, NEW r \in RequestId, Requests!PayByHand(a, r) PROVE PaidInv'
  BY <1>0, <1>2 DEF Requests!PayByHand, Requests!Begin
<1>3. ASSUME NEW u \in Requests!User, Requests!Load(u) PROVE PaidInv'
  BY <1>0, <1>3 DEF Requests!Load
<1>4. ASSUME NEW a \in Attempt, NEW r \in RequestId, Requests!ValidatePaymentRequest(a, r) PROVE PaidInv'
  BY <1>0, <1>4 DEF Requests!ValidatePaymentRequest, Requests!Begin
<1>5. ASSUME NEW a \in Attempt, NEW r \in RequestId, Requests!DeclineReads(a, r) PROVE PaidInv'
  BY <1>0, <1>5 DEF Requests!DeclineReads, Requests!Begin
<1>6. ASSUME NEW a \in Attempt, Requests!FetchAccounts(a) \/ Requests!LockAccounts(a)
      PROVE  PaidInv'
  BY <1>0, <1>6 DEF Requests!FetchAccounts, Requests!LockAccounts
<1>7. ASSUME NEW a \in Attempt, Requests!Pay(a) PROVE PaidInv'
  <2>1. attempt[a].request \in RequestId /\ attempt[a].seen \in 0..RequestOpening
    BY <1>7 DEF Requests!Pay, RequestCalls, Requests!Call
  <2>2. /\ moved' = [moved EXCEPT ![attempt[a].request] = @ + 1]
        /\ \/ requestStatus' = [requestStatus EXCEPT ![attempt[a].request] = "paid"]
           \/ requestStatus' = requestStatus
        /\ attempt[a].seen >= 1 /\ requestBalance' = attempt[a].seen - 1
    <3>1. CASE attempt[a].op = "pay"
      BY <1>7, <3>1 DEF Requests!Pay
    <3>2. CASE attempt[a].op # "pay"
      BY <1>7, <2>1, <3>2 DEF Requests!Pay
    <3>3. QED
      BY <3>1, <3>2
  <2>3. requestBalance' \in 0..RequestOpening
    BY <2>1, <2>2, OnePaid
  <2>4. QED
    BY <2>1, <2>2, <2>3 DEF Requests!Status
<1>8. ASSUME NEW a \in Attempt, Requests!Refuse(a) PROVE PaidInv'
  BY <1>0, <1>8 DEF Requests!Refuse
<1>9. ASSUME NEW a \in Attempt, Requests!DeclineCommits(a) PROVE PaidInv'
  <2>1. attempt[a].request \in RequestId
    BY <1>9 DEF Requests!DeclineCommits, RequestCalls, Requests!Call
  <2>2. /\ moved' = moved /\ requestBalance' = requestBalance
        /\ requestStatus' = [requestStatus EXCEPT ![attempt[a].request] = "declined"]
    BY <1>9 DEF Requests!DeclineCommits
  <2>3. QED
    BY <2>1, <2>2 DEF Requests!Status
<1>10. ASSUME UNCHANGED requestVars PROVE PaidInv'
  BY <1>0, <1>10 DEF requestVars
<1>11. QED
  BY <1>1, <1>2, <1>3, <1>4, <1>5, <1>6, <1>7, <1>8, <1>9, <1>10 DEF Requests!Next

-----------------------------------------------------------------------------
(* Before the first request no payment is in hand.                         *)
LEMMA PaidOnceInit == Requests!Init => PaidOnceInv
  BY DEF Requests!Init, PaidOnceInv, RequestCalls, HandledAlone, Requests!InHand, Requests!PaidBy

(* A call that goes from one point to another, for the same request.       *)
LEMMA CallMovedOn ==
    ASSUME RequestCalls, NEW a \in Attempt, attempt[a] # Nothing,
           NEW there \in {"fetched", "locked", "done", "refused"},
           NEW copy \in 0..RequestOpening,
           attempt' = [attempt EXCEPT ![a].at = there, ![a].seen = copy]
    PROVE  /\ RequestCalls'
           /\ attempt'[a] # Nothing /\ attempt'[a].at = there
           /\ attempt'[a].op = attempt[a].op /\ attempt'[a].request = attempt[a].request
           /\ \A b \in Attempt \ {a} : attempt'[b] = attempt[b]
<1>1. /\ DOMAIN attempt' = Attempt /\ \A b \in Attempt \ {a} : attempt'[b] = attempt[b]
      /\ attempt'[a] = [attempt[a] EXCEPT !.at = there, !.seen = copy]
      /\ attempt[a] \in Requests!Call
  BY DEF RequestCalls
<1>2. /\ attempt'[a] \in Requests!Call /\ attempt'[a].at = there
      /\ attempt'[a].op = attempt[a].op /\ attempt'[a].request = attempt[a].request
  BY <1>1 DEF Requests!Call
<1>3. QED
  BY <1>1, <1>2, RequestConstants DEF RequestCalls

(* A call that begins is in hand for its own request and for no other.     *)
LEMMA CallBegun ==
    ASSUME RequestCalls, NEW a \in Attempt, NEW r \in RequestId,
           NEW op \in {"pay", "decline", "byHand"}, Requests!Begin(a, op, r)
    PROVE  /\ RequestCalls'
           /\ Requests!InHand(r)' = IF op = "byHand" THEN Requests!InHand(r)
                                    ELSE Requests!InHand(r) \cup {a}
           /\ \A q \in RequestId \ {r} : Requests!InHand(q)' = Requests!InHand(q)
           /\ \A q \in RequestId : Requests!PaidBy(q)' = Requests!PaidBy(q)
           /\ \A b \in Attempt \ {a} : attempt'[b] = attempt[b]
           /\ attempt'[a].op = op
<1>1. PICK c : c = [op |-> op, request |-> r, seen |-> 0, at |-> "read"]
  OBVIOUS
<1>2. /\ attempt[a] = Nothing /\ attempt'[a] = c
      /\ \A b \in Attempt \ {a} : attempt'[b] = attempt[b]
      /\ DOMAIN attempt' = Attempt
  BY <1>1 DEF RequestCalls, Requests!Begin
<1>3. /\ c \in Requests!Call /\ c # Nothing
      /\ c.op = op /\ c.request = r /\ c.at = "read"
  BY <1>1, RequestConstants DEF Requests!Call
<1>4. RequestCalls'
  BY <1>2, <1>3 DEF RequestCalls
<1>5. \A q \in RequestId : Requests!PaidBy(q)' = Requests!PaidBy(q)
  BY <1>2, <1>3 DEF Requests!PaidBy
<1>6. ASSUME NEW q \in RequestId, NEW b \in Attempt
      PROVE  b \in Requests!InHand(q)' <=>
               b \in Requests!InHand(q) \/ (b = a /\ q = r /\ op # "byHand")
  BY <1>2, <1>3 DEF Requests!InHand
<1>7. \A q \in RequestId : Requests!InHand(q)' \subseteq Attempt /\ Requests!InHand(q) \subseteq Attempt
  BY DEF Requests!InHand
<1>8. QED
  BY <1>2, <1>3, <1>4, <1>5, <1>6, <1>7

(* Every step keeps what is known of the requests handled by one call at a *)
(* time.                                                                   *)
LEMMA PaidOnceStep == PaidInv /\ PaidOnceInv /\ (Requests!Next \/ UNCHANGED requestVars) => PaidOnceInv'
<1> SUFFICES ASSUME PaidInv, PaidOnceInv, (Requests!Next \/ UNCHANGED requestVars) PROVE PaidOnceInv'
  OBVIOUS
<1>0. /\ RequestCalls /\ requestStatus \in [RequestId -> Requests!Status \cup {Nothing}]
      /\ \A r \in RequestId : requestStatus[r] = Nothing => Requests!InHand(r) = {}
      /\ \A r \in RequestId \ overlapped : HandledAlone(r)
  BY DEF PaidOnceInv, PaidInv
<1>1. ASSUME UNCHANGED <<requestStatus, attempt, overlapped>> PROVE PaidOnceInv'
  BY <1>0, <1>1 DEF PaidOnceInv, RequestCalls, HandledAlone, Requests!InHand, Requests!PaidBy
<1>2. ASSUME NEW r \in RequestId, Requests!HandleSubmit(r) PROVE PaidOnceInv'
  <2>1. /\ requestStatus[r] = Nothing /\ requestStatus' = [requestStatus EXCEPT ![r] = "pending_target"]
        /\ UNCHANGED <<attempt, overlapped>>
    BY <1>2 DEF Requests!HandleSubmit
  <2>2. \A q \in RequestId : Requests!InHand(q)' = Requests!InHand(q) /\ Requests!PaidBy(q)' = Requests!PaidBy(q)
    BY <2>1 DEF Requests!InHand, Requests!PaidBy
  <2>3. \A q \in RequestId : requestStatus'[q] \in Requests!Pending \cup {Nothing} => requestStatus[q] \in Requests!Pending \cup {Nothing}
    BY <1>0, <2>1
  <2>4. \A q \in RequestId : requestStatus'[q] = Nothing => requestStatus[q] = Nothing
    BY <1>0, <2>1, RequestConstants DEF Requests!Status, Requests!Pending
  <2>5. QED
    BY <1>0, <2>1, <2>2, <2>3, <2>4 DEF PaidOnceInv, RequestCalls, HandledAlone
<1>4. ASSUME NEW u \in Requests!User, Requests!Load(u) PROVE PaidOnceInv'
  BY <1>1, <1>4 DEF Requests!Load
<1>5. ASSUME NEW a \in Attempt, NEW r \in RequestId, NEW op \in {"pay", "decline", "byHand"},
             Requests!Begin(a, op, r), op # "byHand" => requestStatus[r] # Nothing,
             op = "pay" => requestStatus[r] \in Requests!Pending
      PROVE  PaidOnceInv'
  <2>1. /\ UNCHANGED requestStatus
        /\ overlapped' = IF op # "byHand" /\ Requests!InHand(r) # {} THEN overlapped \cup {r}
                         ELSE overlapped
    BY <1>5 DEF Requests!Begin
  <2>2. /\ RequestCalls'
        /\ op # "byHand" => Requests!InHand(r)' = Requests!InHand(r) \cup {a}
        /\ op = "byHand" => Requests!InHand(r)' = Requests!InHand(r)
        /\ \A q \in RequestId \ {r} : Requests!InHand(q)' = Requests!InHand(q)
        /\ \A q \in RequestId : Requests!PaidBy(q)' = Requests!PaidBy(q)
        /\ \A b \in Attempt \ {a} : attempt'[b] = attempt[b]
        /\ attempt'[a].op = op /\ attempt[a] = Nothing
    BY <1>0, <1>5, CallBegun DEF Requests!Begin
  <2>3. ASSUME NEW q \in RequestId \ overlapped' PROVE HandledAlone(q)'
    <3>1. q \notin overlapped /\ HandledAlone(q)
      BY <1>0, <2>1, <2>3
    <3>2. CASE q = r /\ op # "byHand"
      <4>1. Requests!InHand(r)' = {a}
        BY <2>1, <2>2, <2>3, <3>2
      <4>2. op = "pay" => Requests!PaidBy(r) = {}
        BY <1>5, <3>1, <3>2 DEF HandledAlone
      <4>3. QED
        BY <2>1, <2>2, <3>1, <3>2, <4>1, <4>2 DEF HandledAlone
    <3>3. CASE q # r \/ op = "byHand"
      <4>1. Requests!InHand(q)' = Requests!InHand(q) /\ Requests!PaidBy(q)' = Requests!PaidBy(q)
        BY <2>2, <3>3
      <4>2. \A b \in Requests!InHand(q) : b # a
        BY <2>2 DEF Requests!InHand
      <4>3. \A b \in Requests!InHand(q) : attempt'[b] = attempt[b]
        BY <2>2, <4>2 DEF Requests!InHand
      <4>4. QED
        BY <2>1, <3>1, <4>1, <4>3 DEF HandledAlone
    <3>4. QED
      BY <3>2, <3>3
  <2>4. \A q \in RequestId : requestStatus'[q] = Nothing => Requests!InHand(q)' = {}
    BY <1>0, <1>5, <2>1, <2>2
  <2>5. QED
    BY <2>2, <2>3, <2>4 DEF PaidOnceInv
<1>6. ASSUME NEW a \in Attempt, NEW r \in RequestId, Requests!ValidatePaymentRequest(a, r) PROVE PaidOnceInv'
  <2>1. requestStatus[r] \in Requests!Pending /\ Requests!Begin(a, "pay", r)
    BY <1>6 DEF Requests!ValidatePaymentRequest
  <2>2. requestStatus[r] # Nothing
    BY <2>1, RequestConstants DEF Requests!Status
  <2>3. QED
    BY <1>5, <2>1, <2>2
<1>7. ASSUME NEW a \in Attempt, NEW r \in RequestId, Requests!DeclineReads(a, r) PROVE PaidOnceInv'
  BY <1>5, <1>7 DEF Requests!DeclineReads
<1>3. ASSUME NEW a \in Attempt, NEW r \in RequestId, Requests!PayByHand(a, r) PROVE PaidOnceInv'
  BY <1>5, <1>3 DEF Requests!PayByHand
<1>8. ASSUME NEW a \in Attempt, attempt[a] # Nothing,
             attempt[a].at \in {"read", "fetched", "locked"},
             NEW there \in {"fetched", "locked", "done", "refused"},
             NEW copy \in 0..RequestOpening,
             attempt' = [attempt EXCEPT ![a].at = there, ![a].seen = copy],
             there = "done" /\ attempt[a].op = "pay" =>
                 requestStatus' = [requestStatus EXCEPT ![attempt[a].request] = "paid"],
             \/ UNCHANGED requestStatus
             \/ requestStatus' = [requestStatus EXCEPT ![attempt[a].request] = "paid"]
             \/ requestStatus' = [requestStatus EXCEPT ![attempt[a].request] = "declined"],
             UNCHANGED overlapped
      PROVE  PaidOnceInv'
  <2> DEFINE r == attempt[a].request
  <2>1. /\ RequestCalls'
        /\ attempt'[a] # Nothing /\ attempt'[a].at = there
        /\ attempt'[a].op = attempt[a].op /\ attempt'[a].request = r
        /\ \A b \in Attempt \ {a} : attempt'[b] = attempt[b]
    BY <1>0, <1>8, CallMovedOn
  <2>2. r \in RequestId /\ (attempt[a].op # "byHand" => a \in Requests!InHand(r))
    BY <1>0, <1>8 DEF RequestCalls, Requests!Call, Requests!InHand
  <2>3. \A q \in RequestId : Requests!InHand(q)' \subseteq Requests!InHand(q)
    BY <1>8, <2>1 DEF Requests!InHand
  <2>4. there \notin {"fetched", "locked"} => \A q \in RequestId : a \notin Requests!InHand(q)'
    BY <1>8, <2>1 DEF Requests!InHand
  <2>5. \A q \in RequestId : Requests!PaidBy(q)' = Requests!PaidBy(q)
                           \/ (q = r /\ there = "done" /\ attempt[a].op = "pay"
                               /\ Requests!PaidBy(q)' = Requests!PaidBy(q) \cup {a})
    <3>1. a \notin Requests!PaidBy(r)
      BY <1>8 DEF Requests!PaidBy
    <3>2. ASSUME NEW q \in RequestId, NEW b \in Attempt \ {a}
          PROVE  b \in Requests!PaidBy(q)' <=> b \in Requests!PaidBy(q)
      BY <2>1 DEF Requests!PaidBy
    <3>3. ASSUME NEW q \in RequestId
          PROVE  a \in Requests!PaidBy(q)' <=> q = r /\ there = "done" /\ attempt[a].op = "pay"
      BY <2>1 DEF Requests!PaidBy
    <3>4. \A q \in RequestId : a \notin Requests!PaidBy(q)
      BY <1>8 DEF Requests!PaidBy
    <3>5. \A q \in RequestId : Requests!PaidBy(q) \subseteq Attempt /\ Requests!PaidBy(q)' \subseteq Attempt
      BY DEF Requests!PaidBy
    <3>6. QED
      BY <3>2, <3>3, <3>4, <3>5
  <2>6. ASSUME NEW q \in RequestId
        PROVE  /\ requestStatus'[q] = Nothing => requestStatus[q] = Nothing
               /\ requestStatus'[q] \in Requests!Pending \cup {Nothing} => requestStatus[q] \in Requests!Pending \cup {Nothing}
    <3>1. requestStatus'[q] \in {requestStatus[q], "paid", "declined"}
      BY <1>0, <1>8, <2>2
    <3>2. {"paid", "declined"} \cap (Requests!Pending \cup {Nothing}) = {}
      BY RequestConstants DEF Requests!Status, Requests!Pending
    <3>3. QED
      BY <3>1, <3>2
  <2>7. ASSUME NEW q \in RequestId \ overlapped PROVE HandledAlone(q)'
    <3>1. HandledAlone(q)
      BY <1>0
    <3>2. \A b \in Requests!InHand(q) : attempt'[b].op = attempt[b].op
      BY <2>1 DEF Requests!InHand
    <3>3. CASE Requests!PaidBy(q)' = Requests!PaidBy(q)
      <4>1. Requests!InHand(q)' \subseteq Requests!InHand(q)
        BY <2>3
      <4>2. requestStatus'[q] \in Requests!Pending \cup {Nothing} => requestStatus[q] \in Requests!Pending \cup {Nothing}
        BY <2>6
      <4>3. /\ \A x, y \in Requests!InHand(q)' : x = y
            /\ \A x \in Requests!InHand(q)' : attempt'[x].op = "pay" => Requests!PaidBy(q)' = {}
        BY <3>1, <3>2, <3>3, <4>1 DEF HandledAlone
      <4>4. /\ requestStatus'[q] \in Requests!Pending \cup {Nothing} => Requests!PaidBy(q)' = {}
            /\ \A x, y \in Requests!PaidBy(q)' : x = y
        BY <3>1, <3>3, <4>2 DEF HandledAlone
      <4>5. QED
        BY <4>3, <4>4 DEF HandledAlone
    <3>4. CASE q = r /\ there = "done" /\ attempt[a].op = "pay"
               /\ Requests!PaidBy(q)' = Requests!PaidBy(q) \cup {a}
      <4>1. Requests!PaidBy(q)' = {a} /\ Requests!InHand(q)' = {}
        <5>1. Requests!PaidBy(q) = {} /\ \A x \in Requests!InHand(q) : x = a
          BY <2>2, <3>1, <3>4 DEF HandledAlone
        <5>2. Requests!InHand(q)' \subseteq Requests!InHand(q) /\ a \notin Requests!InHand(q)'
          BY <2>3, <2>4, <3>4
        <5>3. QED
          BY <3>4, <5>1, <5>2
      <4>2. requestStatus'[q] = "paid"
        BY <1>0, <1>8, <2>2, <3>4
      <4>3. requestStatus'[q] \notin Requests!Pending \cup {Nothing}
        BY <4>2, RequestConstants DEF Requests!Status, Requests!Pending
      <4>4. QED
        BY <4>1, <4>3 DEF HandledAlone
    <3>5. QED
      BY <2>5, <3>3, <3>4
  <2>8. ASSUME NEW q \in RequestId, requestStatus'[q] = Nothing PROVE Requests!InHand(q)' = {}
    <3>1. Requests!InHand(q) = {}
      BY <1>0, <2>6, <2>8
    <3>2. Requests!InHand(q)' \subseteq Requests!InHand(q)
      BY <2>3
    <3>3. QED
      BY <3>1, <3>2
  <2>9. QED
    BY <1>8, <2>1, <2>7, <2>8 DEF PaidOnceInv
<1>15. ASSUME NEW a \in Attempt, attempt[a] # Nothing, NEW there,
              attempt' = [attempt EXCEPT ![a].at = there]
       PROVE  /\ attempt' = [attempt EXCEPT ![a].at = there, ![a].seen = attempt[a].seen]
              /\ attempt[a].seen \in 0..RequestOpening
  <2>1. attempt[a] \in Requests!Call /\ DOMAIN attempt = Attempt
    BY <1>0, <1>15 DEF RequestCalls
  <2>2. [attempt[a] EXCEPT !.at = there] = [attempt[a] EXCEPT !.at = there, !.seen = attempt[a].seen]
    BY <2>1 DEF Requests!Call
  <2>3. attempt[a].seen \in 0..RequestOpening
    BY <2>1 DEF Requests!Call
  <2>4. QED
    BY <1>15, <2>1, <2>2, <2>3
<1>9. ASSUME NEW a \in Attempt, Requests!LockAccounts(a) PROVE PaidOnceInv'
  BY <1>8, <1>9, <1>15 DEF Requests!LockAccounts
<1>16. ASSUME NEW a \in Attempt, Requests!FetchAccounts(a) PROVE PaidOnceInv'
  <2>1. requestBalance \in 0..RequestOpening
    BY DEF PaidInv
  <2>2. QED
    BY <1>8, <1>16, <2>1 DEF Requests!FetchAccounts
<1>10. ASSUME NEW a \in Attempt, Requests!Pay(a) PROVE PaidOnceInv'
  <2>1. /\ attempt[a] # Nothing /\ attempt[a].at = "locked" /\ UNCHANGED overlapped
        /\ attempt' = [attempt EXCEPT ![a].at = "done"]
    BY <1>10 DEF Requests!Pay
  <2>2. CASE attempt[a].op = "pay"
    <3>1. requestStatus' = [requestStatus EXCEPT ![attempt[a].request] = "paid"]
      BY <1>10, <2>2 DEF Requests!Pay
    <3>2. QED
      BY <1>8, <1>15, <2>1, <3>1
  <2>3. CASE attempt[a].op # "pay"
    <3>1. UNCHANGED requestStatus
      BY <1>0, <1>10, <2>3 DEF Requests!Pay
    <3>2. QED
      BY <1>8, <1>15, <2>1, <2>3, <3>1
  <2>4. QED
    BY <2>2, <2>3
<1>11. ASSUME NEW a \in Attempt, Requests!Refuse(a) PROVE PaidOnceInv'
  BY <1>8, <1>11, <1>15 DEF Requests!Refuse
<1>12. ASSUME NEW a \in Attempt, Requests!DeclineCommits(a) PROVE PaidOnceInv'
  <2>1. /\ attempt[a] # Nothing /\ attempt[a].at = "read" /\ attempt[a].op = "decline"
        /\ UNCHANGED overlapped /\ attempt' = [attempt EXCEPT ![a].at = "done"]
        /\ requestStatus' = [requestStatus EXCEPT ![attempt[a].request] = "declined"]
    BY <1>12 DEF Requests!DeclineCommits
  <2>2. QED
    BY <1>8, <1>15, <2>1
<1>13. ASSUME UNCHANGED requestVars PROVE PaidOnceInv'
  BY <1>1, <1>13 DEF requestVars
<1>14. QED
  BY <1>2, <1>3, <1>4, <1>6, <1>7, <1>9, <1>10, <1>11, <1>12, <1>13, <1>16 DEF Requests!Next

(* The screens count with the same cardinality.                            *)
LEMMA PaidCount == \A S : Requests!Cardinality(S) = Cardinality(S)
  BY DEF Requests!Cardinality, Cardinality

(* What the two invariants of the requests say of the claims about them.   *)
LEMMA RequestFacts ==
    ASSUME PaidInv, PaidOnceInv PROVE Requests!PaidIsMoved /\ Requests!PaidOnceAlone
<1>1. Requests!PaidIsMoved
  BY DEF PaidInv
<1>2. Requests!PaidOnceAlone
  <2> SUFFICES ASSUME NEW r \in RequestId \ overlapped
               PROVE  Requests!Cardinality(Requests!PaidBy(r)) <= 1
    BY DEF Requests!PaidOnceAlone
  <2>1. \A a, b \in Requests!PaidBy(r) : a = b
    BY DEF PaidOnceInv, HandledAlone
  <2>2. CASE Requests!PaidBy(r) = {}
    BY <2>2, FS_EmptySet, PaidCount
  <2>3. CASE Requests!PaidBy(r) # {}
    <3>1. PICK a : a \in Requests!PaidBy(r)
      BY <2>3
    <3>2. Requests!PaidBy(r) = {a}
      BY <2>1, <3>1
    <3>3. Cardinality(Requests!PaidBy(r)) = 1
      BY <3>2, FS_Singleton
    <3>4. QED
      BY <3>3, PaidCount
  <2>4. QED
    BY <2>2, <2>3
<1>3. QED
  BY <1>1, <1>2

-----------------------------------------------------------------------------
(* Users.                                                                  *)

(* Every deletion under way was confirmed with the email of its user, and  *)
(* whose deletion has succeeded has no account.                            *)
ErasureOf(e) == e = [user |-> e.user, typed |-> MaskOf[e.user], answer |-> e.answer]

UsersInv ==
    /\ \A e \in erasures : ErasureOf(e) /\ (e.answer = "ok" => e.user \notin accounts)
    /\ Users!AnnouncedIsGone

(* Every step keeps it: accounts only go.                                  *)
LEMMA UsersStep == UsersInv /\ (Users!Next \/ UNCHANGED registryVars) => UsersInv'
<1> SUFFICES ASSUME UsersInv, Users!Next \/ UNCHANGED registryVars PROVE UsersInv'
  OBVIOUS
<1>1. ASSUME erasures' \subseteq erasures, accounts' \subseteq accounts, UNCHANGED deleteSuccess
      PROVE  UsersInv'
  BY <1>1 DEF UsersInv, ErasureOf, Users!AnnouncedIsGone, Users!Nobody
<1>2. CASE \/ Users!FetchUsers \/ Users!UsersRead \/ Users!QuickSearch \/ Users!TurnPage
           \/ Users!SelectUser \/ Users!SearchAnswered \/ Users!InitiatePurge
           \/ Users!Proceed \/ Users!Abort \/ Users!TypeConfirmation \/ UNCHANGED registryVars
  BY <1>1, <1>2
  DEF Users!FetchUsers, Users!UsersRead, Users!QuickSearch, Users!TurnPage, Users!SelectUser,
      Users!SearchAnswered, Users!InitiatePurge, Users!Proceed, Users!Abort,
      Users!TypeConfirmation, registryVars
<1>3. CASE Users!HandleSearchUser
  BY <1>3 DEF Users!HandleSearchUser, UsersInv, ErasureOf, Users!AnnouncedIsGone, Users!Nobody
<1>4. CASE Users!HandleDeleteUser
  <2>1. /\ UNCHANGED <<accounts, deleteSuccess>>
        /\ erasures' = erasures \cup
              {[user |-> foundUser, typed |-> MaskOf[foundUser], answer |-> "none"]}
    BY <1>4 DEF Users!HandleDeleteUser, Users!Confirmed
  <2>2. QED
    BY <2>1 DEF UsersInv, ErasureOf, Users!AnnouncedIsGone, Users!Nobody
<1>5. CASE Users!ComplianceDeleteUser
  <2>1. PICK e \in erasures, answers \in {"ok", "missing", "integrity", "failed"} :
             /\ erasures' = (erasures \ {e}) \cup {[e EXCEPT !.answer = answers]}
             /\ accounts' = IF answers = "ok" THEN accounts \ {e.user} ELSE accounts
             /\ UNCHANGED deleteSuccess
    BY <1>5 DEF Users!ComplianceDeleteUser
  <2>2. LET d == [e EXCEPT !.answer = answers]
        IN  ErasureOf(d) /\ d.user = e.user /\ d.answer = answers
    BY DEF UsersInv, ErasureOf
  <2>3. QED
    BY <2>1, <2>2 DEF UsersInv, ErasureOf, Users!AnnouncedIsGone, Users!Nobody
<1>6. CASE Users!DeletionAnswered
  <2>1. PICK e \in erasures :
             /\ erasures' = erasures \ {e} /\ UNCHANGED accounts
             /\ IF e.answer = "ok" THEN deleteSuccess' = e.user ELSE UNCHANGED deleteSuccess
    BY <1>6 DEF Users!DeletionAnswered
  <2>2. QED
    BY <2>1 DEF UsersInv, ErasureOf, Users!AnnouncedIsGone, Users!Nobody
<1>7. QED
  BY <1>2, <1>3, <1>4, <1>5, <1>6 DEF Users!Next

(* At first nobody is erased; and what the invariant says of the claims.   *)
LEMMA UsersFacts ==
    /\ Users!Init => UsersInv
    /\ UsersInv => Users!ErasedWasTyped /\ Users!AnnouncedIsGone
<1>1. Users!Init => UsersInv
  BY DEF Users!Init, UsersInv, Users!AnnouncedIsGone, Users!Nobody
<1>2. UsersInv => Users!ErasedWasTyped
  BY DEF UsersInv, ErasureOf, Users!ErasedWasTyped
<1>3. QED
  BY <1>1, <1>2 DEF UsersInv

-----------------------------------------------------------------------------
(* The pages of users.                                                     *)

(* Whoever is listed is a user, and pages are numbered from 1.             *)
PagesInv ==
    /\ accounts \subseteq PagedUser /\ users \subseteq PagedUser
    /\ reads \subseteq SUBSET PagedUser
    /\ currentPage \in Nat \ {0}

(* There are so many pages.                                                *)
LEMMA PagesCount == PagesInv => UserPages!TotalPages \in Nat
<1> SUFFICES ASSUME PagesInv PROVE UserPages!TotalPages \in Nat
  OBVIOUS
<1>1. \A S : UserPages!Cardinality(S) = Cardinality(S)
  BY DEF UserPages!Cardinality, Cardinality
<1>2. UserPages!FilteredUsers \subseteq PagedUser
  BY DEF PagesInv, UserPages!FilteredUsers
<1>3. Cardinality(UserPages!FilteredUsers) \in Nat
  BY <1>2, PagesConstants, FS_Subset, FS_CardinalityType DEF PagesConstants
<1>4. ASSUME NEW n \in Nat, NEW k \in Nat \ {0} PROVE (n + k - 1) \div k \in Nat
  OBVIOUS
<1>5. QED
  BY <1>1, <1>3, <1>4, PagesConstants DEF PagesConstants, UserPages!TotalPages

(* The window is of numbers from 1, and of pages there are when the        *)
(* current one is.                                                         *)
LEMMA WindowPages ==
    ASSUME NEW current \in Nat \ {0}, NEW total \in Nat
    PROVE  /\ UserPages!PageWindow(current, total) \subseteq Nat \ {0}
           /\ current <= total => /\ UserPages!PageWindow(current, total) \subseteq 1..total
                                  /\ current \in UserPages!PageWindow(current, total)
<1> DEFINE Button(i) ==
        IF total > 5 /\ current > 3
        THEN IF current - 2 + i > total THEN total - (4 - i) ELSE current - 2 + i
        ELSE i + 1
           few == UserPages!AtMost(5, total)
<1>1. few \in Nat /\ few <= 5 /\ few <= total /\ (total >= 5 => few = 5) /\ (total <= 5 => few = total)
  BY DEF UserPages!AtMost
<1>2. UserPages!PageWindow(current, total) = {Button(i) : i \in 0..(few - 1)}
  BY DEF UserPages!PageWindow
<1> HIDE DEF few
<1>3. ASSUME NEW i \in 0..(few - 1)
      PROVE  Button(i) \in Nat \ {0} /\ (current <= total => Button(i) \in 1..total)
  BY <1>1
<1>4. current <= total => \E i \in 0..(few - 1) : current = Button(i)
  <2> SUFFICES ASSUME current <= total PROVE \E i \in 0..(few - 1) : current = Button(i)
    OBVIOUS
  <2>1. CASE total > 5 /\ current > 3
    <3>1. 2 \in 0..(few - 1) /\ current = Button(2)
      BY <1>1, <2>1
    <3>2. QED
      BY <3>1
  <2>2. CASE ~(total > 5 /\ current > 3)
    <3>1. current - 1 \in 0..(few - 1) /\ current = Button(current - 1)
      BY <1>1, <2>2
    <3>2. QED
      BY <3>1
  <2>3. QED
    BY <2>1, <2>2
<1> HIDE DEF Button
<1>5. QED
  BY <1>2, <1>3, <1>4

(* Every step keeps the pages and the users what they are.                 *)
LEMMA PagesStep == PagesInv /\ (UserPages!Next \/ UNCHANGED registryVars) => PagesInv'
<1> SUFFICES ASSUME PagesInv, UserPages!Next \/ UNCHANGED registryVars PROVE PagesInv'
  OBVIOUS
<1>1. ASSUME UNCHANGED <<users, reads, currentPage>>, accounts' \subseteq accounts PROVE PagesInv'
  BY <1>1 DEF PagesInv
<1>2. CASE \/ UserPages!SelectUser \/ UserPages!HandleSearchUser \/ UserPages!SearchAnswered
           \/ UserPages!InitiatePurge \/ UserPages!Proceed \/ UserPages!Abort
           \/ UserPages!TypeConfirmation \/ UserPages!HandleDeleteUser \/ UNCHANGED registryVars
  BY <1>1, <1>2
  DEF UserPages!SelectUser, UserPages!HandleSearchUser, UserPages!SearchAnswered,
      UserPages!InitiatePurge, UserPages!Proceed, UserPages!Abort,
      UserPages!TypeConfirmation, UserPages!HandleDeleteUser, UserPages!page, registryVars
<1>3. CASE UserPages!ComplianceDeleteUser
  <2>1. accounts' \subseteq accounts /\ UNCHANGED <<users, reads, currentPage>>
    BY <1>3 DEF UserPages!ComplianceDeleteUser, UserPages!page
  <2>2. QED
    BY <1>1, <2>1
<1>4. CASE UserPages!FetchUsers
  BY <1>4 DEF UserPages!FetchUsers, UserPages!page, PagesInv
<1>5. CASE UserPages!UsersRead
  BY <1>5 DEF UserPages!UsersRead, PagesInv
<1>6. CASE UserPages!QuickSearch
  BY <1>6 DEF UserPages!QuickSearch, PagesInv
<1>7. CASE UserPages!TurnPage
  <2> DEFINE total == UserPages!TotalPages
  <2>1. /\ UNCHANGED <<accounts, users, reads>> /\ total > 1
        /\ \/ currentPage' \in UserPages!PageWindow(currentPage, total)
           \/ currentPage # 1 /\ currentPage' = currentPage - 1
           \/ currentPage' = UserPages!AtMost(currentPage + 1, total)
    BY <1>7 DEF UserPages!TurnPage
  <2>2. currentPage \in Nat \ {0} /\ total \in Nat
    BY PagesCount DEF PagesInv
  <2> HIDE DEF total
  <2>3. currentPage' \in Nat \ {0}
    BY <2>1, <2>2, WindowPages DEF UserPages!AtMost
  <2>4. QED
    BY <2>1, <2>3 DEF PagesInv
<1>8. CASE UserPages!DeletionAnswered
  <2>1. /\ UNCHANGED <<accounts, users, currentPage>>
        /\ reads' = reads \/ reads' = reads \cup {accounts}
    BY <1>8 DEF UserPages!DeletionAnswered, UserPages!page
  <2>2. QED
    BY <2>1 DEF PagesInv
<1>9. QED
  BY <1>2, <1>3, <1>4, <1>5, <1>6, <1>7, <1>8 DEF UserPages!Next

(* At first the first page is shown; and what the invariant says.          *)
LEMMA PagesFacts == (UserPages!Init => PagesInv) /\ (PagesInv => UserPages!WindowUsable)
<1>1. UserPages!Init => PagesInv
  BY DEF UserPages!Init, PagesInv
<1>2. ASSUME PagesInv PROVE UserPages!WindowUsable
  <2>1. currentPage \in Nat \ {0} /\ UserPages!TotalPages \in Nat
    BY <1>2, PagesCount DEF PagesInv
  <2>2. QED
    BY <2>1, WindowPages DEF UserPages!WindowUsable
<1>3. QED
  BY <1>1, <1>2

-----------------------------------------------------------------------------
(* Cards.  The hub in several tabs and the preview in one are the same     *)
(* page: what is known of a tab is said of any set of tabs.                *)

CardOf(c) == c = [id |-> c.id, isFrozen |-> c.isFrozen, limit |-> c.limit]
Ids(s) == {c.id : c \in s}
Latest(s) == [i \in Ids(s) |-> CHOOSE c \in s : c.id = i]

(* A list of cards: each once, numbered from 1, the physical ones among    *)
(* them, and none with a number that is still to be given out.             *)
CardList(s, next) ==
    /\ \A c \in s : CardOf(c) /\ c.id \in Nat \ {0} /\ c.id < next
    /\ \A c, d \in s : c.id = d.id => c = d
    /\ {1, 2} \subseteq Ids(s)

TabAgrees(list, states, selected, confirm, next) ==
    /\ CardList(list, next)
    /\ states = Latest(list)
    /\ selected \in Ids(list)
    /\ confirm \in {0, selected}

Default == {[id |-> i, isFrozen |-> FALSE, limit |-> "low"] : i \in {1, 2}}
Least(s) == CHOOSE i \in Ids(s) : \A c \in s : i <= c.id

CardsInv(tabs) ==
    /\ cardsNextId \in Nat /\ cardsNextId >= 3
    /\ saved = {} \/ CardList(saved, cardsNextId)
    /\ cardsList = [t \in tabs |-> cardsList[t]]
    /\ cardStates = [t \in tabs |-> cardStates[t]]
    /\ selectedCardId = [t \in tabs |-> selectedCardId[t]]
    /\ confirmDeleteCardId = [t \in tabs |-> confirmDeleteCardId[t]]
    /\ \A t \in tabs : TabAgrees(cardsList[t], cardStates[t], selectedCardId[t],
                                 confirmDeleteCardId[t], cardsNextId)

(* What a tab does to its hub.                                             *)
HubIs(t, list, states, selected, confirm) ==
    /\ cardsList' = [cardsList EXCEPT ![t] = list]
    /\ cardStates' = [cardStates EXCEPT ![t] = states]
    /\ selectedCardId' = [selectedCardId EXCEPT ![t] = selected]
    /\ confirmDeleteCardId' = [confirmDeleteCardId EXCEPT ![t] = confirm]

Opened(t) ==
    LET s == IF saved = {} THEN Default ELSE saved
    IN  HubIs(t, s, Latest(s), Least(s), 0) /\ UNCHANGED <<saved, cardsNextId>>

ReplacedBy(t, c, x) ==
    LET card == cardStates[t][selectedCardId[t]]
        list == {d \in cardsList[t] : d.id # selectedCardId[t]} \cup {c}
    IN  /\ c \in {[card EXCEPT !.limit = x], [card EXCEPT !.isFrozen = x]}
        /\ HubIs(t, list, [cardStates[t] EXCEPT ![selectedCardId[t]] = c],
                 selectedCardId[t], confirmDeleteCardId[t])
        /\ saved' = list /\ UNCHANGED cardsNextId
Replaced(t) == \E c, x : ReplacedBy(t, c, x)

Selected(t) ==
    /\ \E i \in Ids(cardsList[t]) : selectedCardId' = [selectedCardId EXCEPT ![t] = i]
    /\ confirmDeleteCardId' = [confirmDeleteCardId EXCEPT ![t] = 0]
    /\ UNCHANGED <<saved, cardsNextId, cardsList, cardStates>>

Generated(t) ==
    LET c == [id |-> cardsNextId, isFrozen |-> FALSE, limit |-> "low"]
        f == cardStates[t]
    IN  /\ cardsNextId' = cardsNextId + 1 /\ saved' = cardsList[t] \cup {c}
        /\ HubIs(t, cardsList[t] \cup {c},
                 [i \in DOMAIN f \cup {c.id} |-> IF i = c.id THEN c ELSE f[i]], c.id, 0)

Asked(t) ==
    /\ \E confirm \in {0, selectedCardId[t]} :
          confirmDeleteCardId' = [confirmDeleteCardId EXCEPT ![t] = confirm]
    /\ UNCHANGED <<saved, cardsNextId, cardsList, cardStates, selectedCardId>>

Deleted(t) ==
    LET id == selectedCardId[t]
        rest == {c \in cardsList[t] : c.id # id}
        f == cardStates[t]
    IN  /\ f[id].id \notin {1, 2} /\ saved' = rest /\ UNCHANGED cardsNextId
        /\ HubIs(t, rest, [i \in DOMAIN f \ {id} |-> f[i]],
                 IF rest = {} THEN 1 ELSE Least(rest), 0)

(* The card of a number.                                                   *)
LEMMA CardNumbered ==
    ASSUME NEW next, NEW s, CardList(s, next), NEW i \in Ids(s)
    PROVE  /\ Latest(s)[i] \in s /\ Latest(s)[i].id = i
           /\ \A c \in s : c.id = i => Latest(s)[i] = c
<1>1. \E c \in s : c.id = i
  BY DEF Ids
<1>2. Latest(s)[i] = CHOOSE c \in s : c.id = i
  BY DEF Latest
<1>3. QED
  BY <1>1, <1>2 DEF CardList

(* A card in place of the one of its number.                               *)
LEMMA CardReplaced ==
    ASSUME NEW next, NEW s, CardList(s, next), NEW c, CardOf(c), c.id \in Ids(s)
    PROVE  LET r == {d \in s : d.id # c.id} \cup {c}
           IN  CardList(r, next) /\ Ids(r) = Ids(s) /\ Latest(r) = [Latest(s) EXCEPT ![c.id] = c]
<1> DEFINE r == {d \in s : d.id # c.id} \cup {c}
<1>1. Ids(r) = Ids(s)
  BY DEF Ids
<1>2. CardList(r, next)
  BY <1>1 DEF CardList, Ids
<1> HIDE DEF r
<1>3. DOMAIN Latest(r) = Ids(s) /\ DOMAIN Latest(s) = Ids(s)
  BY <1>1 DEF Latest
<1>4. ASSUME NEW i \in Ids(s) PROVE Latest(r)[i] = [Latest(s) EXCEPT ![c.id] = c][i]
  <2>1. CASE i = c.id
    <3>1. c \in r /\ i \in Ids(r)
      BY <1>1 DEF r
    <3>2. Latest(r)[i] = c
      BY <1>2, <2>1, <3>1, CardNumbered
    <3>3. QED
      BY <1>3, <2>1, <3>2
  <2>2. CASE i # c.id
    <3>1. Latest(s)[i] \in r /\ Latest(s)[i].id = i
      BY <2>2, CardNumbered DEF r
    <3>2. Latest(r)[i] = Latest(s)[i]
      BY <1>1, <1>2, <3>1, CardNumbered
    <3>3. QED
      BY <1>3, <2>2, <3>2
  <2>3. QED
    BY <2>1, <2>2
<1>5. Latest(r) = [Latest(s) EXCEPT ![c.id] = c]
  <2>1. Latest(r) = [i \in Ids(s) |-> Latest(r)[i]]
    BY <1>1 DEF Latest
  <2>2. [Latest(s) EXCEPT ![c.id] = c] = [i \in Ids(s) |-> [Latest(s) EXCEPT ![c.id] = c][i]]
    BY <1>3
  <2>3. QED
    BY <1>4, <2>1, <2>2
<1>6. QED
  BY <1>1, <1>2, <1>5 DEF r

(* A card of a new number.                                                 *)
LEMMA CardAdded ==
    ASSUME NEW next \in Nat \ {0}, NEW s, CardList(s, next), NEW c, CardOf(c), c.id = next
    PROVE  LET r == s \cup {c}
               f == Latest(s)
           IN  /\ CardList(r, next + 1) /\ c.id \in Ids(r)
               /\ Latest(r) = [i \in DOMAIN f \cup {c.id} |-> IF i = c.id THEN c ELSE f[i]]
<1> DEFINE r == s \cup {c}
<1>1. Ids(r) = Ids(s) \cup {next}
  BY DEF Ids
<1>2. CardList(r, next + 1)
  <2>1. \A d \in s : d.id \in Nat \ {0} /\ d.id < next
    BY DEF CardList
  <2>2. \A d \in r : CardOf(d) /\ d.id \in Nat \ {0} /\ d.id < next + 1
    BY <2>1 DEF CardList
  <2>3. \A d, e \in r : d.id = e.id => d = e
    BY <2>1 DEF CardList
  <2>4. QED
    BY <1>1, <2>2, <2>3 DEF CardList
<1>3. next \notin Ids(s)
  BY DEF CardList, Ids
<1> HIDE DEF r
<1>4. ASSUME NEW i \in Ids(r) PROVE Latest(r)[i] = IF i = c.id THEN c ELSE Latest(s)[i]
  <2>1. CASE i = c.id
    BY <1>2, <2>1, CardNumbered DEF r
  <2>2. CASE i # c.id
    <3>1. i \in Ids(s)
      BY <1>1, <2>2
    <3>2. Latest(s)[i] \in r /\ Latest(s)[i].id = i
      BY <3>1, CardNumbered DEF r
    <3>3. Latest(r)[i] = Latest(s)[i]
      BY <1>2, <3>2, CardNumbered
    <3>4. QED
      BY <2>2, <3>3
  <2>3. QED
    BY <2>1, <2>2
<1>5. DOMAIN Latest(s) \cup {c.id} = Ids(r)
  BY <1>1 DEF Latest
<1>6. Latest(r) = [i \in DOMAIN Latest(s) \cup {c.id} |-> IF i = c.id THEN c ELSE Latest(s)[i]]
  <2>1. Latest(r) = [i \in Ids(r) |-> Latest(r)[i]]
    BY DEF Latest
  <2>2. QED
    BY <1>4, <1>5, <2>1
<1>7. QED
  BY <1>1, <1>2, <1>6 DEF r

(* A list without a card that is not a physical one.                       *)
LEMMA CardRemoved ==
    ASSUME NEW next, NEW s, CardList(s, next), NEW id, id \notin {1, 2}
    PROVE  LET r == {c \in s : c.id # id}
               f == Latest(s)
           IN  CardList(r, next) /\ r # {} /\ Latest(r) = [i \in DOMAIN f \ {id} |-> f[i]]
<1> DEFINE r == {c \in s : c.id # id}
<1>1. Ids(r) = Ids(s) \ {id}
  BY DEF Ids
<1>2. CardList(r, next)
  BY <1>1 DEF CardList
<1>3. r # {}
  BY <1>2 DEF CardList, Ids
<1>4. DOMAIN Latest(s) \ {id} = Ids(r)
  BY <1>1 DEF Latest
<1> HIDE DEF r
<1>5. ASSUME NEW i \in Ids(r) PROVE Latest(r)[i] = Latest(s)[i]
  <2>1. i \in Ids(s) /\ i # id
    BY <1>1
  <2>2. Latest(s)[i] \in r /\ Latest(s)[i].id = i
    BY <2>1, CardNumbered DEF r
  <2>3. QED
    BY <1>2, <2>2, CardNumbered
<1>6. Latest(r) = [i \in DOMAIN Latest(s) \ {id} |-> Latest(s)[i]]
  <2>1. Latest(r) = [i \in Ids(r) |-> Latest(r)[i]]
    BY DEF Latest
  <2>2. QED
    BY <1>4, <1>5, <2>1
<1>7. QED
  BY <1>2, <1>3, <1>6 DEF r

(* The first card of a list is the physical one, which opens with the page.*)
LEMMA FirstCard ==
    ASSUME NEW next, NEW s, CardList(s, next)
    PROVE  Least(s) = 1 /\ 1 \in Ids(s)
<1>1. 1 \in Ids(s) /\ \A c \in s : c.id \in Nat \ {0}
  BY DEF CardList
<1>2. \A i \in Ids(s) : (\A c \in s : i <= c.id) <=> i = 1
  BY <1>1 DEF Ids
<1>3. QED
  BY <1>1, <1>2 DEF Least

(* The cards of a new browser.                                             *)
LEMMA DefaultList == ASSUME NEW next \in Nat, next >= 3 PROVE CardList(Default, next) /\ Default # {}
<1> DEFINE card(i) == [id |-> i, isFrozen |-> FALSE, limit |-> "low"]
<1>1. Default = {card(1), card(2)}
  BY DEF Default
<1>2. Default # {}
  BY <1>1
<1>3. \A c \in Default : CardOf(c) /\ c.id \in {1, 2}
  BY <1>1 DEF CardOf
<1>4. ASSUME NEW c \in Default, NEW d \in Default, c.id = d.id PROVE c = d
  <2>1. c \in {card(1), card(2)} /\ d \in {card(1), card(2)}
    BY <1>1
  <2>2. card(1).id = 1 /\ card(2).id = 2
    OBVIOUS
  <2> HIDE DEF card
  <2>3. QED
    BY <1>4, <2>1, <2>2
<1>5. {1, 2} \subseteq Ids(Default)
  <2>1. card(1).id = 1 /\ card(2).id = 2 /\ card(1) \in Default /\ card(2) \in Default
    BY <1>1
  <2>2. QED
    BY <2>1 DEF Ids
<1>6. QED
  BY <1>2, <1>3, <1>4, <1>5 DEF CardList

(* One tab changes, and what is saved.                                     *)
LEMMA HubKeeps ==
    ASSUME NEW tabs, CardsInv(tabs), NEW t \in tabs,
           NEW list, NEW states, NEW selected, NEW confirm,
           HubIs(t, list, states, selected, confirm),
           cardsNextId' \in {cardsNextId, cardsNextId + 1},
           TabAgrees(list, states, selected, confirm, cardsNextId'),
           saved' = {} \/ CardList(saved', cardsNextId')
    PROVE  CardsInv(tabs)'
<1>1. cardsNextId' \in Nat /\ cardsNextId' >= 3 /\ cardsNextId <= cardsNextId'
  BY DEF CardsInv
<1>2. /\ cardsList' = [u \in tabs |-> IF u = t THEN list ELSE cardsList[u]]
      /\ cardStates' = [u \in tabs |-> IF u = t THEN states ELSE cardStates[u]]
      /\ selectedCardId' = [u \in tabs |-> IF u = t THEN selected ELSE selectedCardId[u]]
      /\ confirmDeleteCardId' = [u \in tabs |-> IF u = t THEN confirm ELSE confirmDeleteCardId[u]]
  BY DEF CardsInv, HubIs
<1>3. ASSUME NEW u \in tabs \ {t}
      PROVE  TabAgrees(cardsList[u], cardStates[u], selectedCardId[u], confirmDeleteCardId[u],
                       cardsNextId')
  <2>1. TabAgrees(cardsList[u], cardStates[u], selectedCardId[u], confirmDeleteCardId[u],
                  cardsNextId)
    BY DEF CardsInv
  <2>2. cardsNextId \in Nat
    BY DEF CardsInv
  <2>3. CardList(cardsList[u], cardsNextId')
    BY <1>1, <2>1, <2>2 DEF TabAgrees, CardList
  <2>4. QED
    BY <2>1, <2>3 DEF TabAgrees
<1>4. \A u \in tabs : TabAgrees(cardsList'[u], cardStates'[u], selectedCardId'[u],
                                confirmDeleteCardId'[u], cardsNextId')
  BY <1>2, <1>3
<1>5. QED
  BY <1>1, <1>2, <1>4 DEF CardsInv

(* What is not changed.                                                    *)
LEMMA HubSame ==
    ASSUME NEW tabs, CardsInv(tabs), NEW t \in tabs
    PROVE  /\ cardsList = [cardsList EXCEPT ![t] = cardsList[t]]
           /\ cardStates = [cardStates EXCEPT ![t] = cardStates[t]]
           /\ selectedCardId = [selectedCardId EXCEPT ![t] = selectedCardId[t]]
           /\ confirmDeleteCardId = [confirmDeleteCardId EXCEPT ![t] = confirmDeleteCardId[t]]
  BY DEF CardsInv

(* What a tab does keeps the hub of every tab in order.                    *)
LEMMA TabStep ==
    ASSUME NEW tabs, CardsInv(tabs), NEW t \in tabs,
           \/ Opened(t) \/ Replaced(t) \/ Selected(t) \/ Generated(t)
           \/ Asked(t) \/ Deleted(t)
    PROVE  CardsInv(tabs)'
<1> DEFINE list == cardsList[t]
           states == cardStates[t]
           selected == selectedCardId[t]
<1>1. /\ TabAgrees(list, states, selected, confirmDeleteCardId[t], cardsNextId)
      /\ cardsNextId \in Nat /\ cardsNextId >= 3
      /\ saved = {} \/ CardList(saved, cardsNextId)
  BY DEF CardsInv
<1>2. CardList(list, cardsNextId) /\ states = Latest(list) /\ selected \in Ids(list)
  BY <1>1 DEF TabAgrees
<1>3. DOMAIN cardStates = tabs
  BY DEF CardsInv
<1>4. CASE Opened(t)
  <2>1. PICK s : /\ s = IF saved = {} THEN Default ELSE saved
                 /\ HubIs(t, s, Latest(s), Least(s), 0) /\ UNCHANGED <<saved, cardsNextId>>
    BY <1>4 DEF Opened
  <2>2. CardList(s, cardsNextId)
    BY <1>1, <2>1, DefaultList
  <2>3. TabAgrees(s, Latest(s), Least(s), 0, cardsNextId')
    BY <2>1, <2>2, FirstCard DEF TabAgrees
  <2>4. QED
    BY <1>1, <2>1, <2>3, HubKeeps
<1>5. CASE Replaced(t)
  <2>1. PICK c, x :
             /\ c \in {[states[selected] EXCEPT !.limit = x], [states[selected] EXCEPT !.isFrozen = x]}
             /\ HubIs(t, {d \in list : d.id # selected} \cup {c}, [states EXCEPT ![selected] = c],
                      selected, confirmDeleteCardId[t])
             /\ saved' = {d \in list : d.id # selected} \cup {c} /\ UNCHANGED cardsNextId
    BY <1>5 DEF Replaced, ReplacedBy
  <2>2. CardOf(states[selected]) /\ states[selected].id = selected
    <3>1. Latest(list)[selected] \in list /\ Latest(list)[selected].id = selected
      BY <1>2, CardNumbered
    <3>2. \A d \in list : CardOf(d)
      BY <1>2 DEF CardList
    <3>3. QED
      BY <1>2, <3>1, <3>2
  <2>3. CardOf(c) /\ c.id = selected
    BY <2>1, <2>2 DEF CardOf
  <2> DEFINE r == {d \in list : d.id # c.id} \cup {c}
  <2>4. CardList(r, cardsNextId) /\ Ids(r) = Ids(list) /\ Latest(r) = [Latest(list) EXCEPT ![c.id] = c]
    BY <1>2, <2>3, CardReplaced
  <2>5. TabAgrees(r, [states EXCEPT ![selected] = c], selected, confirmDeleteCardId[t], cardsNextId')
    BY <1>1, <1>2, <2>1, <2>3, <2>4 DEF TabAgrees
  <2>6. QED
    BY <2>1, <2>3, <2>4, <2>5, HubKeeps
<1>6. CASE Selected(t)
  <2>1. PICK i \in Ids(list) : HubIs(t, list, states, i, 0) /\ UNCHANGED <<saved, cardsNextId>>
    BY <1>6, HubSame DEF Selected, HubIs
  <2>2. TabAgrees(list, states, i, 0, cardsNextId')
    BY <1>2, <2>1 DEF TabAgrees
  <2>3. QED
    BY <1>1, <2>1, <2>2, HubKeeps
<1>7. CASE Generated(t)
  <2>1. PICK c : /\ CardOf(c) /\ c.id = cardsNextId /\ cardsNextId' = cardsNextId + 1
                 /\ saved' = list \cup {c}
                 /\ HubIs(t, list \cup {c},
                          [i \in DOMAIN states \cup {c.id} |-> IF i = c.id THEN c ELSE states[i]],
                          c.id, 0)
    BY <1>3, <1>7 DEF Generated, CardOf
  <2> DEFINE r == list \cup {c}
             f == [i \in DOMAIN states \cup {c.id} |-> IF i = c.id THEN c ELSE states[i]]
  <2>2. CardList(r, cardsNextId') /\ c.id \in Ids(r) /\ Latest(r) = f
    BY <1>1, <1>2, <2>1, CardAdded
  <2>3. TabAgrees(r, f, c.id, 0, cardsNextId')
    BY <2>2 DEF TabAgrees
  <2>4. QED
    BY <2>1, <2>2, <2>3, HubKeeps
<1>8. CASE Asked(t)
  <2>1. PICK confirm \in {0, selected} :
             HubIs(t, list, states, selected, confirm) /\ UNCHANGED <<saved, cardsNextId>>
    BY <1>8, HubSame DEF Asked, HubIs
  <2>2. TabAgrees(list, states, selected, confirm, cardsNextId')
    BY <1>2, <2>1 DEF TabAgrees
  <2>3. QED
    BY <1>1, <2>1, <2>2, HubKeeps
<1>9. CASE Deleted(t)
  <2> DEFINE r == {c \in list : c.id # selected}
             f == [i \in DOMAIN states \ {selected} |-> states[i]]
  <2>1. /\ states[selected].id \notin {1, 2} /\ saved' = r /\ UNCHANGED cardsNextId
        /\ HubIs(t, r, f, IF r = {} THEN 1 ELSE Least(r), 0)
    BY <1>3, <1>9 DEF Deleted
  <2>2. states[selected].id = selected
    BY <1>2, CardNumbered
  <2>3. CardList(r, cardsNextId) /\ r # {} /\ Latest(r) = f
    BY <1>2, <2>1, <2>2, CardRemoved
  <2>4. Least(r) = 1 /\ 1 \in Ids(r)
    BY <2>3, FirstCard
  <2>5. TabAgrees(r, f, Least(r), 0, cardsNextId')
    BY <2>1, <2>3, <2>4 DEF TabAgrees
  <2>6. QED
    BY <2>1, <2>3, <2>5, HubKeeps
<1>10. QED
  BY <1>4, <1>5, <1>6, <1>7, <1>8, <1>9


(* The actions of the page in several tabs are such changes of a hub.       *)
LEMMA CardsOpened == ASSUME NEW t \in CardTab, Cards!Reload(t) PROVE Opened(t)
<1>1. Cards!DEFAULT_CARDS = Default
  BY DEF Cards!DEFAULT_CARDS, Cards!Physical, Default
<1>2. \A s : Cards!ById(s) = Latest(s) /\ Cards!First(s) = Least(s)
  BY DEF Cards!ById, Cards!First, Latest, Least, Ids
<1>3. QED
  BY <1>1, <1>2 DEF Cards!Reload, Cards!NoCard, Opened, HubIs

(* A slider, a switch or the button of the preview replaces a card.        *)
LEMMA CardsReplaced ==
    ASSUME CardsInv(CardTab), NEW t \in CardTab, Cards!ChangeSetting(t) \/ Cards!HandleToggleFreeze(t)
    PROVE  Replaced(t)
<1> DEFINE card == cardStates[t][selectedCardId[t]]
<1>1. PICK c, x : /\ c \in {[card EXCEPT !.limit = x], [card EXCEPT !.isFrozen = x]}
                  /\ Cards!UpdateCurrentCard(t, c)
                  /\ UNCHANGED <<cardsNextId, selectedCardId, confirmDeleteCardId>>
  <2>1. CASE Cards!ChangeSetting(t)
    <3>1. PICK c \in Cards!Updates(card) : Cards!UpdateCurrentCard(t, c)
      BY <2>1 DEF Cards!ChangeSetting, Cards!CurrentCard
    <3>2. UNCHANGED <<cardsNextId, selectedCardId, confirmDeleteCardId>>
      BY <2>1 DEF Cards!ChangeSetting
    <3>3. \E x : c \in {[card EXCEPT !.limit = x], [card EXCEPT !.isFrozen = x]}
      BY <3>1 DEF Cards!Updates
    <3>4. QED
      BY <3>1, <3>2, <3>3
  <2>2. CASE Cards!HandleToggleFreeze(t)
    <3>1. /\ Cards!UpdateCurrentCard(t, [card EXCEPT !.isFrozen = ~isFrozen[t]])
          /\ UNCHANGED <<cardsNextId, selectedCardId, confirmDeleteCardId>>
      BY <2>2 DEF Cards!HandleToggleFreeze, Cards!CurrentCard
    <3>2. QED
      BY <3>1
  <2>3. QED
    BY <2>1, <2>2
<1> DEFINE list == {d \in cardsList[t] : d.id # selectedCardId[t]} \cup {c}
<1>2. /\ cardStates' = [cardStates EXCEPT ![t] = [cardStates[t] EXCEPT ![selectedCardId[t]] = c]]
      /\ cardsList' = [cardsList EXCEPT ![t] = list] /\ saved' = list
  BY <1>1, HubSame DEF Cards!UpdateCurrentCard, Cards!SaveCards
<1>3. /\ selectedCardId' = [selectedCardId EXCEPT ![t] = selectedCardId[t]]
      /\ confirmDeleteCardId' = [confirmDeleteCardId EXCEPT ![t] = confirmDeleteCardId[t]]
  BY <1>1, HubSame
<1>4. HubIs(t, list, [cardStates[t] EXCEPT ![selectedCardId[t]] = c], selectedCardId[t],
            confirmDeleteCardId[t])
  BY <1>2, <1>3 DEF HubIs
<1>5. /\ c \in {[card EXCEPT !.limit = x], [card EXCEPT !.isFrozen = x]}
      /\ saved' = list /\ UNCHANGED cardsNextId
  BY <1>1, <1>2
<1>6. QED
  <2>1. ReplacedBy(t, c, x)
    BY <1>4, <1>5 DEF ReplacedBy
  <2>2. QED
    BY <2>1 DEF Replaced

(* The other buttons of the page.                                          *)
LEMMA CardsButtons ==
    ASSUME CardsInv(CardTab), NEW t \in CardTab
    PROVE  /\ Cards!SelectCard(t) => Selected(t)
           /\ Cards!HandleGenerateVirtualCard(t) => Generated(t)
           /\ Cards!AskToDelete(t) \/ Cards!CancelDelete(t) => Asked(t)
           /\ Cards!HandleDeleteVirtualCard(t) => Deleted(t)
<1>1. Cards!SelectCard(t) => Selected(t)
  BY DEF Cards!SelectCard, Cards!Selectable, Cards!NoCard, Ids, Selected
<1>2. Cards!HandleGenerateVirtualCard(t) => Generated(t)
  BY DEF Cards!HandleGenerateVirtualCard, Cards!SaveCards, Cards!NoCard, Generated, HubIs
<1>3. Cards!AskToDelete(t) \/ Cards!CancelDelete(t) => Asked(t)
  BY DEF Cards!AskToDelete, Cards!CancelDelete, Cards!NoCard, Asked
<1>4. Cards!HandleDeleteVirtualCard(t) => Deleted(t)
  <2>1. \A s : Cards!First(s) = Least(s)
    BY DEF Cards!First, Least, Ids
  <2>2. QED
    BY <2>1 DEF Cards!HandleDeleteVirtualCard, Cards!Deletable, Cards!CurrentCard, Cards!Physical,
       Cards!SaveCards, Cards!NoCard, Deleted, HubIs
<1>5. QED
  BY <1>1, <1>2, <1>3, <1>4

(* Every step keeps the hubs in order; the timers do not touch them.       *)
LEMMA CardsStep ==
    CardsInv(CardTab) /\ (Cards!Next \/ UNCHANGED cardsVars) => CardsInv(CardTab)'
<1> SUFFICES ASSUME CardsInv(CardTab), Cards!Next \/ UNCHANGED cardsVars PROVE CardsInv(CardTab)'
  OBVIOUS
<1>1. ASSUME UNCHANGED <<saved, cardsNextId, cardsList, cardStates, selectedCardId,
                         confirmDeleteCardId>>
      PROVE  CardsInv(CardTab)'
  BY <1>1 DEF CardsInv
<1>2. CASE UNCHANGED cardsVars
  BY <1>1, <1>2 DEF cardsVars
<1>3. CASE Cards!Tick
  BY <1>1, <1>3 DEF Cards!Tick, Cards!hub
<1>4. ASSUME NEW t \in CardTab, Cards!HandleToggleDetails(t) \/ Cards!AutoHide(t) PROVE CardsInv(CardTab)'
  BY <1>1, <1>4 DEF Cards!HandleToggleDetails, Cards!AutoHide, Cards!hub
<1>5. ASSUME NEW t \in CardTab,
             \/ Cards!Reload(t) \/ Cards!ChangeSetting(t) \/ Cards!SelectCard(t)
             \/ Cards!HandleGenerateVirtualCard(t) \/ Cards!AskToDelete(t)
             \/ Cards!CancelDelete(t) \/ Cards!HandleDeleteVirtualCard(t)
             \/ Cards!HandleToggleFreeze(t)
      PROVE  CardsInv(CardTab)'
  BY <1>5, CardsOpened, CardsReplaced, CardsButtons, TabStep
<1>6. QED
  BY <1>2, <1>3, <1>4, <1>5 DEF Cards!Next

(* A new browser has the cards by default in every tab.                    *)
LEMMA CardsInit == Cards!Init => CardsInv(CardTab)
<1>1. Cards!DEFAULT_CARDS = Default
  BY DEF Cards!DEFAULT_CARDS, Cards!Physical, Default
<1>2. \A s : Cards!ById(s) = Latest(s)
  BY DEF Cards!ById, Latest, Ids
<1>3. CardList(Default, 3) /\ 1 \in Ids(Default)
  BY DefaultList, FirstCard
<1>4. TabAgrees(Default, Latest(Default), 1, 0, 3)
  BY <1>3 DEF TabAgrees
<1>5. QED
  BY <1>1, <1>2, <1>4 DEF Cards!Init, Cards!NoCard, CardsInv

(* What the invariant says of the claims about the page.                   *)
LEMMA CardsFacts ==
    ASSUME CardsInv(CardTab)
    PROVE  Cards!CopiesAgree /\ Cards!AskedAboutShown /\ Cards!PhysicalCardsStay
<1>1. \A s : Cards!ById(s) = Latest(s)
  BY DEF Cards!ById, Latest, Ids
<1>2. ASSUME NEW t \in CardTab
      PROVE  TabAgrees(cardsList[t], cardStates[t], selectedCardId[t],
                       confirmDeleteCardId[t], cardsNextId)
  BY DEF CardsInv
<1>3. Cards!CopiesAgree
  BY <1>1, <1>2 DEF Cards!CopiesAgree, TabAgrees
<1>4. Cards!AskedAboutShown
  BY <1>2 DEF Cards!AskedAboutShown, Cards!NoCard, TabAgrees
<1>5. Cards!PhysicalCardsStay
  BY <1>2 DEF Cards!PhysicalCardsStay, Cards!Physical, Cards!Selectable, TabAgrees, CardList, Ids,
     CardsInv
<1>6. QED
  BY <1>3, <1>4, <1>5

(* The same of the page with the preview.                                   *)
LEMMA PreviewOpened == ASSUME NEW t \in PreviewTab, Preview!Reload(t) PROVE Opened(t)
<1>1. Preview!DEFAULT_CARDS = Default
  BY DEF Preview!DEFAULT_CARDS, Preview!Physical, Default
<1>2. \A s : Preview!ById(s) = Latest(s) /\ Preview!First(s) = Least(s)
  BY DEF Preview!ById, Preview!First, Latest, Least, Ids
<1>3. QED
  BY <1>1, <1>2 DEF Preview!Reload, Preview!NoCard, Opened, HubIs

(* A slider, a switch or the button of the preview replaces a card.        *)
LEMMA PreviewReplaced ==
    ASSUME CardsInv(PreviewTab), NEW t \in PreviewTab, Preview!ChangeSetting(t) \/ Preview!HandleToggleFreeze(t)
    PROVE  Replaced(t)
<1> DEFINE card == cardStates[t][selectedCardId[t]]
<1>1. PICK c, x : /\ c \in {[card EXCEPT !.limit = x], [card EXCEPT !.isFrozen = x]}
                  /\ Preview!UpdateCurrentCard(t, c)
                  /\ UNCHANGED <<cardsNextId, selectedCardId, confirmDeleteCardId>>
  <2>1. CASE Preview!ChangeSetting(t)
    <3>1. PICK c \in Preview!Updates(card) : Preview!UpdateCurrentCard(t, c)
      BY <2>1 DEF Preview!ChangeSetting, Preview!CurrentCard
    <3>2. UNCHANGED <<cardsNextId, selectedCardId, confirmDeleteCardId>>
      BY <2>1 DEF Preview!ChangeSetting
    <3>3. \E x : c \in {[card EXCEPT !.limit = x], [card EXCEPT !.isFrozen = x]}
      BY <3>1 DEF Preview!Updates
    <3>4. QED
      BY <3>1, <3>2, <3>3
  <2>2. CASE Preview!HandleToggleFreeze(t)
    <3>1. /\ Preview!UpdateCurrentCard(t, [card EXCEPT !.isFrozen = ~isFrozen[t]])
          /\ UNCHANGED <<cardsNextId, selectedCardId, confirmDeleteCardId>>
      BY <2>2 DEF Preview!HandleToggleFreeze, Preview!CurrentCard
    <3>2. QED
      BY <3>1
  <2>3. QED
    BY <2>1, <2>2
<1> DEFINE list == {d \in cardsList[t] : d.id # selectedCardId[t]} \cup {c}
<1>2. /\ cardStates' = [cardStates EXCEPT ![t] = [cardStates[t] EXCEPT ![selectedCardId[t]] = c]]
      /\ cardsList' = [cardsList EXCEPT ![t] = list] /\ saved' = list
  BY <1>1, HubSame DEF Preview!UpdateCurrentCard, Preview!SaveCards
<1>3. /\ selectedCardId' = [selectedCardId EXCEPT ![t] = selectedCardId[t]]
      /\ confirmDeleteCardId' = [confirmDeleteCardId EXCEPT ![t] = confirmDeleteCardId[t]]
  BY <1>1, HubSame
<1>4. HubIs(t, list, [cardStates[t] EXCEPT ![selectedCardId[t]] = c], selectedCardId[t],
            confirmDeleteCardId[t])
  BY <1>2, <1>3 DEF HubIs
<1>5. /\ c \in {[card EXCEPT !.limit = x], [card EXCEPT !.isFrozen = x]}
      /\ saved' = list /\ UNCHANGED cardsNextId
  BY <1>1, <1>2
<1>6. QED
  <2>1. ReplacedBy(t, c, x)
    BY <1>4, <1>5 DEF ReplacedBy
  <2>2. QED
    BY <2>1 DEF Replaced

(* The other buttons of the page.                                          *)
LEMMA PreviewButtons ==
    ASSUME CardsInv(PreviewTab), NEW t \in PreviewTab
    PROVE  /\ Preview!SelectCard(t) => Selected(t)
           /\ Preview!HandleGenerateVirtualCard(t) => Generated(t)
           /\ Preview!AskToDelete(t) \/ Preview!CancelDelete(t) => Asked(t)
           /\ Preview!HandleDeleteVirtualCard(t) => Deleted(t)
<1>1. Preview!SelectCard(t) => Selected(t)
  BY DEF Preview!SelectCard, Preview!Selectable, Preview!NoCard, Ids, Selected
<1>2. Preview!HandleGenerateVirtualCard(t) => Generated(t)
  BY DEF Preview!HandleGenerateVirtualCard, Preview!SaveCards, Preview!NoCard, Generated, HubIs
<1>3. Preview!AskToDelete(t) \/ Preview!CancelDelete(t) => Asked(t)
  BY DEF Preview!AskToDelete, Preview!CancelDelete, Preview!NoCard, Asked
<1>4. Preview!HandleDeleteVirtualCard(t) => Deleted(t)
  <2>1. \A s : Preview!First(s) = Least(s)
    BY DEF Preview!First, Least, Ids
  <2>2. QED
    BY <2>1 DEF Preview!HandleDeleteVirtualCard, Preview!Deletable, Preview!CurrentCard, Preview!Physical,
       Preview!SaveCards, Preview!NoCard, Deleted, HubIs
<1>5. QED
  BY <1>1, <1>2, <1>3, <1>4

(* Every step keeps the hubs in order; the timers do not touch them.       *)
LEMMA PreviewStep ==
    CardsInv(PreviewTab) /\ (Preview!Next \/ UNCHANGED cardsVars) => CardsInv(PreviewTab)'
<1> SUFFICES ASSUME CardsInv(PreviewTab), Preview!Next \/ UNCHANGED cardsVars PROVE CardsInv(PreviewTab)'
  OBVIOUS
<1>1. ASSUME UNCHANGED <<saved, cardsNextId, cardsList, cardStates, selectedCardId,
                         confirmDeleteCardId>>
      PROVE  CardsInv(PreviewTab)'
  BY <1>1 DEF CardsInv
<1>2. CASE UNCHANGED cardsVars
  BY <1>1, <1>2 DEF cardsVars
<1>3. CASE Preview!Tick
  BY <1>1, <1>3 DEF Preview!Tick, Preview!hub
<1>4. ASSUME NEW t \in PreviewTab, Preview!HandleToggleDetails(t) \/ Preview!AutoHide(t) PROVE CardsInv(PreviewTab)'
  BY <1>1, <1>4 DEF Preview!HandleToggleDetails, Preview!AutoHide, Preview!hub
<1>5. ASSUME NEW t \in PreviewTab,
             \/ Preview!Reload(t) \/ Preview!ChangeSetting(t) \/ Preview!SelectCard(t)
             \/ Preview!HandleGenerateVirtualCard(t) \/ Preview!AskToDelete(t)
             \/ Preview!CancelDelete(t) \/ Preview!HandleDeleteVirtualCard(t)
             \/ Preview!HandleToggleFreeze(t)
      PROVE  CardsInv(PreviewTab)'
  BY <1>5, PreviewOpened, PreviewReplaced, PreviewButtons, TabStep
<1>6. QED
  BY <1>2, <1>3, <1>4, <1>5 DEF Preview!Next

(* A new browser has the cards by default in every tab.                    *)
LEMMA PreviewInit == Preview!Init => CardsInv(PreviewTab)
<1>1. Preview!DEFAULT_CARDS = Default
  BY DEF Preview!DEFAULT_CARDS, Preview!Physical, Default
<1>2. \A s : Preview!ById(s) = Latest(s)
  BY DEF Preview!ById, Latest, Ids
<1>3. CardList(Default, 3) /\ 1 \in Ids(Default)
  BY DefaultList, FirstCard
<1>4. TabAgrees(Default, Latest(Default), 1, 0, 3)
  BY <1>3 DEF TabAgrees
<1>5. QED
  BY <1>1, <1>2, <1>4 DEF Preview!Init, Preview!NoCard, CardsInv

(* What the invariant says of the claims about the page.                   *)
LEMMA PreviewFacts == ASSUME CardsInv(PreviewTab) PROVE Preview!CopiesAgree
<1>1. \A s : Preview!ById(s) = Latest(s)
  BY DEF Preview!ById, Latest, Ids
<1>2. QED
  BY <1>1 DEF Preview!CopiesAgree, CardsInv, TabAgrees

(* Details that are shown have a timer that hides them in time, through    *)
(* any hiding and showing again, since the timers of earlier times only    *)
(* come sooner.                                                            *)
HidesInv ==
    /\ cardsTimers = [t \in PreviewTab |-> cardsTimers[t]]
    /\ showDetails = [t \in PreviewTab |-> showDetails[t]]
    /\ shownFor = [t \in PreviewTab |-> shownFor[t]]
    /\ \A t \in PreviewTab :
         /\ \A k \in cardsTimers[t] : k \in Nat
         /\ shownFor[t] \in Nat
         /\ showDetails[t] => \E k \in cardsTimers[t] : shownFor[t] + k <= HideAfter
         /\ ~showDetails[t] => shownFor[t] = 0

(* Every step keeps it.                                                    *)
LEMMA HidesStep == HidesInv /\ (Preview!Next \/ UNCHANGED cardsVars) => HidesInv'
<1> SUFFICES ASSUME HidesInv, Preview!Next \/ UNCHANGED cardsVars PROVE HidesInv'
  OBVIOUS
<1>0. HideAfter \in Nat
  BY CardsConstants DEF CardsConstants
<1>1. ASSUME UNCHANGED <<cardsTimers, showDetails, shownFor>> PROVE HidesInv'
  BY <1>1 DEF HidesInv
<1>2. CASE UNCHANGED cardsVars
  BY <1>1, <1>2 DEF cardsVars
<1>3. ASSUME NEW t \in PreviewTab,
             \/ Preview!ChangeSetting(t) \/ Preview!SelectCard(t)
             \/ Preview!HandleGenerateVirtualCard(t) \/ Preview!AskToDelete(t)
             \/ Preview!CancelDelete(t) \/ Preview!HandleDeleteVirtualCard(t)
             \/ Preview!HandleToggleFreeze(t)
      PROVE  HidesInv'
  BY <1>1, <1>3 DEF Preview!ChangeSetting, Preview!SelectCard, Preview!HandleGenerateVirtualCard,
     Preview!AskToDelete, Preview!CancelDelete, Preview!HandleDeleteVirtualCard,
     Preview!HandleToggleFreeze, Preview!preview
(* The preview of one tab: nothing shown, or shown with a new timer. *)
<1>4. ASSUME NEW t \in PreviewTab, NEW timers,
             cardsTimers' = [cardsTimers EXCEPT ![t] = timers],
             showDetails' = [showDetails EXCEPT ![t] = showDetails'[t]],
             shownFor' = [shownFor EXCEPT ![t] = 0],
             \A k \in timers : k \in Nat,
             showDetails'[t] => HideAfter \in timers
      PROVE  HidesInv'
  <2>1. /\ cardsTimers' = [u \in PreviewTab |-> IF u = t THEN timers ELSE cardsTimers[u]]
        /\ showDetails' = [u \in PreviewTab |-> IF u = t THEN showDetails'[t] ELSE showDetails[u]]
        /\ shownFor' = [u \in PreviewTab |-> IF u = t THEN 0 ELSE shownFor[u]]
    BY <1>4 DEF HidesInv
  <2>2. ASSUME NEW u \in PreviewTab
        PROVE  /\ \A k \in cardsTimers'[u] : k \in Nat
               /\ shownFor'[u] \in Nat
               /\ showDetails'[u] => \E k \in cardsTimers'[u] : shownFor'[u] + k <= HideAfter
               /\ ~showDetails'[u] => shownFor'[u] = 0
    <3>1. CASE u # t
      BY <2>1, <3>1 DEF HidesInv
    <3>2. CASE u = t
      <4>1. 0 + HideAfter <= HideAfter
        BY <1>0
      <4>2. cardsTimers'[u] = timers /\ shownFor'[u] = 0
        BY <2>1, <3>2
      <4>3. QED
        BY <1>4, <3>2, <4>1, <4>2
    <3>3. QED
      BY <3>1, <3>2
  <2>3. QED
    BY <2>1, <2>2 DEF HidesInv
<1>5. ASSUME NEW t \in PreviewTab, Preview!Reload(t) PROVE HidesInv'
  <2>0. PICK none : none = {}
    OBVIOUS
  <2>1. /\ showDetails' = [showDetails EXCEPT ![t] = FALSE]
        /\ shownFor' = [shownFor EXCEPT ![t] = 0]
        /\ cardsTimers' = [cardsTimers EXCEPT ![t] = none]
    BY <1>5, <2>0 DEF Preview!Reload
  <2>2. ~showDetails'[t] /\ showDetails' = [showDetails EXCEPT ![t] = showDetails'[t]]
    BY <2>1 DEF HidesInv
  <2>3. \A k \in none : k \in Nat
    BY <2>0
  <2>4. QED
    BY <1>4, <2>1, <2>2, <2>3
<1>6. ASSUME NEW t \in PreviewTab, Preview!HandleToggleDetails(t) PROVE HidesInv'
  <2> DEFINE timers == IF showDetails[t] THEN cardsTimers[t] ELSE cardsTimers[t] \cup {HideAfter}
  <2>1. /\ showDetails' = [showDetails EXCEPT ![t] = ~showDetails[t]]
        /\ shownFor' = [shownFor EXCEPT ![t] = 0]
        /\ cardsTimers' = [cardsTimers EXCEPT ![t] = timers]
    BY <1>6 DEF Preview!HandleToggleDetails
  <2>2. (\A k \in timers : k \in Nat) /\ (~showDetails[t] => HideAfter \in timers)
    BY <1>0 DEF HidesInv
  <2>3. /\ showDetails'[t] => ~showDetails[t]
        /\ showDetails' = [showDetails EXCEPT ![t] = showDetails'[t]]
    BY <2>1 DEF HidesInv
  <2> HIDE DEF timers
  <2>4. QED
    BY <1>4, <2>1, <2>2, <2>3
<1>7. ASSUME NEW t \in PreviewTab, Preview!AutoHide(t) PROVE HidesInv'
  <2>1. /\ showDetails' = [showDetails EXCEPT ![t] = FALSE]
        /\ shownFor' = [shownFor EXCEPT ![t] = 0]
        /\ cardsTimers' = [cardsTimers EXCEPT ![t] = cardsTimers[t] \ {0}]
    BY <1>7 DEF Preview!AutoHide
  <2>2. ~showDetails'[t] /\ showDetails' = [showDetails EXCEPT ![t] = showDetails'[t]]
    BY <2>1 DEF HidesInv
  <2>3. \A k \in cardsTimers[t] \ {0} : k \in Nat
    BY DEF HidesInv
  <2>4. QED
    BY <1>4, <2>1, <2>2, <2>3
<1>8. CASE Preview!Tick
  <2>1. /\ \A t \in PreviewTab : 0 \notin cardsTimers[t]
        /\ cardsTimers' = [t \in PreviewTab |-> {k - 1 : k \in cardsTimers[t]}]
        /\ shownFor' = [t \in PreviewTab |-> IF showDetails[t] /\ shownFor[t] <= HideAfter
                                             THEN shownFor[t] + 1 ELSE shownFor[t]]
        /\ UNCHANGED showDetails
    BY <1>8 DEF Preview!Tick
  <2>2. ASSUME NEW t \in PreviewTab
        PROVE  /\ \A k \in cardsTimers'[t] : k \in Nat
               /\ shownFor'[t] \in Nat
               /\ showDetails'[t] => \E k \in cardsTimers'[t] : shownFor'[t] + k <= HideAfter
               /\ ~showDetails'[t] => shownFor'[t] = 0
    <3>1. /\ \A k \in cardsTimers[t] : k \in Nat /\ k # 0
          /\ shownFor[t] \in Nat
          /\ showDetails[t] => \E k \in cardsTimers[t] : shownFor[t] + k <= HideAfter
          /\ ~showDetails[t] => shownFor[t] = 0
      BY <2>1 DEF HidesInv
    <3>2. \A k \in cardsTimers'[t] : k \in Nat
      BY <2>1, <3>1
    <3>3. shownFor'[t] \in {shownFor[t], shownFor[t] + 1} /\ (~showDetails[t] => shownFor'[t] = 0)
      BY <2>1, <3>1
    <3>4. ASSUME showDetails[t] PROVE \E k \in cardsTimers'[t] : shownFor'[t] + k <= HideAfter
      <4>1. PICK k \in cardsTimers[t] : shownFor[t] + k <= HideAfter
        BY <3>1, <3>4
      <4>2. k - 1 \in cardsTimers'[t]
        BY <2>1
      <4>3. k \in Nat /\ shownFor'[t] + (k - 1) <= HideAfter
        BY <1>0, <3>1, <3>3, <4>1
      <4>4. QED
        BY <4>2, <4>3
    <3>5. QED
      BY <2>1, <3>1, <3>2, <3>3, <3>4
  <2>3. QED
    BY <2>1, <2>2 DEF HidesInv
<1>9. QED
  BY <1>2, <1>3, <1>5, <1>6, <1>7, <1>8 DEF Preview!Next

(* At first nothing is shown; and what the invariant says of the claim.    *)
LEMMA HidesFacts == (Preview!Init => HidesInv) /\ (HidesInv => Preview!HiddenInTime)
<1>1. HideAfter \in Nat
  BY CardsConstants DEF CardsConstants
<1>2. Preview!Init => HidesInv
  BY DEF Preview!Init, HidesInv
<1>3. ASSUME HidesInv, NEW t \in PreviewTab PROVE shownFor[t] <= HideAfter
  BY <1>1, <1>3 DEF HidesInv
<1>4. QED
  BY <1>2, <1>3 DEF Preview!HiddenInTime

-----------------------------------------------------------------------------
(* The profile page.                                                       *)

RequestOf(r) ==
    r = [n |-> r.n, kind |-> r.kind, form |-> r.form, email |-> r.email, prefs |-> r.prefs,
         at |-> r.at, seen |-> r.seen, waiting |-> r.waiting]

(* A request goes on with what it asks for.                                *)
Becomes(r, d) ==
    /\ RequestOf(d)
    /\ d.kind = r.kind /\ d.form = r.form /\ d.email = r.email /\ d.prefs = r.prefs

(* So it does when the route has decided.                                  *)
LEMMA RequestGoesOn ==
    ASSUME NEW r, RequestOf(r), NEW a, NEW d, d = [r EXCEPT !.at = a]
    PROVE  Becomes(r, d) /\ d.at = a /\ d.seen = r.seen /\ d.waiting = r.waiting
  BY DEF Becomes, RequestOf

(* So it does when its page does not wait for it any more.                 *)
LEMMA RequestLeft ==
    ASSUME NEW r, RequestOf(r), NEW w, NEW d, d = [r EXCEPT !.waiting = w]
    PROVE  Becomes(r, d) /\ d.at = r.at /\ d.seen = r.seen /\ d.waiting = w
  BY DEF Becomes, RequestOf

(* So it does when the route has read the user.                            *)
LEMMA RequestReads ==
    ASSUME NEW r, RequestOf(r), NEW s, NEW d, d = [r EXCEPT !.seen = s]
    PROVE  Becomes(r, d) /\ d.at = r.at /\ d.seen = s /\ d.waiting = r.waiting
  BY DEF Becomes, RequestOf

(* The requests of a kind are counted as they are sent.                    *)
Kinds == {"password", "backup", "preferences"}
Counted(kind) == profileSent' = [profileSent EXCEPT ![kind] = profileSent[kind] + 1]

(* The page with requests for a password only.                             *)
PassRequests ==
    /\ \A r \in profileRequests : RequestOf(r) /\ r.kind = "password"
    /\ DOMAIN profileSent = Kinds /\ profileSent["preferences"] = 0
    /\ DOMAIN calm = Kinds
    /\ told = [password |-> told.password, email |-> told.email]
    /\ sessions \in Nat /\ sessions # 0
    /\ profileDialog \in {"closed", "open", "leaving"}
    /\ ~backupSuccess

(* What is sent was typed twice: the dialog opens over a form that is      *)
(* valid, leaves with it, and sends what it shows; unless the form is      *)
(* changed behind it.                                                      *)
Confirms ==
    /\ profileDialog = "open" => fields.new = fields.confirm
    /\ profileDialog = "leaving" => captured.new = captured.confirm
    /\ \A r \in profileRequests : r.form.new \in confirmed
    /\ password = Old \/ password \in confirmed

(* While all is calm one request at most is under way, and its page waits  *)
(* for it; the password is the one announced, unless the request has been  *)
(* carried out, and a page opened since announces nothing.                 *)
OneWaits == \A p, q \in profileRequests : p = q /\ p.waiting # 0
PassTold ==
    /\ OneWaits
    /\ \A r \in profileRequests :
         /\ r.at = "ok" => password = r.form.new
         /\ signedIn /\ r.waiting # sessions => ~passSuccess
    /\ signedIn /\ passSuccess /\ (\A r \in profileRequests : r.at # "ok")
          => password = told.password

PassInv == PassRequests /\ (behind \/ Confirms) /\ (calm["password"] => PassTold)

(* Every step keeps it.                                                    *)
LEMMA PassStep == PassInv /\ (Profile!Next \/ UNCHANGED profileVars) => PassInv'
<1> SUFFICES ASSUME PassInv, Profile!Next \/ UNCHANGED profileVars PROVE PassInv'
  OBVIOUS
<1> DEFINE requests == profileRequests
<1>r. \A r \in requests : RequestOf(r)
  BY DEF PassInv, PassRequests
<1>1. ASSUME UNCHANGED <<password, signedIn, sessions, profileRequests, profileSent, fields,
                         profileDialog, captured, passSuccess, backupSuccess, behind,
                         confirmed, told, calm>>
      PROVE  PassInv'
  BY <1>1 DEF PassInv, PassRequests, Confirms, OneWaits, PassTold
<1>2. CASE UNCHANGED profileVars
  BY <1>1, <1>2 DEF profileVars
<1>3. CASE Profile!TypePassword
  <2>1. /\ behind' <=> (behind \/ profileDialog = "open")
        /\ UNCHANGED <<password, signedIn, sessions, profileRequests, profileSent,
                       profileDialog, captured, passSuccess, backupSuccess, confirmed, told, calm>>
    BY <1>3 DEF Profile!TypePassword, Profile!bank, Profile!browser, Profile!backupForm
  <2>2. QED
    BY <2>1 DEF PassInv, PassRequests, Confirms, OneWaits, PassTold
<1>4. CASE Profile!HandlePasswordSubmit
  <2>1. /\ passSuccess' = FALSE
        /\ profileDialog' = profileDialog \/ (profileDialog' = "open" /\ fields.new = fields.confirm)
        /\ UNCHANGED <<password, signedIn, sessions, profileRequests, profileSent, fields,
                       captured, backupSuccess, behind, confirmed, told, calm>>
    BY <1>4 DEF Profile!HandlePasswordSubmit, Profile!Valid, Profile!bank, Profile!browser,
       Profile!backupForm, Profile!history
  <2>2. QED
    BY <2>1 DEF PassInv, PassRequests, Confirms, OneWaits, PassTold
<1>5. CASE Profile!CancelDialog \/ Profile!DialogGone
  <2>1. /\ \/ profileDialog = "open" /\ profileDialog' = "leaving" /\ captured' = fields
           \/ profileDialog' = "closed"
        /\ UNCHANGED <<password, signedIn, sessions, profileRequests, profileSent, fields,
                       passSuccess, backupSuccess, behind, confirmed, told, calm>>
    BY <1>5 DEF Profile!CancelDialog, Profile!DialogGone, Profile!Leave, Profile!bank,
       Profile!browser, Profile!backupForm, Profile!history
  <2>2. QED
    BY <2>1 DEF PassInv, PassRequests, Confirms, OneWaits, PassTold
<1>6. CASE Profile!HandlePasswordUpdate
  <2>1. PICK f : f = IF profileDialog = "open" THEN fields ELSE captured
    OBVIOUS
  <2>2. PICK r : r = [n |-> profileSent'["password"], kind |-> "password", form |-> f,
                      email |-> Profile!None, prefs |-> settings', at |-> "sent",
                      seen |-> Profile!Row, waiting |-> sessions]
    OBVIOUS
  <2>3. /\ profileDialog # "closed"
        /\ requests' = requests \cup {r}
        /\ Counted("password")
        /\ calm' = [calm EXCEPT !["password"] =
                        Profile!UnderWay("password") = {} /\ (calm["password"] \/ ~passSuccess)]
        /\ profileDialog' = "leaving" /\ captured' = f
        /\ confirmed' = IF f.new = f.confirm THEN confirmed \cup {f.new} ELSE confirmed
        /\ UNCHANGED <<password, signedIn, sessions, fields, passSuccess, backupSuccess,
                       behind, told>>
    BY <1>6, <2>1, <2>2 DEF Profile!HandlePasswordUpdate, Profile!Send, Profile!Leave,
       Profile!Announced, Profile!bank, Profile!browser, Profile!backupForm, Counted
  <2>4. /\ RequestOf(r) /\ r.kind = "password" /\ r.form = f /\ r.at = "sent"
        /\ r.waiting = sessions
    BY <2>2 DEF RequestOf
  <2>5. PassRequests'
    BY <2>3, <2>4 DEF PassInv, PassRequests, Counted, Kinds
  <2>6. ASSUME Confirms PROVE Confirms'
    <3>1. f.new = f.confirm
      BY <2>1, <2>3, <2>6 DEF Confirms, PassInv, PassRequests
    <3>2. QED
      BY <2>3, <2>4, <2>6, <3>1 DEF Confirms
  <2>7. ASSUME calm'["password"] PROVE PassTold'
    <3>1. Profile!UnderWay("password") = {} /\ (calm["password"] \/ ~passSuccess)
      BY <2>3, <2>7 DEF PassInv, PassRequests, Kinds
    <3>2. requests = {}
      BY <3>1 DEF Profile!UnderWay, PassInv, PassRequests
    <3>3. sessions # 0
      BY DEF PassInv, PassRequests
    <3>4. QED
      BY <2>3, <2>4, <3>1, <3>2, <3>3 DEF PassInv, PassTold, OneWaits
  <2>8. QED
    BY <2>3, <2>5, <2>6, <2>7 DEF PassInv
(* What a request under way does. *)
<1>7. ASSUME NEW r \in requests, NEW d, Becomes(r, d), NEW s \in {{}, {d}},
             requests' = (requests \ {r}) \cup s,
             password' \in {password, r.form.new},
             UNCHANGED <<sessions, profileSent, profileDialog, backupSuccess>>,
             DOMAIN calm' = DOMAIN calm,
             told' = told \/ \E x : told' = [told EXCEPT !.password = x],
             UNCHANGED <<behind, confirmed, captured>>,
             fields' = fields \/ fields' = Profile!Empty
      PROVE  PassRequests' /\ (behind \/ Confirms)'
  <2>1. r.kind = "password" /\ \A q \in requests' : q \in requests \/ q = d
    BY <1>7 DEF PassInv, PassRequests
  <2>2. told' = [password |-> told'.password, email |-> told'.email]
    BY <1>7 DEF PassInv, PassRequests
  <2>3. PassRequests'
    BY <1>7, <2>1, <2>2 DEF PassInv, PassRequests, Becomes
  <2>4. ASSUME Confirms PROVE Confirms'
    <3>1. fields'.new = fields'.confirm \/ fields' = fields
      BY <1>7 DEF Profile!Empty
    <3>2. r.form.new \in confirmed /\ d.form = r.form
      BY <1>7, <2>4 DEF Confirms, Becomes
    <3>3. QED
      BY <1>7, <2>1, <2>4, <3>1, <3>2 DEF Confirms
  <2>5. QED
    BY <1>7, <2>3, <2>4 DEF PassInv
<1>8. ASSUME NEW r \in requests, Profile!Reads(r) PROVE PassInv'
  <2>1. PICK d : d = [r EXCEPT !.at = "read", !.seen = Profile!Row]
    OBVIOUS
  <2>2. /\ r.at = "sent" /\ requests' = (requests \ {r}) \cup {d}
        /\ UNCHANGED <<password, signedIn, sessions, profileSent, fields, profileDialog,
                       captured, passSuccess, backupSuccess, behind, confirmed, told, calm>>
    BY <1>8, <2>1 DEF Profile!Reads, Profile!Instead, Profile!bank, Profile!browser,
       Profile!passForm, Profile!backupForm, Profile!history
  <2>3. Becomes(r, d) /\ d.at = "read" /\ d.waiting = r.waiting
    <3>1. PICK c : c = [r EXCEPT !.at = "read"]
      OBVIOUS
    <3>2. d = [c EXCEPT !.seen = Profile!Row]
      BY <2>1, <3>1
    <3>3. Becomes(r, c) /\ c.at = "read" /\ c.waiting = r.waiting
      BY <1>r, <3>1, RequestGoesOn
    <3>4. Becomes(c, d) /\ d.at = c.at /\ d.seen = Profile!Row /\ d.waiting = c.waiting
      BY <3>2, <3>3, RequestReads DEF Becomes
    <3>5. QED
      BY <3>3, <3>4 DEF Becomes
  <2>4. PassRequests' /\ (behind \/ Confirms)'
    BY <1>7, <2>2, <2>3
  <2>5. ASSUME PassTold PROVE PassTold'
    BY <2>2, <2>3, <2>5 DEF PassTold, OneWaits
  <2>6. QED
    BY <2>2, <2>4, <2>5 DEF PassInv
<1>9. ASSUME NEW r \in requests, Profile!Commits(r) PROVE PassInv'
  <2>0. r.kind = "password"
    BY DEF PassInv, PassRequests
  <2>1. Profile!UpdatePassword(r)
    BY <1>9, <2>0 DEF Profile!Commits, Profile!UpdateBackupEmail, Profile!UpdatePreferences
  <2>a. PICK a \in {"ok", "refused"} :
          /\ requests' = (requests \ {r}) \cup
                (IF r.waiting = 0 THEN {} ELSE {[r EXCEPT !.at = a]})
          /\ password' = IF a = "ok" THEN r.form.new ELSE password
    BY <2>1 DEF Profile!UpdatePassword, Profile!Decided, Profile!Instead
  <2>d. PICK d : d = [r EXCEPT !.at = a]
    OBVIOUS
  <2>2. /\ d = [r EXCEPT !.at = a]
        /\ requests' = (requests \ {r}) \cup (IF r.waiting = 0 THEN {} ELSE {d})
        /\ password' = IF a = "ok" THEN r.form.new ELSE password
    BY <2>a, <2>d
  <2>3. UNCHANGED <<signedIn, sessions, profileSent, fields, profileDialog, captured,
                    passSuccess, backupSuccess, behind, confirmed, told, calm>>
    BY <1>9 DEF Profile!Commits, Profile!browser, Profile!passForm, Profile!backupForm,
       Profile!history
  <2>4. /\ r.at = "read" /\ Becomes(r, d) /\ d.at = a /\ d.waiting = r.waiting
    BY <1>r, <2>1, <2>2, RequestGoesOn DEF Profile!UpdatePassword
  <2>5. PassRequests' /\ (behind \/ Confirms)'
    <3>1. (IF r.waiting = 0 THEN {} ELSE {d}) \in {{}, {d}} /\ password' \in {password, r.form.new}
      BY <2>2
    <3>2. QED
      BY <1>7, <2>2, <2>3, <2>4, <3>1
  <2>6. ASSUME PassTold PROVE PassTold'
    <3>1. r.waiting # 0 /\ requests = {r}
      BY <2>6 DEF PassTold, OneWaits
    <3>2. requests' = {d} /\ d.form = r.form
      BY <2>2, <2>4, <3>1 DEF Becomes
    <3>3. QED
      BY <2>2, <2>3, <2>4, <2>6, <3>1, <3>2 DEF PassTold, OneWaits
  <2>7. QED
    BY <2>3, <2>5, <2>6 DEF PassInv
<1>10. ASSUME NEW r \in requests, Profile!Refused(r) PROVE PassInv'
  <2>1. /\ r.at = "refused" /\ requests' = (requests \ {r}) \cup {}
        /\ UNCHANGED <<password, signedIn, sessions, profileSent, fields, profileDialog,
                       captured, passSuccess, backupSuccess, behind, confirmed, told, calm>>
    BY <1>10 DEF Profile!Refused, Profile!Instead, Profile!Reported, Profile!bank, Profile!browser
  <2>2. PassRequests' /\ (behind \/ Confirms)'
    <3>1. Becomes(r, r)
      BY DEF Becomes, PassInv, PassRequests
    <3>2. QED
      BY <1>7, <2>1, <3>1
  <2>3. ASSUME PassTold PROVE PassTold'
    BY <2>1, <2>3 DEF PassTold, OneWaits
  <2>4. QED
    BY <2>1, <2>2, <2>3 DEF PassInv
<1>11. ASSUME NEW r \in requests, Profile!Fails(r) PROVE PassInv'
  <2>1. PICK d : d = [r EXCEPT !.waiting = 0]
    OBVIOUS
  <2>2. PICK s \in {{}, {d}} : requests' = (requests \ {r}) \cup s
    BY <1>11, <2>1 DEF Profile!Fails, Profile!Instead
  <2>3. /\ calm' = [calm EXCEPT ![r.kind] = FALSE]
        /\ UNCHANGED <<password, signedIn, sessions, profileSent, fields, profileDialog,
                       captured, passSuccess, backupSuccess, behind, confirmed, told>>
    BY <1>11 DEF Profile!Fails, Profile!Reported, Profile!bank, Profile!browser
  <2>4. Becomes(r, d)
    BY <1>r, <2>1, RequestLeft
  <2>5. PassRequests' /\ (behind \/ Confirms)'
    BY <1>7, <2>2, <2>3, <2>4
  <2>6. ~calm'["password"]
    BY <2>3 DEF PassInv, PassRequests, Kinds
  <2>7. QED
    BY <2>5, <2>6 DEF PassInv
<1>12. ASSUME NEW r \in requests, Profile!PasswordUpdated(r) PROVE PassInv'
  <2>1. /\ r.at = "ok" /\ requests' = (requests \ {r}) \cup {}
        /\ UNCHANGED <<password, signedIn, sessions, profileSent, profileDialog, captured,
                       backupSuccess, behind, confirmed, calm>>
    BY <1>12 DEF Profile!PasswordUpdated, Profile!Instead, Profile!bank, Profile!backupForm
  <2>2. IF r.waiting = sessions /\ signedIn
        THEN fields' = Profile!Empty /\ told' = [told EXCEPT !.password = r.form.new]
        ELSE UNCHANGED <<passSuccess, fields, told>>
    BY <1>12 DEF Profile!PasswordUpdated
  <2>3. PassRequests' /\ (behind \/ Confirms)'
    <3>1. Becomes(r, r)
      BY DEF Becomes, PassInv, PassRequests
    <3>2. QED
      BY <1>7, <2>1, <2>2, <3>1
  <2>4. ASSUME PassTold PROVE PassTold'
    <3>1. requests = {r} /\ requests' = {} /\ password = r.form.new
      BY <2>1, <2>4 DEF PassTold, OneWaits
    <3>2. CASE r.waiting = sessions /\ signedIn
      <4>1. told'.password = password
        BY <2>2, <3>1, <3>2 DEF PassInv, PassRequests
      <4>2. QED
        BY <2>1, <3>1, <4>1 DEF PassTold, OneWaits
    <3>3. CASE ~(r.waiting = sessions /\ signedIn)
      <4>1. ~(signedIn /\ passSuccess) /\ UNCHANGED passSuccess
        BY <2>2, <2>4, <3>3 DEF PassTold
      <4>2. QED
        BY <2>1, <3>1, <4>1 DEF PassTold, OneWaits
    <3>4. QED
      BY <3>2, <3>3
  <2>5. QED
    BY <2>1, <2>3, <2>4 DEF PassInv
<1>13. CASE Profile!LogoutTimer
  <2>1. /\ signedIn' = FALSE
        /\ UNCHANGED <<password, sessions, profileRequests, profileSent, fields, profileDialog,
                       captured, passSuccess, backupSuccess, behind, confirmed, told, calm>>
    BY <1>13 DEF Profile!LogoutTimer, Profile!bank, Profile!passForm, Profile!backupForm,
       Profile!history
  <2>2. QED
    BY <2>1 DEF PassInv, PassRequests, Confirms, OneWaits, PassTold
<1>14. CASE Profile!LogIn
  <2>1. /\ sessions' = sessions + 1 /\ profileDialog' = "closed"
        /\ passSuccess' = FALSE /\ backupSuccess' = FALSE
        /\ calm' = [calm EXCEPT !["preferences"] =
                        calm["preferences"] /\ Profile!UnderWay("preferences") = {}]
        /\ UNCHANGED <<password, profileRequests, profileSent, behind, confirmed, told>>
    BY <1>14 DEF Profile!LogIn, Profile!bank
  <2>2. DOMAIN calm' = DOMAIN calm /\ (calm'["password"] => calm["password"])
    BY <2>1 DEF PassInv, PassRequests, Kinds
  <2>3. sessions' \in Nat /\ sessions' # 0
    BY <2>1 DEF PassInv, PassRequests
  <2>4. PassRequests'
    BY <2>1, <2>2, <2>3 DEF PassInv, PassRequests
  <2>5. Confirms => Confirms'
    BY <2>1 DEF Confirms
  <2>6. PassTold => PassTold'
    BY <2>1 DEF PassTold, OneWaits
  <2>7. QED
    BY <2>1, <2>2, <2>4, <2>5, <2>6 DEF PassInv
(* The other forms have nothing to send. *)
<1>15. CASE Profile!HandleBackupUpdate \/ Profile!OtherTakes
  BY <1>15 DEF Profile!HandleBackupUpdate, Profile!OtherTakes
<1>16. CASE Profile!UpdateSettings
  <2>1. profileSent["preferences"] < Bounds(MaxChanges, 0, 0)["preferences"]
    BY <1>16 DEF Profile!UpdateSettings, Profile!Send
  <2>2. QED
    BY <2>1 DEF Bounds, PassInv, PassRequests
<1>17. ASSUME NEW r \in requests, Profile!BackupUpdated(r) \/ Profile!PreferencesUpdated(r)
       PROVE  FALSE
  BY <1>17 DEF Profile!BackupUpdated, Profile!PreferencesUpdated, PassInv, PassRequests
<1>18. QED
  BY <1>2, <1>3, <1>4, <1>5, <1>6, <1>8, <1>9, <1>10, <1>11, <1>12, <1>13, <1>14, <1>15,
     <1>16, <1>17 DEF Profile!Next

(* At first nothing is sent; and what the invariant says of the claims.    *)
LEMMA PassFacts ==
    /\ Profile!Init => PassInv
    /\ PassInv => Profile!ChangeWasConfirmed /\ Profile!ToldIsStored
<1>1. Profile!Init => PassInv
  <2> SUFFICES ASSUME Profile!Init PROVE PassInv
    OBVIOUS
  <2>1. /\ password = Old /\ sessions = 1 /\ profileRequests = {}
        /\ profileSent = [k \in Kinds |-> 0] /\ calm = [k \in Kinds |-> TRUE]
        /\ profileDialog = "closed" /\ passSuccess = FALSE /\ backupSuccess = FALSE
        /\ told = [password |-> Old, email |-> Profile!None]
    BY DEF Profile!Init, Profile!Kind, Kinds
  <2>2. QED
    BY <2>1 DEF PassInv, PassRequests, Confirms, PassTold, OneWaits, Kinds
<1>2. ASSUME PassInv PROVE Profile!ChangeWasConfirmed
  BY <1>2 DEF PassInv, Confirms, Profile!ChangeWasConfirmed
<1>3. ASSUME PassInv PROVE Profile!ToldIsStored
  <2>1. Profile!UnderWay("password") = profileRequests
    BY <1>3 DEF Profile!UnderWay, PassInv, PassRequests
  <2>2. QED
    BY <1>3, <2>1 DEF PassInv, PassRequests, PassTold, Profile!ToldIsStored
<1>4. QED
  BY <1>1, <1>2, <1>3

-----------------------------------------------------------------------------
(* The backup email.                                                       *)

(* The page with requests for a backup email only.                         *)
MailRequests ==
    /\ \A r \in profileRequests : RequestOf(r) /\ r.kind = "backup"
    /\ DOMAIN profileSent = Kinds /\ profileSent["preferences"] = 0
    /\ DOMAIN calm = Kinds
    /\ told = [password |-> told.password, email |-> told.email]
    /\ fields = Backup!Empty /\ profileDialog = "closed"
    /\ sessions = 1 /\ ~passSuccess

(* While all is calm nothing is announced as long as a request is under    *)
(* way, and what is announced is stored.                                   *)
MailTold ==
    /\ OneWaits
    /\ \A r \in profileRequests :
         /\ r.at = "ok" => backup = r.email
         /\ signedIn => ~backupSuccess
    /\ signedIn /\ backupSuccess => backup = told.email

MailInv == MailRequests /\ (calm["backup"] => MailTold)

(* Every step keeps it.                                                    *)
LEMMA MailStep == MailInv /\ (Backup!Next \/ UNCHANGED profileVars) => MailInv'
<1> SUFFICES ASSUME MailInv, Backup!Next \/ UNCHANGED profileVars PROVE MailInv'
  OBVIOUS
<1> DEFINE requests == profileRequests
<1>r. \A r \in requests : RequestOf(r)
  BY DEF MailInv, MailRequests
<1>1. ASSUME UNCHANGED <<backup, sessions, profileRequests, profileSent, fields,
                         profileDialog, passSuccess, backupSuccess, told, calm>>,
             signedIn' => signedIn
      PROVE  MailInv'
  BY <1>1 DEF MailInv, MailRequests, OneWaits, MailTold
<1>2. CASE UNCHANGED profileVars
  BY <1>1, <1>2 DEF profileVars
<1>3. CASE Backup!OtherTakes
  BY <1>1, <1>3 DEF Backup!OtherTakes, Backup!browser, Backup!passForm, Backup!backupForm,
     Backup!history
<1>4. CASE Backup!LogoutTimer
  BY <1>1, <1>4 DEF Backup!LogoutTimer, Backup!bank, Backup!passForm, Backup!backupForm,
     Backup!history
<1>5. CASE Backup!HandleBackupUpdate
  <2>1. PICK e, r : /\ r = [n |-> profileSent'["backup"], kind |-> "backup",
                            form |-> Backup!Empty, email |-> e, prefs |-> settings',
                            at |-> "sent", seen |-> Backup!Row, waiting |-> sessions]
                    /\ Backup!Send("backup", Backup!Empty, e)
    BY <1>5 DEF Backup!HandleBackupUpdate
  <2>2. /\ requests' = requests \cup {r}
        /\ Counted("backup")
        /\ calm' = [calm EXCEPT !["backup"] =
                        Backup!UnderWay("backup") = {}
                          /\ (calm["backup"] \/ ~Backup!Announced("backup"))]
    BY <2>1 DEF Backup!Send, Counted
  <2>3. /\ backupSuccess' = FALSE
        /\ UNCHANGED <<backup, signedIn, sessions, fields, profileDialog, passSuccess, told>>
    BY <1>5 DEF Backup!HandleBackupUpdate, Backup!browser, Backup!bank, Backup!passForm
  <2>4. RequestOf(r) /\ r.kind = "backup" /\ r.at = "sent" /\ r.waiting = sessions
    BY <2>1 DEF RequestOf
  <2>5. MailRequests'
    BY <2>2, <2>3, <2>4 DEF MailInv, MailRequests, Counted, Kinds
  <2>6. ASSUME calm'["backup"] PROVE MailTold'
    <3>1. Backup!UnderWay("backup") = {}
      BY <2>2, <2>6 DEF MailInv, MailRequests, Kinds
    <3>2. requests = {} /\ sessions # 0
      BY <3>1 DEF Backup!UnderWay, MailInv, MailRequests
    <3>3. QED
      BY <2>2, <2>3, <2>4, <3>2 DEF MailTold, OneWaits
  <2>7. QED
    BY <2>5, <2>6 DEF MailInv
(* What a request under way does. *)
<1>6. ASSUME NEW r \in requests, NEW d, Becomes(r, d), NEW s \in {{}, {d}},
             requests' = (requests \ {r}) \cup s,
             UNCHANGED <<sessions, profileSent, fields, profileDialog, passSuccess>>,
             DOMAIN calm' = DOMAIN calm,
             told' = told \/ told' = [told EXCEPT !.email = r.email]
      PROVE  MailRequests'
  <2>1. r.kind = "backup" /\ \A q \in requests' : q \in requests \/ q = d
    BY <1>6 DEF MailInv, MailRequests
  <2>2. told' = [password |-> told'.password, email |-> told'.email]
    BY <1>6 DEF MailInv, MailRequests
  <2>3. QED
    BY <1>6, <2>1, <2>2 DEF MailInv, MailRequests, Becomes
<1>7. ASSUME NEW r \in requests, Backup!Reads(r) PROVE MailInv'
  <2>1. PICK d : d = [r EXCEPT !.at = "read", !.seen = Backup!Row]
    OBVIOUS
  <2>2. /\ requests' = (requests \ {r}) \cup {d}
        /\ UNCHANGED <<backup, signedIn, sessions, profileSent, fields, profileDialog,
                       passSuccess, backupSuccess, told, calm>>
    BY <1>7, <2>1 DEF Backup!Reads, Backup!Instead, Backup!bank, Backup!browser,
       Backup!passForm, Backup!backupForm, Backup!history
  <2>3. Becomes(r, d) /\ d.at = "read" /\ d.waiting = r.waiting
    <3>1. PICK c : c = [r EXCEPT !.at = "read"]
      OBVIOUS
    <3>2. d = [c EXCEPT !.seen = Backup!Row]
      BY <2>1, <3>1
    <3>3. Becomes(r, c) /\ c.at = "read" /\ c.waiting = r.waiting
      BY <1>r, <3>1, RequestGoesOn
    <3>4. Becomes(c, d) /\ d.at = c.at /\ d.waiting = c.waiting
      BY <3>2, <3>3, RequestReads DEF Becomes
    <3>5. QED
      BY <3>3, <3>4 DEF Becomes
  <2>4. MailRequests'
    BY <1>6, <2>2, <2>3
  <2>5. ASSUME MailTold PROVE MailTold'
    BY <2>2, <2>3, <2>5 DEF MailTold, OneWaits
  <2>6. QED
    BY <2>2, <2>4, <2>5 DEF MailInv
<1>8. ASSUME NEW r \in requests, Backup!Commits(r) PROVE MailInv'
  <2>0. r.kind = "backup"
    BY DEF MailInv, MailRequests
  <2>1. Backup!UpdateBackupEmail(r)
    BY <1>8, <2>0 DEF Backup!Commits, Backup!UpdatePassword, Backup!UpdatePreferences
  <2>a. PICK a \in {"ok", "refused"} :
          /\ requests' = (requests \ {r}) \cup
                (IF r.waiting = 0 THEN {} ELSE {[r EXCEPT !.at = a]})
          /\ backup' = IF a = "ok" THEN r.email ELSE backup
    BY <2>1 DEF Backup!UpdateBackupEmail, Backup!Decided, Backup!Instead
  <2>d. PICK d : d = [r EXCEPT !.at = a]
    OBVIOUS
  <2>2. /\ d = [r EXCEPT !.at = a]
        /\ requests' = (requests \ {r}) \cup (IF r.waiting = 0 THEN {} ELSE {d})
        /\ backup' = IF a = "ok" THEN r.email ELSE backup
    BY <2>a, <2>d
  <2>3. UNCHANGED <<signedIn, sessions, profileSent, fields, profileDialog, passSuccess,
                    backupSuccess, told, calm>>
    BY <1>8 DEF Backup!Commits, Backup!browser, Backup!passForm, Backup!backupForm,
       Backup!history
  <2>4. Becomes(r, d) /\ d.at = a /\ d.waiting = r.waiting
    BY <1>r, <2>2, RequestGoesOn
  <2>5. MailRequests'
    <3>1. (IF r.waiting = 0 THEN {} ELSE {d}) \in {{}, {d}}
      OBVIOUS
    <3>2. QED
      BY <1>6, <2>2, <2>3, <2>4, <3>1
  <2>6. ASSUME MailTold PROVE MailTold'
    <3>1. r.waiting # 0 /\ requests = {r} /\ (signedIn => ~backupSuccess)
      BY <2>6 DEF MailTold, OneWaits
    <3>2. requests' = {d} /\ d.email = r.email
      BY <2>2, <2>4, <3>1 DEF Becomes
    <3>3. QED
      BY <2>2, <2>3, <2>4, <3>1, <3>2 DEF MailTold, OneWaits
  <2>7. QED
    BY <2>3, <2>5, <2>6 DEF MailInv
<1>9. ASSUME NEW r \in requests, Backup!Refused(r) PROVE MailInv'
  <2>1. /\ requests' = (requests \ {r}) \cup {}
        /\ UNCHANGED <<backup, signedIn, sessions, profileSent, fields, profileDialog,
                       passSuccess, backupSuccess, told, calm>>
    BY <1>9 DEF Backup!Refused, Backup!Instead, Backup!Reported, Backup!bank, Backup!browser
  <2>2. MailRequests'
    <3>1. Becomes(r, r)
      BY <1>r DEF Becomes
    <3>2. QED
      BY <1>6, <2>1, <3>1
  <2>3. ASSUME MailTold PROVE MailTold'
    BY <2>1, <2>3 DEF MailTold, OneWaits
  <2>4. QED
    BY <2>1, <2>2, <2>3 DEF MailInv
<1>10. ASSUME NEW r \in requests, Backup!Fails(r) PROVE MailInv'
  <2>1. PICK d : d = [r EXCEPT !.waiting = 0]
    OBVIOUS
  <2>2. PICK s \in {{}, {d}} : requests' = (requests \ {r}) \cup s
    BY <1>10, <2>1 DEF Backup!Fails, Backup!Instead
  <2>3. /\ calm' = [calm EXCEPT ![r.kind] = FALSE]
        /\ UNCHANGED <<sessions, profileSent, fields, profileDialog, passSuccess, told>>
    BY <1>10 DEF Backup!Fails, Backup!Reported, Backup!browser
  <2>4. MailRequests'
    BY <1>6, <1>r, <2>1, <2>2, <2>3, RequestLeft
  <2>5. ~calm'["backup"]
    BY <2>3 DEF MailInv, MailRequests, Kinds
  <2>6. QED
    BY <2>4, <2>5 DEF MailInv
<1>11. ASSUME NEW r \in requests, Backup!BackupUpdated(r) PROVE MailInv'
  <2>1. /\ r.at = "ok" /\ requests' = (requests \ {r}) \cup {}
        /\ UNCHANGED <<backup, signedIn, sessions, profileSent, fields, profileDialog,
                       passSuccess, calm>>
    BY <1>11 DEF Backup!BackupUpdated, Backup!Instead, Backup!bank, Backup!browser,
       Backup!passForm
  <2>2. IF r.waiting = sessions /\ signedIn
        THEN told' = [told EXCEPT !.email = r.email]
        ELSE UNCHANGED <<backupSuccess, told>>
    BY <1>11 DEF Backup!BackupUpdated
  <2>3. MailRequests'
    <3>1. Becomes(r, r)
      BY <1>r DEF Becomes
    <3>2. QED
      BY <1>6, <2>1, <2>2, <3>1
  <2>4. ASSUME MailTold PROVE MailTold'
    <3>1. requests' = {} /\ backup = r.email /\ (signedIn => ~backupSuccess)
      BY <2>1, <2>4 DEF MailTold, OneWaits
    <3>2. r.waiting = sessions /\ signedIn => told'.email = backup
      BY <2>2, <3>1 DEF MailInv, MailRequests
    <3>3. QED
      BY <2>1, <2>2, <3>1, <3>2 DEF MailTold, OneWaits
  <2>5. QED
    BY <2>1, <2>3, <2>4 DEF MailInv
(* The other forms have nothing to send, and there is one session. *)
<1>12. CASE \/ Backup!TypePassword \/ Backup!HandlePasswordSubmit \/ Backup!CancelDialog
            \/ Backup!DialogGone \/ Backup!HandlePasswordUpdate \/ Backup!LogIn
  BY <1>12 DEF Backup!TypePassword, Backup!HandlePasswordSubmit, Backup!CanSubmitPassword,
     Backup!CancelDialog, Backup!DialogGone, Backup!HandlePasswordUpdate, Backup!LogIn,
     MailInv, MailRequests
<1>13. CASE Backup!UpdateSettings
  <2>1. profileSent["preferences"] < Bounds(0, MaxBackups, 0)["preferences"]
    BY <1>13 DEF Backup!UpdateSettings, Backup!Send
  <2>2. QED
    BY <2>1 DEF Bounds, MailInv, MailRequests
<1>14. ASSUME NEW r \in requests, Backup!PasswordUpdated(r) \/ Backup!PreferencesUpdated(r)
       PROVE  FALSE
  BY <1>14 DEF Backup!PasswordUpdated, Backup!PreferencesUpdated, MailInv, MailRequests
<1>15. QED
  BY <1>2, <1>3, <1>4, <1>5, <1>7, <1>8, <1>9, <1>10, <1>11, <1>12, <1>13, <1>14
     DEF Backup!Next

(* At first nothing is sent; and what the invariant says of the claim.     *)
LEMMA MailFacts == (Backup!Init => MailInv) /\ (MailInv => Backup!ToldIsStored)
<1>1. Backup!Init => MailInv
  <2> SUFFICES ASSUME Backup!Init PROVE MailInv
    OBVIOUS
  <2>1. /\ sessions = 1 /\ profileRequests = {} /\ fields = Backup!Empty
        /\ profileSent = [k \in Kinds |-> 0] /\ calm = [k \in Kinds |-> TRUE]
        /\ profileDialog = "closed" /\ passSuccess = FALSE /\ backupSuccess = FALSE
        /\ told = [password |-> Old, email |-> Backup!None]
    BY DEF Backup!Init, Backup!Kind, Kinds
  <2>2. QED
    BY <2>1 DEF MailInv, MailRequests, MailTold, OneWaits, Kinds
<1>2. ASSUME MailInv PROVE Backup!ToldIsStored
  BY <1>2 DEF MailInv, MailRequests, MailTold, Backup!ToldIsStored
<1>3. QED
  BY <1>1, <1>2

-----------------------------------------------------------------------------
(* The display preferences.                                                *)

Choices == {"use24Hour", "useEUDates"}

(* The page with requests for preferences only.                            *)
SaveRequests ==
    /\ \A r \in profileRequests : RequestOf(r) /\ r.kind = "preferences"
    /\ DOMAIN calm = Kinds
    /\ fields = Preferences!Empty /\ profileDialog = "closed" /\ sessions = 1
    /\ settings = [c \in Choices |-> settings[c]]
    /\ prefs = [c \in Choices |-> prefs[c]]

(* While all is calm the one request under way asks for what is displayed, *)
(* has read what is stored, and has stored it when it is answered.         *)
PrefsKept ==
    /\ OneWaits
    /\ profileRequests = {} => settings = prefs
    /\ \A r \in profileRequests :
         /\ r.prefs = settings
         /\ \/ r.at = "sent"
            \/ r.at = "read" /\ r.seen.prefs = prefs
            \/ r.at = "ok" /\ prefs = settings

PrefsInv == SaveRequests /\ (calm["preferences"] => PrefsKept)

(* Every step keeps it.                                                    *)
LEMMA PrefsStep == PrefsInv /\ (Preferences!Next \/ UNCHANGED profileVars) => PrefsInv'
<1> SUFFICES ASSUME PrefsInv, Preferences!Next \/ UNCHANGED profileVars PROVE PrefsInv'
  OBVIOUS
<1> DEFINE requests == profileRequests
<1>r. \A r \in requests : RequestOf(r)
  BY DEF PrefsInv, SaveRequests
<1>1. ASSUME UNCHANGED <<prefs, settings, sessions, profileRequests, fields, profileDialog, calm>>
      PROVE  PrefsInv'
  BY <1>1 DEF PrefsInv, SaveRequests, OneWaits, PrefsKept
<1>2. CASE UNCHANGED profileVars
  BY <1>1, <1>2 DEF profileVars
<1>3. CASE Preferences!LogoutTimer
  BY <1>1, <1>3 DEF Preferences!LogoutTimer, Preferences!bank, Preferences!passForm,
     Preferences!history
<1>4. CASE Preferences!UpdateSettings
  <2>1. PICK r : r = [n |-> profileSent'["preferences"], kind |-> "preferences",
                      form |-> Preferences!Empty, email |-> Preferences!None,
                      prefs |-> settings', at |-> "sent", seen |-> Preferences!Row,
                      waiting |-> sessions]
    OBVIOUS
  <2>2. /\ requests' = requests \cup {r}
        /\ calm' = [calm EXCEPT !["preferences"] =
                        Preferences!UnderWay("preferences") = {}
                          /\ (calm["preferences"] \/ ~Preferences!Announced("preferences"))]
        /\ \E s \in DOMAIN settings : settings' = [settings EXCEPT ![s] = ~settings[s]]
        /\ UNCHANGED <<prefs, sessions, fields, profileDialog>>
    BY <1>4, <2>1 DEF Preferences!UpdateSettings, Preferences!Send, Preferences!Toggle,
       Preferences!bank, Preferences!passForm
  <2>3. /\ RequestOf(r) /\ r.kind = "preferences" /\ r.at = "sent" /\ r.waiting = sessions
        /\ r.prefs = settings'
    BY <2>1 DEF RequestOf
  <2>4. settings' = [c \in Choices |-> settings'[c]]
    <3>1. settings = [c \in Choices |-> settings[c]]
      BY DEF PrefsInv, SaveRequests
    <3>2. QED
      BY <2>2, <3>1
  <2>5. SaveRequests'
    BY <2>2, <2>3, <2>4 DEF PrefsInv, SaveRequests, Kinds
  <2>6. ASSUME calm'["preferences"] PROVE PrefsKept'
    <3>1. Preferences!UnderWay("preferences") = {}
      BY <2>2, <2>6 DEF PrefsInv, SaveRequests, Kinds
    <3>2. requests = {} /\ sessions # 0
      BY <3>1 DEF Preferences!UnderWay, PrefsInv, SaveRequests
    <3>3. QED
      BY <2>2, <2>3, <3>2 DEF PrefsKept, OneWaits
  <2>7. QED
    BY <2>5, <2>6 DEF PrefsInv
(* What a request under way does. *)
<1>5. ASSUME NEW r \in requests, NEW d, Becomes(r, d), NEW s \in {{}, {d}},
             requests' = (requests \ {r}) \cup s,
             UNCHANGED <<settings, sessions, fields, profileDialog>>,
             DOMAIN calm' = DOMAIN calm,
             prefs' = [c \in Choices |-> prefs'[c]]
      PROVE  SaveRequests'
  <2>1. r.kind = "preferences" /\ \A q \in requests' : q \in requests \/ q = d
    BY <1>5 DEF PrefsInv, SaveRequests
  <2>2. settings' = [c \in Choices |-> settings'[c]]
    BY <1>5 DEF PrefsInv, SaveRequests
  <2>3. \A q \in requests' : RequestOf(q) /\ q.kind = "preferences"
    BY <1>5, <2>1 DEF PrefsInv, SaveRequests, Becomes
  <2>4. QED
    BY <1>5, <2>2, <2>3 DEF PrefsInv, SaveRequests
<1>p. prefs = [c \in Choices |-> prefs[c]] /\ settings = [c \in Choices |-> settings[c]]
  BY DEF PrefsInv, SaveRequests
<1>6. ASSUME NEW r \in requests, Preferences!Reads(r) PROVE PrefsInv'
  <2>1. PICK d : d = [r EXCEPT !.at = "read", !.seen = Preferences!Row]
    OBVIOUS
  <2>2. /\ r.at = "sent" /\ requests' = (requests \ {r}) \cup {d}
        /\ UNCHANGED <<prefs, settings, sessions, fields, profileDialog, calm>>
    BY <1>6, <2>1 DEF Preferences!Reads, Preferences!Instead, Preferences!bank,
       Preferences!browser, Preferences!passForm, Preferences!history
  <2>3. Becomes(r, d) /\ d.at = "read" /\ d.waiting = r.waiting /\ d.seen.prefs = prefs
    <3>1. PICK c : c = [r EXCEPT !.at = "read"]
      OBVIOUS
    <3>2. d = [c EXCEPT !.seen = Preferences!Row]
      BY <2>1, <3>1
    <3>3. Becomes(r, c) /\ c.at = "read" /\ c.waiting = r.waiting
      BY <1>r, <3>1, RequestGoesOn
    <3>4. Becomes(c, d) /\ d.at = c.at /\ d.seen = Preferences!Row /\ d.waiting = c.waiting
      BY <3>2, <3>3, RequestReads DEF Becomes
    <3>5. QED
      BY <3>3, <3>4 DEF Becomes, Preferences!Row
  <2>4. SaveRequests'
    BY <1>5, <1>p, <2>2, <2>3
  <2>5. ASSUME PrefsKept PROVE PrefsKept'
    BY <2>2, <2>3, <2>5 DEF PrefsKept, OneWaits, Becomes
  <2>6. QED
    BY <2>2, <2>4, <2>5 DEF PrefsInv
<1>7. ASSUME NEW r \in requests, Preferences!Commits(r) PROVE PrefsInv'
  <2>0. r.kind = "preferences"
    BY DEF PrefsInv, SaveRequests
  <2>1. Preferences!UpdatePreferences(r)
    BY <1>7, <2>0 DEF Preferences!Commits, Preferences!UpdatePassword, Preferences!UpdateBackupEmail
  <2>2. PICK d :
          /\ d = [r EXCEPT !.at = "ok"]
          /\ requests' = (requests \ {r}) \cup (IF r.waiting = 0 THEN {} ELSE {d})
          /\ prefs' = [c \in DOMAIN prefs |->
                          IF r.prefs[c] # r.seen.prefs[c] THEN r.prefs[c] ELSE prefs[c]]
    BY <2>1 DEF Preferences!UpdatePreferences, Preferences!Decided, Preferences!Instead
  <2>3. UNCHANGED <<settings, sessions, fields, profileDialog, calm>>
    BY <1>7 DEF Preferences!Commits, Preferences!browser, Preferences!passForm,
       Preferences!history
  <2>4. r.at = "read" /\ Becomes(r, d) /\ d.at = "ok" /\ d.waiting = r.waiting
    BY <1>r, <2>1, <2>2, RequestGoesOn DEF Preferences!UpdatePreferences
  <2>5. DOMAIN prefs = Choices /\ prefs' = [c \in Choices |-> prefs'[c]]
    BY <1>p, <2>2
  <2>6. SaveRequests'
    <3>1. (IF r.waiting = 0 THEN {} ELSE {d}) \in {{}, {d}}
      OBVIOUS
    <3>2. QED
      BY <1>5, <2>2, <2>3, <2>4, <2>5, <3>1
  <2>7. ASSUME PrefsKept PROVE PrefsKept'
    <3>1. /\ r.waiting # 0 /\ requests = {r}
          /\ r.prefs = settings /\ r.seen.prefs = prefs
      BY <2>4, <2>7 DEF PrefsKept, OneWaits
    <3>2. \A c \in Choices : prefs'[c] = settings[c]
      BY <2>2, <2>5, <3>1
    <3>3. prefs' = settings
      BY <1>p, <2>5, <3>2
    <3>4. requests' = {d} /\ d.prefs = r.prefs
      BY <2>2, <2>4, <3>1 DEF Becomes
    <3>5. QED
      BY <2>3, <2>4, <3>1, <3>3, <3>4 DEF PrefsKept, OneWaits
  <2>8. QED
    BY <2>3, <2>6, <2>7 DEF PrefsInv
<1>8. ASSUME NEW r \in requests, Preferences!Refused(r) \/ Preferences!PreferencesUpdated(r)
      PROVE  PrefsInv'
  <2>1. /\ r.at \in {"refused", "ok"} /\ requests' = (requests \ {r}) \cup {}
        /\ UNCHANGED <<prefs, settings, sessions, fields, profileDialog, calm>>
    BY <1>8 DEF Preferences!Refused, Preferences!PreferencesUpdated, Preferences!Instead,
       Preferences!Reported, Preferences!bank, Preferences!browser, Preferences!passForm,
       Preferences!history
  <2>2. SaveRequests'
    <3>1. Becomes(r, r)
      BY <1>r DEF Becomes
    <3>2. QED
      BY <1>5, <1>p, <2>1, <3>1
  <2>3. ASSUME PrefsKept PROVE PrefsKept'
    <3>1. requests' = {} /\ prefs = settings
      BY <2>1, <2>3 DEF PrefsKept, OneWaits
    <3>2. QED
      BY <2>1, <3>1 DEF PrefsKept, OneWaits
  <2>4. QED
    BY <2>1, <2>2, <2>3 DEF PrefsInv
<1>9. ASSUME NEW r \in requests, Preferences!Fails(r) PROVE PrefsInv'
  <2>1. PICK d : d = [r EXCEPT !.waiting = 0]
    OBVIOUS
  <2>2. PICK s \in {{}, {d}} : requests' = (requests \ {r}) \cup s
    BY <1>9, <2>1 DEF Preferences!Fails, Preferences!Instead
  <2>3. /\ calm' = [calm EXCEPT ![r.kind] = FALSE]
        /\ UNCHANGED <<prefs, settings, sessions, fields, profileDialog>>
    BY <1>9 DEF Preferences!Fails, Preferences!Reported, Preferences!bank, Preferences!browser
  <2>4. SaveRequests'
    BY <1>5, <1>p, <1>r, <2>1, <2>2, <2>3, RequestLeft
  <2>5. ~calm'["preferences"]
    BY <2>3 DEF PrefsInv, SaveRequests, Kinds
  <2>6. QED
    BY <2>4, <2>5 DEF PrefsInv
(* The other forms have nothing to send, and there is one session. *)
<1>10. CASE \/ Preferences!TypePassword \/ Preferences!HandlePasswordSubmit
            \/ Preferences!CancelDialog \/ Preferences!DialogGone
            \/ Preferences!HandlePasswordUpdate \/ Preferences!LogIn
            \/ Preferences!HandleBackupUpdate \/ Preferences!OtherTakes
  BY <1>10 DEF Preferences!TypePassword, Preferences!HandlePasswordSubmit,
     Preferences!CanSubmitPassword, Preferences!CancelDialog, Preferences!DialogGone,
     Preferences!HandlePasswordUpdate, Preferences!LogIn, Preferences!HandleBackupUpdate,
     Preferences!OtherTakes, PrefsInv, SaveRequests
<1>11. ASSUME NEW r \in requests, Preferences!PasswordUpdated(r) \/ Preferences!BackupUpdated(r)
       PROVE  FALSE
  BY <1>11 DEF Preferences!PasswordUpdated, Preferences!BackupUpdated, PrefsInv, SaveRequests
<1>12. QED
  BY <1>2, <1>3, <1>4, <1>6, <1>7, <1>8, <1>9, <1>10, <1>11 DEF Preferences!Next

(* At first the preferences are those by default; and what the invariant   *)
(* says of the claim.                                                      *)
LEMMA PrefsFacts ==
    (Preferences!Init => PrefsInv) /\ (PrefsInv => Preferences!PreferencesKept)
<1>1. Preferences!Init => PrefsInv
  <2> SUFFICES ASSUME Preferences!Init PROVE PrefsInv
    OBVIOUS
  <2>1. /\ sessions = 1 /\ profileRequests = {} /\ fields = Preferences!Empty
        /\ calm = [k \in Kinds |-> TRUE] /\ profileDialog = "closed"
        /\ settings = Preferences!Unset /\ prefs = Preferences!Unset
    BY DEF Preferences!Init, Preferences!Kind, Kinds
  <2>2. Preferences!Unset = [c \in Choices |-> Preferences!Unset[c]]
    BY DEF Preferences!Unset, Choices
  <2>3. SaveRequests
    BY <2>1, <2>2 DEF SaveRequests
  <2>4. PrefsKept
    BY <2>1 DEF PrefsKept, OneWaits
  <2>5. QED
    BY <2>3, <2>4 DEF PrefsInv
<1>2. ASSUME PrefsInv PROVE Preferences!PreferencesKept
  <2>1. Preferences!UnderWay("preferences") = profileRequests
    BY <1>2 DEF Preferences!UnderWay, PrefsInv, SaveRequests
  <2>2. QED
    BY <1>2, <2>1 DEF PrefsInv, PrefsKept, Preferences!PreferencesKept
<1>3. QED
  BY <1>1, <1>2

-----------------------------------------------------------------------------
(* Types of the registry of users.                                         *)

(* The registry, in groups of variables that change together: accounts and *)
(* lists, the search box and the pager, the dialog that erases, the        *)
(* erasures under way, and how much was asked for. The users and the       *)
(* emails are parameters, for the two visits.                              *)
ListTypes(people) ==
    /\ accounts \subseteq people /\ history \subseteq people /\ users \subseteq people
    /\ \A r \in reads : r \subseteq people
PagerTypes(people) ==
    /\ searchTerm = TRUE \/ searchTerm = FALSE
    /\ currentPage \in 1..(Cardinality(people) + 1)
PurgeTypes(people, mails) ==
    /\ foundUser \in people \cup {0}
    /\ deleteStep \in 0..2
    /\ confirmEmail \in mails \cup {"untyped"}
    /\ deleteLoading = TRUE \/ deleteLoading = FALSE
    /\ deleteSuccess \in people \cup {0}
    /\ searching \subseteq people \cup {0}
Answers == {"none", "ok", "missing", "integrity", "failed"}
Erased(people, mails) == [user : people, typed : mails \cup {"untyped"}, answer : Answers]
ErasureTypes(people, mails) == erasures \subseteq Erased(people, mails)
MadeTypes(searches, erased, read) ==
    made \in [searches : 0..searches, erasures : 0..erased, reads : 0..read]

RegistryTypes(people, mails, searches, erased, read) ==
    /\ ListTypes(people) /\ PagerTypes(people) /\ PurgeTypes(people, mails)
    /\ ErasureTypes(people, mails) /\ MadeTypes(searches, erased, read)

(* A group of the registry that a step leaves alone keeps its types.       *)
LEMMA RegistryStays ==
    ASSUME NEW people, NEW mails, NEW searches, NEW erased, NEW read,
           RegistryTypes(people, mails, searches, erased, read)
    PROVE  /\ UNCHANGED <<accounts, history, users, reads>> => ListTypes(people)'
           /\ UNCHANGED <<searchTerm, currentPage>> => PagerTypes(people)'
           /\ UNCHANGED <<foundUser, deleteStep, confirmEmail, deleteLoading, deleteSuccess,
                          searching>> => PurgeTypes(people, mails)'
           /\ UNCHANGED erasures => ErasureTypes(people, mails)'
           /\ UNCHANGED made => MadeTypes(searches, erased, read)'
<1> USE DEF RegistryTypes
<1>1. UNCHANGED <<accounts, history, users, reads>> => ListTypes(people)'
  BY DEF ListTypes
<1>2. UNCHANGED <<searchTerm, currentPage>> => PagerTypes(people)'
  BY DEF PagerTypes
<1>3. UNCHANGED <<foundUser, deleteStep, confirmEmail, deleteLoading, deleteSuccess,
                  searching>> => PurgeTypes(people, mails)'
  BY DEF PurgeTypes
<1>4. UNCHANGED erasures => ErasureTypes(people, mails)'
  BY DEF ErasureTypes
<1>5. UNCHANGED made => MadeTypes(searches, erased, read)'
  BY DEF MadeTypes
<1>6. QED
  BY <1>1, <1>2, <1>3, <1>4, <1>5

(* A list of some of the users has no more pages than there are users:     *)
(* so TotalPages is a page number the types allow.                         *)
LEMMA FewPages ==
    ASSUME NEW people, IsFiniteSet(people), NEW some, some \subseteq people,
           NEW size \in Nat \ {0}
    PROVE  (Cardinality(some) + size - 1) \div size \in 0..Cardinality(people)
<1>1. /\ Cardinality(some) \in Nat /\ Cardinality(people) \in Nat
      /\ Cardinality(some) <= Cardinality(people)
  BY FS_Subset, FS_CardinalityType
<1>2. ASSUME NEW n \in Nat PROVE (n + size - 1) \div size \in 0..n
  <2>1. CASE n = 0
    <3>1. (size - 1) \div size = 0
      OBVIOUS
    <3>2. n + size - 1 = size - 1
      BY <2>1
    <3>3. QED
      BY <2>1, <3>1, <3>2
  <2>2. CASE n > 0
    <3> DEFINE q == (n + size - 1) \div size
    <3>1. q \in Nat /\ q * size <= n + size - 1
      OBVIOUS
    <3>2. q * size < (n + 1) * size
      <4>1. n + size - 1 < n * size + size
        <5>1. n <= n * size
          OBVIOUS
        <5>2. n * size \in Nat
          OBVIOUS
        <5>3. QED
          BY <5>1, <5>2
      <4>2. (n + 1) * size = n * size + size
        OBVIOUS
      <4>3. q * size \in Int
        BY <3>1
      <4>4. QED
        BY <3>1, <4>1, <4>2, <4>3
    <3>3. q < n + 1
      <4> HIDE DEF q
      <4>1. SUFFICES ASSUME q >= n + 1 PROVE FALSE
        BY <3>1
      <4>2. q * size >= (n + 1) * size
        BY <3>1, <4>1
      <4>3. QED
        BY <3>1, <3>2, <4>2
    <3>4. QED
      BY <3>1, <3>3
  <2>3. QED
    BY <2>1, <2>2
<1> DEFINE n == Cardinality(some)
<1>3. (n + size - 1) \div size \in 0..n
  BY <1>1, <1>2
<1>4. QED
  BY <1>1, <1>3

(* The numbered buttons of the pager (up to five around the current page)  *)
(* lead to pages there are.                                                *)
LEMMA WindowThere ==
    ASSUME NEW current \in Nat \ {0}, NEW total \in Nat
    PROVE  UserPages!PageWindow(current, total) \subseteq 1..total
<1> DEFINE Button(i) ==
        IF total > 5 /\ current > 3
        THEN IF current - 2 + i > total THEN total - (4 - i) ELSE current - 2 + i
        ELSE i + 1
           few == UserPages!AtMost(5, total)
<1>1. few \in Nat /\ few <= 5 /\ few <= total
  BY DEF UserPages!AtMost
<1>2. UserPages!PageWindow(current, total) = {Button(i) : i \in 0..(few - 1)}
  BY DEF UserPages!PageWindow
<1> HIDE DEF few
<1>3. ASSUME NEW i \in 0..(few - 1) PROVE Button(i) \in 1..total
  BY <1>1
<1> HIDE DEF Button
<1>4. QED
  BY <1>2, <1>3

(* Whoever turns to a page of the window, or to the next or the previous   *)
(* one, stays within one page more than there are users.                   *)
LEMMA TurnedPage ==
    ASSUME NEW people, IsFiniteSet(people), PagerTypes(people),
           NEW total \in 0..Cardinality(people), total > 1,
           \/ currentPage' \in UserPages!PageWindow(currentPage, total)
           \/ currentPage # 1 /\ currentPage' = currentPage - 1
           \/ currentPage' = UserPages!AtMost(currentPage + 1, total),
           UNCHANGED searchTerm
    PROVE  PagerTypes(people)'
<1>1. Cardinality(people) \in Nat /\ currentPage \in 1..(Cardinality(people) + 1)
  BY FS_CardinalityType DEF PagerTypes
<1> DEFINE most == Cardinality(people)
<1> HIDE DEF most
<1>2. /\ most \in Nat /\ currentPage \in Nat /\ currentPage >= 1 /\ currentPage <= most + 1
      /\ total \in Nat /\ total <= most
  BY <1>1 DEF most
<1>3. currentPage' \in 1..(most + 1)
  <2>1. CASE currentPage' \in UserPages!PageWindow(currentPage, total)
    <3>1. currentPage' \in 1..total
      BY <1>2, <2>1, WindowThere
    <3>2. QED
      BY <1>2, <3>1
  <2>2. CASE currentPage # 1 /\ currentPage' = currentPage - 1
    BY <1>2, <2>2
  <2>3. CASE currentPage' = UserPages!AtMost(currentPage + 1, total)
    BY <1>2, <2>3 DEF UserPages!AtMost
  <2>4. QED
    BY <2>1, <2>2, <2>3
<1>4. QED
  BY <1>3 DEF most, PagerTypes

(* An answer to a deletion changes only how it ended, not whom it is of.   *)
LEMMA ErasureAnswered ==
    ASSUME NEW people, NEW mails, NEW e \in Erased(people, mails), NEW answered \in Answers
    PROVE  [e EXCEPT !.answer = answered] \in Erased(people, mails)
  BY DEF Erased

(* The registry of the visit that erases users.                            *)
UsersTypes == RegistryTypes(Erasable, Users!Mask, MaxSearches, MaxErasures, 0)

(* The page opens with the accounts there are and nothing asked for.       *)
LEMMA UsersTypesInit == Users!Init => UsersTypes
<1> SUFFICES ASSUME Users!Init PROVE UsersTypes
  OBVIOUS
<1>0. /\ MaxSearches \in Nat /\ MaxErasures \in Nat /\ 0 \in Nat /\ IsFiniteSet(Erasable)
  BY RegistryConstants DEF RegistryConstants
<1>1. ListTypes(Erasable)
  BY DEF Users!Init, ListTypes
<1>2. Cardinality(Erasable) \in Nat
  BY <1>0, FS_CardinalityType
<1>3. PagerTypes(Erasable)
  BY <1>2 DEF Users!Init, PagerTypes
<1>4. PurgeTypes(Erasable, Users!Mask)
  BY DEF Users!Init, PurgeTypes, Users!Nobody, Users!Untyped
<1>5. ErasureTypes(Erasable, Users!Mask)
  BY DEF Users!Init, ErasureTypes
<1>6. MadeTypes(MaxSearches, MaxErasures, 0)
  BY <1>0 DEF Users!Init, MadeTypes
<1>7. QED
  BY <1>1, <1>3, <1>4, <1>5, <1>6 DEF UsersTypes, RegistryTypes

(* Every step of the search, the dialog, the compliance deletion and its   *)
(* answer keeps the types.                                                 *)
LEMMA UsersTypesStep == UsersTypes /\ (Users!Next \/ UNCHANGED registryVars) => UsersTypes'
<1> SUFFICES ASSUME UsersTypes, Users!Next \/ UNCHANGED registryVars PROVE UsersTypes'
  OBVIOUS
<1> DEFINE mails == Users!Mask
<1>0. /\ MaxSearches \in Nat /\ MaxErasures \in Nat /\ 0 \in Nat
      /\ IsFiniteSet(Erasable) /\ PageSize \in Nat \ {0}
  BY RegistryConstants DEF RegistryConstants
<1>t. RegistryTypes(Erasable, mails, MaxSearches, MaxErasures, 0)
  BY DEF UsersTypes
<1>g. RegistryTypes(Erasable, mails, MaxSearches, MaxErasures, 0)' => UsersTypes'
  BY DEF UsersTypes
<1> HIDE DEF mails
<1>s. /\ UNCHANGED <<accounts, history, users, reads>> => ListTypes(Erasable)'
      /\ UNCHANGED <<searchTerm, currentPage>> => PagerTypes(Erasable)'
      /\ UNCHANGED <<foundUser, deleteStep, confirmEmail, deleteLoading, deleteSuccess,
                     searching>> => PurgeTypes(Erasable, mails)'
      /\ UNCHANGED erasures => ErasureTypes(Erasable, mails)'
      /\ UNCHANGED made => MadeTypes(MaxSearches, MaxErasures, 0)'
  BY <1>t, RegistryStays
<1>k. ASSUME ListTypes(Erasable)', PagerTypes(Erasable)', PurgeTypes(Erasable, mails)',
             ErasureTypes(Erasable, mails)', MadeTypes(MaxSearches, MaxErasures, 0)'
      PROVE  UsersTypes'
  BY <1>g, <1>k DEF RegistryTypes
<1>f. Users!FilteredUsers \subseteq Erasable
  BY <1>t DEF Users!FilteredUsers, RegistryTypes, ListTypes
<1>1. CASE UNCHANGED registryVars
  BY <1>1, <1>s, <1>k DEF registryVars
<1>2. CASE Users!FetchUsers
  <2>1. ListTypes(Erasable)'
    BY <1>2, <1>t DEF Users!FetchUsers, Users!page, RegistryTypes, ListTypes
  <2>2. MadeTypes(MaxSearches, MaxErasures, 0)'
    BY <1>0, <1>2, <1>t DEF Users!FetchUsers, RegistryTypes, MadeTypes
  <2>3. UNCHANGED <<searchTerm, currentPage, foundUser, deleteStep, confirmEmail,
                    deleteLoading, deleteSuccess, searching, erasures>>
    BY <1>2 DEF Users!FetchUsers, Users!page, Users!dialog
  <2>4. QED
    BY <1>s, <1>k, <2>1, <2>2, <2>3
<1>3. CASE Users!UsersRead
  <2>1. ListTypes(Erasable)'
    BY <1>3, <1>t DEF Users!UsersRead, RegistryTypes, ListTypes
  <2>2. UNCHANGED <<searchTerm, currentPage, foundUser, deleteStep, confirmEmail,
                    deleteLoading, deleteSuccess, searching, erasures, made>>
    BY <1>3 DEF Users!UsersRead, Users!dialog
  <2>3. QED
    BY <1>s, <1>k, <2>1, <2>2
<1>4. CASE Users!QuickSearch
  <2>1. Cardinality(Erasable) \in Nat
    BY <1>0, FS_CardinalityType
  <2>2. currentPage' = 1 /\ (searchTerm' = TRUE \/ searchTerm' = FALSE)
    BY <1>4 DEF Users!QuickSearch
  <2>3. PagerTypes(Erasable)'
    BY <2>1, <2>2 DEF PagerTypes
  <2>4. UNCHANGED <<accounts, history, users, reads, foundUser, deleteStep, confirmEmail,
                    deleteLoading, deleteSuccess, searching, erasures, made>>
    BY <1>4 DEF Users!QuickSearch, Users!dialog
  <2>5. QED
    BY <1>s, <1>k, <2>3, <2>4
<1>5. CASE Users!TurnPage
  <2> DEFINE total == Users!TotalPages
  <2>1. /\ total > 1 /\ UNCHANGED searchTerm
        /\ \/ currentPage' \in Users!PageWindow(currentPage, total)
           \/ currentPage # 1 /\ currentPage' = currentPage - 1
           \/ currentPage' = Users!AtMost(currentPage + 1, total)
    BY <1>5 DEF Users!TurnPage
  <2>2. total \in 0..Cardinality(Erasable)
    <3>1. \A S : Users!Cardinality(S) = Cardinality(S)
      BY DEF Users!Cardinality, Cardinality
    <3>2. (Cardinality(Users!FilteredUsers) + PageSize - 1) \div PageSize \in 0..Cardinality(Erasable)
      BY <1>0, <1>f, FewPages
    <3>3. QED
      BY <3>1, <3>2 DEF Users!TotalPages
  <2>3. /\ \A c, t : Users!PageWindow(c, t) = UserPages!PageWindow(c, t)
        /\ \A a, b : Users!AtMost(a, b) = UserPages!AtMost(a, b)
    BY DEF Users!PageWindow, UserPages!PageWindow, Users!AtMost, UserPages!AtMost
  <2> HIDE DEF total
  <2>4. PagerTypes(Erasable)
    BY <1>t DEF RegistryTypes
  <2>5. \/ currentPage' \in UserPages!PageWindow(currentPage, total)
        \/ currentPage # 1 /\ currentPage' = currentPage - 1
        \/ currentPage' = UserPages!AtMost(currentPage + 1, total)
    BY <2>1, <2>3
  <2>6. PagerTypes(Erasable)'
    BY <1>0, <2>1, <2>2, <2>4, <2>5, TurnedPage
  <2>7. UNCHANGED <<accounts, history, users, reads, foundUser, deleteStep, confirmEmail,
                    deleteLoading, deleteSuccess, searching, erasures, made>>
    BY <1>5 DEF Users!TurnPage, Users!dialog
  <2>8. QED
    BY <1>s, <1>k, <2>6, <2>7
<1>6. CASE \/ Users!SelectUser \/ Users!SearchAnswered \/ Users!InitiatePurge
           \/ Users!Proceed \/ Users!Abort \/ Users!TypeConfirmation
  <2>1. CASE Users!SelectUser
    <3>1. PurgeTypes(Erasable, mails)'
      BY <1>f, <1>t, <2>1 DEF Users!SelectUser, RegistryTypes, PurgeTypes
    <3>2. UNCHANGED <<accounts, history, users, reads, searchTerm, currentPage, erasures, made>>
      BY <2>1 DEF Users!SelectUser, Users!page
    <3>3. QED
      BY <1>s, <1>k, <3>1, <3>2
  <2>2. CASE Users!SearchAnswered
    <3>1. PurgeTypes(Erasable, mails)'
      BY <1>t, <2>2 DEF Users!SearchAnswered, RegistryTypes, PurgeTypes
    <3>2. UNCHANGED <<accounts, history, users, reads, searchTerm, currentPage, erasures, made>>
      BY <2>2 DEF Users!SearchAnswered, Users!page
    <3>3. QED
      BY <1>s, <1>k, <3>1, <3>2
  <2>3. CASE Users!InitiatePurge \/ Users!Proceed \/ Users!Abort
    <3>1. PurgeTypes(Erasable, mails)'
      BY <1>t, <2>3 DEF Users!InitiatePurge, Users!Proceed, Users!Abort, RegistryTypes, PurgeTypes
    <3>2. UNCHANGED <<accounts, history, users, reads, searchTerm, currentPage, erasures, made>>
      BY <2>3 DEF Users!InitiatePurge, Users!Proceed, Users!Abort, Users!page
    <3>3. QED
      BY <1>s, <1>k, <3>1, <3>2
  <2>4. CASE Users!TypeConfirmation
    <3>0. confirmEmail' \in mails
      BY <2>4 DEF Users!TypeConfirmation, mails
    <3>1. PurgeTypes(Erasable, mails)'
      BY <1>t, <2>4, <3>0 DEF Users!TypeConfirmation, RegistryTypes, PurgeTypes
    <3>2. UNCHANGED <<accounts, history, users, reads, searchTerm, currentPage, erasures, made>>
      BY <2>4 DEF Users!TypeConfirmation, Users!page
    <3>3. QED
      BY <1>s, <1>k, <3>1, <3>2
  <2>5. QED
    BY <1>6, <2>1, <2>2, <2>3, <2>4
<1>7. CASE Users!HandleSearchUser
  <2>1. PurgeTypes(Erasable, mails)'
    BY <1>7, <1>t DEF Users!HandleSearchUser, Users!Nobody, RegistryTypes, PurgeTypes, ListTypes
  <2>2. MadeTypes(MaxSearches, MaxErasures, 0)'
    BY <1>0, <1>7, <1>t DEF Users!HandleSearchUser, RegistryTypes, MadeTypes
  <2>3. UNCHANGED <<accounts, history, users, reads, searchTerm, currentPage, erasures>>
    BY <1>7 DEF Users!HandleSearchUser, Users!page
  <2>4. QED
    BY <1>s, <1>k, <2>1, <2>2, <2>3
<1>8. CASE Users!HandleDeleteUser
  <2>1. /\ foundUser # 0 /\ foundUser \in Erasable \cup {0} /\ confirmEmail \in mails \cup {"untyped"}
    BY <1>8, <1>t DEF Users!HandleDeleteUser, Users!Nobody, RegistryTypes, PurgeTypes
  <2>2. erasures' = erasures \cup
          {[user |-> foundUser, typed |-> confirmEmail, answer |-> "none"]}
    BY <1>8 DEF Users!HandleDeleteUser
  <2>3. ErasureTypes(Erasable, mails)'
    BY <1>t, <2>1, <2>2 DEF RegistryTypes, ErasureTypes, Erased, Answers
  <2>4. MadeTypes(MaxSearches, MaxErasures, 0)'
    BY <1>0, <1>8, <1>t DEF Users!HandleDeleteUser, RegistryTypes, MadeTypes
  <2>5. PurgeTypes(Erasable, mails)'
    BY <1>8, <1>t DEF Users!HandleDeleteUser, RegistryTypes, PurgeTypes
  <2>6. UNCHANGED <<accounts, history, users, reads, searchTerm, currentPage>>
    BY <1>8 DEF Users!HandleDeleteUser, Users!page
  <2>7. QED
    BY <1>s, <1>k, <2>3, <2>4, <2>5, <2>6
<1>9. CASE Users!ComplianceDeleteUser
  <2>1. PICK e \in erasures, answers \in {"ok", "missing", "integrity", "failed"} :
             /\ erasures' = (erasures \ {e}) \cup {[e EXCEPT !.answer = answers]}
             /\ accounts' \subseteq accounts /\ history' \subseteq history
             /\ UNCHANGED <<users, reads, searchTerm, currentPage, foundUser, deleteStep,
                            confirmEmail, deleteLoading, deleteSuccess, searching, made>>
    BY <1>9 DEF Users!ComplianceDeleteUser, Users!page, Users!dialog
  <2>2. erasures \subseteq Erased(Erasable, mails) /\ answers \in Answers
    BY <1>t DEF RegistryTypes, ErasureTypes, Answers
  <2>3. [e EXCEPT !.answer = answers] \in Erased(Erasable, mails)
    BY <2>2, ErasureAnswered
  <2>4. ErasureTypes(Erasable, mails)'
    BY <2>1, <2>2, <2>3 DEF ErasureTypes
  <2>5. ListTypes(Erasable)'
    BY <1>t, <2>1 DEF RegistryTypes, ListTypes
  <2>6. QED
    BY <1>s, <1>k, <2>1, <2>4, <2>5
<1>10. CASE Users!DeletionAnswered
  <2>1. PICK e \in erasures :
             /\ erasures' = erasures \ {e} /\ deleteLoading' = FALSE
             /\ \/ /\ deleteSuccess' = e.user
                   /\ foundUser' = 0 /\ confirmEmail' = "untyped" /\ deleteStep' = 0
                   /\ reads' = reads \cup {accounts}
                \/ UNCHANGED <<deleteSuccess, foundUser, confirmEmail, deleteStep, reads>>
    BY <1>10 DEF Users!DeletionAnswered, Users!Nobody, Users!Untyped
  <2>2. UNCHANGED <<accounts, history, users, searchTerm, currentPage, searching, made>>
    BY <1>10 DEF Users!DeletionAnswered, Users!page
  <2>3. e.user \in Erasable
    BY <1>t DEF RegistryTypes, ErasureTypes, Erased
  <2>4. PurgeTypes(Erasable, mails)'
    BY <1>t, <2>1, <2>2, <2>3 DEF RegistryTypes, PurgeTypes
  <2>5. ErasureTypes(Erasable, mails)'
    BY <1>t, <2>1 DEF RegistryTypes, ErasureTypes
  <2>6. ListTypes(Erasable)'
    BY <1>t, <2>1, <2>2 DEF RegistryTypes, ListTypes
  <2>7. QED
    BY <1>s, <1>k, <2>2, <2>4, <2>5, <2>6
<1>11. QED
  BY <1>1, <1>2, <1>3, <1>4, <1>5, <1>6, <1>7, <1>8, <1>9, <1>10 DEF Users!Next

(* The groups make up the type invariant of UserRegistry for this visit.   *)
LEMMA UsersTypesFacts == UsersTypes => Users!TypeOK
<1> SUFFICES ASSUME UsersTypes PROVE Users!TypeOK
  OBVIOUS
<1> DEFINE mails == Users!Mask
<1>1. RegistryTypes(Erasable, mails, MaxSearches, MaxErasures, 0)
  BY DEF UsersTypes
<1>2. Users!Cardinality(Erasable) = Cardinality(Erasable)
  BY DEF Users!Cardinality, Cardinality
<1>3. Users!Erasure = Erased(Erasable, mails)
  BY DEF Users!Erasure, Users!Untyped, Erased, Answers
<1> HIDE DEF mails
<1>4. /\ accounts \subseteq Erasable /\ history \subseteq Erasable /\ users \subseteq Erasable
      /\ reads \subseteq SUBSET Erasable
  BY <1>1 DEF RegistryTypes, ListTypes
<1>5. searchTerm \in BOOLEAN
  BY <1>1 DEF RegistryTypes, PagerTypes
<1>6. currentPage \in 1..(Users!Cardinality(Erasable) + 1)
  BY <1>1, <1>2 DEF RegistryTypes, PagerTypes
<1>7. deleteLoading \in BOOLEAN
  BY <1>1 DEF RegistryTypes, PurgeTypes
<1>8. /\ foundUser \in Erasable \cup {0} /\ deleteStep \in 0..2 /\ confirmEmail \in mails \cup {"untyped"}
      /\ deleteSuccess \in Erasable \cup {0} /\ searching \subseteq Erasable \cup {0}
  BY <1>1 DEF RegistryTypes, PurgeTypes
<1>9. erasures \subseteq Users!Erasure
  BY <1>1, <1>3 DEF RegistryTypes, ErasureTypes
<1>10. made.searches \in 0..MaxSearches /\ made.erasures \in 0..MaxErasures /\ made.reads \in 0..0
  BY <1>1 DEF RegistryTypes, MadeTypes
<1>11. QED
  BY <1>4, <1>5, <1>6, <1>7, <1>8, <1>9, <1>10
  DEF Users!TypeOK, Users!Nobody, Users!Untyped, mails

(* The registry of the visit that turns pages.                             *)
UserPagesTypes == RegistryTypes(PagedUser, UserPages!Mask, 0, 0, MaxReads)

(* The page opens with the first page of the users there are.              *)
LEMMA UserPagesTypesInit == UserPages!Init => UserPagesTypes
<1> SUFFICES ASSUME UserPages!Init PROVE UserPagesTypes
  OBVIOUS
<1>0. /\ 0 \in Nat /\ 0 \in Nat /\ MaxReads \in Nat /\ IsFiniteSet(PagedUser)
  BY PagesConstants, RegistryConstants DEF PagesConstants, RegistryConstants
<1>1. ListTypes(PagedUser)
  BY DEF UserPages!Init, ListTypes
<1>2. Cardinality(PagedUser) \in Nat
  BY <1>0, FS_CardinalityType
<1>3. PagerTypes(PagedUser)
  BY <1>2 DEF UserPages!Init, PagerTypes
<1>4. PurgeTypes(PagedUser, UserPages!Mask)
  BY DEF UserPages!Init, PurgeTypes, UserPages!Nobody, UserPages!Untyped
<1>5. ErasureTypes(PagedUser, UserPages!Mask)
  BY DEF UserPages!Init, ErasureTypes
<1>6. MadeTypes(0, 0, MaxReads)
  BY <1>0 DEF UserPages!Init, MadeTypes
<1>7. QED
  BY <1>1, <1>3, <1>4, <1>5, <1>6 DEF UserPagesTypes, RegistryTypes

(* Every step of the search, the pager and the reads it sends keeps the    *)
(* types.                                                                  *)
LEMMA UserPagesTypesStep == UserPagesTypes /\ (UserPages!Next \/ UNCHANGED registryVars) => UserPagesTypes'
<1> SUFFICES ASSUME UserPagesTypes, UserPages!Next \/ UNCHANGED registryVars PROVE UserPagesTypes'
  OBVIOUS
<1> DEFINE mails == UserPages!Mask
<1>0. /\ 0 \in Nat /\ 0 \in Nat /\ MaxReads \in Nat
      /\ IsFiniteSet(PagedUser) /\ PagedPageSize \in Nat \ {0}
  BY PagesConstants, RegistryConstants DEF PagesConstants, RegistryConstants
<1>t. RegistryTypes(PagedUser, mails, 0, 0, MaxReads)
  BY DEF UserPagesTypes
<1>g. RegistryTypes(PagedUser, mails, 0, 0, MaxReads)' => UserPagesTypes'
  BY DEF UserPagesTypes
<1> HIDE DEF mails
<1>s. /\ UNCHANGED <<accounts, history, users, reads>> => ListTypes(PagedUser)'
      /\ UNCHANGED <<searchTerm, currentPage>> => PagerTypes(PagedUser)'
      /\ UNCHANGED <<foundUser, deleteStep, confirmEmail, deleteLoading, deleteSuccess,
                     searching>> => PurgeTypes(PagedUser, mails)'
      /\ UNCHANGED erasures => ErasureTypes(PagedUser, mails)'
      /\ UNCHANGED made => MadeTypes(0, 0, MaxReads)'
  BY <1>t, RegistryStays
<1>k. ASSUME ListTypes(PagedUser)', PagerTypes(PagedUser)', PurgeTypes(PagedUser, mails)',
             ErasureTypes(PagedUser, mails)', MadeTypes(0, 0, MaxReads)'
      PROVE  UserPagesTypes'
  BY <1>g, <1>k DEF RegistryTypes
<1>f. UserPages!FilteredUsers \subseteq PagedUser
  BY <1>t DEF UserPages!FilteredUsers, RegistryTypes, ListTypes
<1>1. CASE UNCHANGED registryVars
  BY <1>1, <1>s, <1>k DEF registryVars
<1>2. CASE UserPages!FetchUsers
  <2>1. ListTypes(PagedUser)'
    BY <1>2, <1>t DEF UserPages!FetchUsers, UserPages!page, RegistryTypes, ListTypes
  <2>2. MadeTypes(0, 0, MaxReads)'
    BY <1>0, <1>2, <1>t DEF UserPages!FetchUsers, RegistryTypes, MadeTypes
  <2>3. UNCHANGED <<searchTerm, currentPage, foundUser, deleteStep, confirmEmail,
                    deleteLoading, deleteSuccess, searching, erasures>>
    BY <1>2 DEF UserPages!FetchUsers, UserPages!page, UserPages!dialog
  <2>4. QED
    BY <1>s, <1>k, <2>1, <2>2, <2>3
<1>3. CASE UserPages!UsersRead
  <2>1. ListTypes(PagedUser)'
    BY <1>3, <1>t DEF UserPages!UsersRead, RegistryTypes, ListTypes
  <2>2. UNCHANGED <<searchTerm, currentPage, foundUser, deleteStep, confirmEmail,
                    deleteLoading, deleteSuccess, searching, erasures, made>>
    BY <1>3 DEF UserPages!UsersRead, UserPages!dialog
  <2>3. QED
    BY <1>s, <1>k, <2>1, <2>2
<1>4. CASE UserPages!QuickSearch
  <2>1. Cardinality(PagedUser) \in Nat
    BY <1>0, FS_CardinalityType
  <2>2. currentPage' = 1 /\ (searchTerm' = TRUE \/ searchTerm' = FALSE)
    BY <1>4 DEF UserPages!QuickSearch
  <2>3. PagerTypes(PagedUser)'
    BY <2>1, <2>2 DEF PagerTypes
  <2>4. UNCHANGED <<accounts, history, users, reads, foundUser, deleteStep, confirmEmail,
                    deleteLoading, deleteSuccess, searching, erasures, made>>
    BY <1>4 DEF UserPages!QuickSearch, UserPages!dialog
  <2>5. QED
    BY <1>s, <1>k, <2>3, <2>4
<1>5. CASE UserPages!TurnPage
  <2> DEFINE total == UserPages!TotalPages
  <2>1. /\ total > 1 /\ UNCHANGED searchTerm
        /\ \/ currentPage' \in UserPages!PageWindow(currentPage, total)
           \/ currentPage # 1 /\ currentPage' = currentPage - 1
           \/ currentPage' = UserPages!AtMost(currentPage + 1, total)
    BY <1>5 DEF UserPages!TurnPage
  <2>2. total \in 0..Cardinality(PagedUser)
    <3>1. \A S : UserPages!Cardinality(S) = Cardinality(S)
      BY DEF UserPages!Cardinality, Cardinality
    <3>2. (Cardinality(UserPages!FilteredUsers) + PagedPageSize - 1) \div PagedPageSize \in 0..Cardinality(PagedUser)
      BY <1>0, <1>f, FewPages
    <3>3. QED
      BY <3>1, <3>2 DEF UserPages!TotalPages
  <2>3. /\ \A c, t : UserPages!PageWindow(c, t) = UserPages!PageWindow(c, t)
        /\ \A a, b : UserPages!AtMost(a, b) = UserPages!AtMost(a, b)
    BY DEF UserPages!PageWindow, UserPages!PageWindow, UserPages!AtMost, UserPages!AtMost
  <2> HIDE DEF total
  <2>4. PagerTypes(PagedUser)
    BY <1>t DEF RegistryTypes
  <2>5. \/ currentPage' \in UserPages!PageWindow(currentPage, total)
        \/ currentPage # 1 /\ currentPage' = currentPage - 1
        \/ currentPage' = UserPages!AtMost(currentPage + 1, total)
    BY <2>1, <2>3
  <2>6. PagerTypes(PagedUser)'
    BY <1>0, <2>1, <2>2, <2>4, <2>5, TurnedPage
  <2>7. UNCHANGED <<accounts, history, users, reads, foundUser, deleteStep, confirmEmail,
                    deleteLoading, deleteSuccess, searching, erasures, made>>
    BY <1>5 DEF UserPages!TurnPage, UserPages!dialog
  <2>8. QED
    BY <1>s, <1>k, <2>6, <2>7
<1>6. CASE \/ UserPages!SelectUser \/ UserPages!SearchAnswered \/ UserPages!InitiatePurge
           \/ UserPages!Proceed \/ UserPages!Abort \/ UserPages!TypeConfirmation
  <2>1. CASE UserPages!SelectUser
    <3>1. PurgeTypes(PagedUser, mails)'
      BY <1>f, <1>t, <2>1 DEF UserPages!SelectUser, RegistryTypes, PurgeTypes
    <3>2. UNCHANGED <<accounts, history, users, reads, searchTerm, currentPage, erasures, made>>
      BY <2>1 DEF UserPages!SelectUser, UserPages!page
    <3>3. QED
      BY <1>s, <1>k, <3>1, <3>2
  <2>2. CASE UserPages!SearchAnswered
    <3>1. PurgeTypes(PagedUser, mails)'
      BY <1>t, <2>2 DEF UserPages!SearchAnswered, RegistryTypes, PurgeTypes
    <3>2. UNCHANGED <<accounts, history, users, reads, searchTerm, currentPage, erasures, made>>
      BY <2>2 DEF UserPages!SearchAnswered, UserPages!page
    <3>3. QED
      BY <1>s, <1>k, <3>1, <3>2
  <2>3. CASE UserPages!InitiatePurge \/ UserPages!Proceed \/ UserPages!Abort
    <3>1. PurgeTypes(PagedUser, mails)'
      BY <1>t, <2>3 DEF UserPages!InitiatePurge, UserPages!Proceed, UserPages!Abort, RegistryTypes, PurgeTypes
    <3>2. UNCHANGED <<accounts, history, users, reads, searchTerm, currentPage, erasures, made>>
      BY <2>3 DEF UserPages!InitiatePurge, UserPages!Proceed, UserPages!Abort, UserPages!page
    <3>3. QED
      BY <1>s, <1>k, <3>1, <3>2
  <2>4. CASE UserPages!TypeConfirmation
    <3>0. confirmEmail' \in mails
      BY <2>4 DEF UserPages!TypeConfirmation, mails
    <3>1. PurgeTypes(PagedUser, mails)'
      BY <1>t, <2>4, <3>0 DEF UserPages!TypeConfirmation, RegistryTypes, PurgeTypes
    <3>2. UNCHANGED <<accounts, history, users, reads, searchTerm, currentPage, erasures, made>>
      BY <2>4 DEF UserPages!TypeConfirmation, UserPages!page
    <3>3. QED
      BY <1>s, <1>k, <3>1, <3>2
  <2>5. QED
    BY <1>6, <2>1, <2>2, <2>3, <2>4
<1>7. CASE UserPages!HandleSearchUser
  <2>1. PurgeTypes(PagedUser, mails)'
    BY <1>7, <1>t DEF UserPages!HandleSearchUser, UserPages!Nobody, RegistryTypes, PurgeTypes, ListTypes
  <2>2. MadeTypes(0, 0, MaxReads)'
    BY <1>0, <1>7, <1>t DEF UserPages!HandleSearchUser, RegistryTypes, MadeTypes
  <2>3. UNCHANGED <<accounts, history, users, reads, searchTerm, currentPage, erasures>>
    BY <1>7 DEF UserPages!HandleSearchUser, UserPages!page
  <2>4. QED
    BY <1>s, <1>k, <2>1, <2>2, <2>3
<1>8. CASE UserPages!HandleDeleteUser
  <2>1. /\ foundUser # 0 /\ foundUser \in PagedUser \cup {0} /\ confirmEmail \in mails \cup {"untyped"}
    BY <1>8, <1>t DEF UserPages!HandleDeleteUser, UserPages!Nobody, RegistryTypes, PurgeTypes
  <2>2. erasures' = erasures \cup
          {[user |-> foundUser, typed |-> confirmEmail, answer |-> "none"]}
    BY <1>8 DEF UserPages!HandleDeleteUser
  <2>3. ErasureTypes(PagedUser, mails)'
    BY <1>t, <2>1, <2>2 DEF RegistryTypes, ErasureTypes, Erased, Answers
  <2>4. MadeTypes(0, 0, MaxReads)'
    BY <1>0, <1>8, <1>t DEF UserPages!HandleDeleteUser, RegistryTypes, MadeTypes
  <2>5. PurgeTypes(PagedUser, mails)'
    BY <1>8, <1>t DEF UserPages!HandleDeleteUser, RegistryTypes, PurgeTypes
  <2>6. UNCHANGED <<accounts, history, users, reads, searchTerm, currentPage>>
    BY <1>8 DEF UserPages!HandleDeleteUser, UserPages!page
  <2>7. QED
    BY <1>s, <1>k, <2>3, <2>4, <2>5, <2>6
<1>9. CASE UserPages!ComplianceDeleteUser
  <2>1. PICK e \in erasures, answers \in {"ok", "missing", "integrity", "failed"} :
             /\ erasures' = (erasures \ {e}) \cup {[e EXCEPT !.answer = answers]}
             /\ accounts' \subseteq accounts /\ history' \subseteq history
             /\ UNCHANGED <<users, reads, searchTerm, currentPage, foundUser, deleteStep,
                            confirmEmail, deleteLoading, deleteSuccess, searching, made>>
    BY <1>9 DEF UserPages!ComplianceDeleteUser, UserPages!page, UserPages!dialog
  <2>2. erasures \subseteq Erased(PagedUser, mails) /\ answers \in Answers
    BY <1>t DEF RegistryTypes, ErasureTypes, Answers
  <2>3. [e EXCEPT !.answer = answers] \in Erased(PagedUser, mails)
    BY <2>2, ErasureAnswered
  <2>4. ErasureTypes(PagedUser, mails)'
    BY <2>1, <2>2, <2>3 DEF ErasureTypes
  <2>5. ListTypes(PagedUser)'
    BY <1>t, <2>1 DEF RegistryTypes, ListTypes
  <2>6. QED
    BY <1>s, <1>k, <2>1, <2>4, <2>5
<1>10. CASE UserPages!DeletionAnswered
  <2>1. PICK e \in erasures :
             /\ erasures' = erasures \ {e} /\ deleteLoading' = FALSE
             /\ \/ /\ deleteSuccess' = e.user
                   /\ foundUser' = 0 /\ confirmEmail' = "untyped" /\ deleteStep' = 0
                   /\ reads' = reads \cup {accounts}
                \/ UNCHANGED <<deleteSuccess, foundUser, confirmEmail, deleteStep, reads>>
    BY <1>10 DEF UserPages!DeletionAnswered, UserPages!Nobody, UserPages!Untyped
  <2>2. UNCHANGED <<accounts, history, users, searchTerm, currentPage, searching, made>>
    BY <1>10 DEF UserPages!DeletionAnswered, UserPages!page
  <2>3. e.user \in PagedUser
    BY <1>t DEF RegistryTypes, ErasureTypes, Erased
  <2>4. PurgeTypes(PagedUser, mails)'
    BY <1>t, <2>1, <2>2, <2>3 DEF RegistryTypes, PurgeTypes
  <2>5. ErasureTypes(PagedUser, mails)'
    BY <1>t, <2>1 DEF RegistryTypes, ErasureTypes
  <2>6. ListTypes(PagedUser)'
    BY <1>t, <2>1, <2>2 DEF RegistryTypes, ListTypes
  <2>7. QED
    BY <1>s, <1>k, <2>2, <2>4, <2>5, <2>6
<1>11. QED
  BY <1>1, <1>2, <1>3, <1>4, <1>5, <1>6, <1>7, <1>8, <1>9, <1>10 DEF UserPages!Next

(* The groups make up the type invariant of UserRegistry for this visit.   *)
LEMMA UserPagesTypesFacts == UserPagesTypes => UserPages!TypeOK
<1> SUFFICES ASSUME UserPagesTypes PROVE UserPages!TypeOK
  OBVIOUS
<1> DEFINE mails == UserPages!Mask
<1>1. RegistryTypes(PagedUser, mails, 0, 0, MaxReads)
  BY DEF UserPagesTypes
<1>2. UserPages!Cardinality(PagedUser) = Cardinality(PagedUser)
  BY DEF UserPages!Cardinality, Cardinality
<1>3. UserPages!Erasure = Erased(PagedUser, mails)
  BY DEF UserPages!Erasure, UserPages!Untyped, Erased, Answers
<1> HIDE DEF mails
<1>4. /\ accounts \subseteq PagedUser /\ history \subseteq PagedUser /\ users \subseteq PagedUser
      /\ reads \subseteq SUBSET PagedUser
  BY <1>1 DEF RegistryTypes, ListTypes
<1>5. searchTerm \in BOOLEAN
  BY <1>1 DEF RegistryTypes, PagerTypes
<1>6. currentPage \in 1..(UserPages!Cardinality(PagedUser) + 1)
  BY <1>1, <1>2 DEF RegistryTypes, PagerTypes
<1>7. deleteLoading \in BOOLEAN
  BY <1>1 DEF RegistryTypes, PurgeTypes
<1>8. /\ foundUser \in PagedUser \cup {0} /\ deleteStep \in 0..2 /\ confirmEmail \in mails \cup {"untyped"}
      /\ deleteSuccess \in PagedUser \cup {0} /\ searching \subseteq PagedUser \cup {0}
  BY <1>1 DEF RegistryTypes, PurgeTypes
<1>9. erasures \subseteq UserPages!Erasure
  BY <1>1, <1>3 DEF RegistryTypes, ErasureTypes
<1>10. made.searches \in 0..0 /\ made.erasures \in 0..0 /\ made.reads \in 0..MaxReads
  BY <1>1 DEF RegistryTypes, MadeTypes
<1>11. QED
  BY <1>4, <1>5, <1>6, <1>7, <1>8, <1>9, <1>10
  DEF UserPages!TypeOK, UserPages!Nobody, UserPages!Untyped, mails

-----------------------------------------------------------------------------
(* Types of the cards.                                                     *)

(* A card is frozen or not, and its limit is one of those the slider       *)
(* offers.                                                                 *)
Fits(c, limits) == (c.isFrozen = TRUE \/ c.isFrozen = FALSE) /\ c.limit \in limits
Fitting(s, limits) == \A c \in s : Fits(c, limits)

(* The cards of the storage and of every tab fit, and no more of them were *)
(* made than the bound allows.                                             *)
ListsFit(tabs, limits) ==
    /\ cardsNextId <= MaxCard + 1
    /\ Fitting(saved, limits)
    /\ \A t \in tabs : Fitting(cardsList[t], limits)

(* What a tab displays of its card: frozen or not, details shown or        *)
(* hidden, and the timers that hide them again.                            *)
FreezeTypes(tabs) ==
    /\ isFrozen = [t \in tabs |-> isFrozen[t]]
    /\ \A t \in tabs : isFrozen[t] = TRUE \/ isFrozen[t] = FALSE
DetailTypes(tabs) ==
    /\ showDetails = [t \in tabs |-> showDetails[t]]
    /\ \A t \in tabs : showDetails[t] = TRUE \/ showDetails[t] = FALSE
HideTimers(tabs) ==
    /\ cardsTimers = [t \in tabs |-> cardsTimers[t]]
    /\ \A t \in tabs : \A k \in cardsTimers[t] : k \in Nat /\ k <= HideAfter

CardTypes(tabs, limits) ==
    ListsFit(tabs, limits) /\ FreezeTypes(tabs) /\ DetailTypes(tabs) /\ HideTimers(tabs)

(* A list that fits, in place of the one of a tab.                         *)
LEMMA ListFits ==
    ASSUME NEW tabs, NEW limits, CardsInv(tabs), ListsFit(tabs, limits), NEW t \in tabs,
           NEW list, cardsList' = [cardsList EXCEPT ![t] = list], Fitting(list, limits),
           Fitting(saved', limits), cardsNextId' <= MaxCard + 1
    PROVE  ListsFit(tabs, limits)'
<1>1. \A u \in tabs : cardsList'[u] = IF u = t THEN list ELSE cardsList[u]
  BY DEF CardsInv
<1>2. \A u \in tabs : Fitting(cardsList'[u], limits)
  BY <1>1 DEF ListsFit
<1>3. QED
  BY <1>2 DEF ListsFit

(* The card a tab displays is on its list, so that its copy fits as well.  *)
LEMMA CardShown ==
    ASSUME NEW tabs, NEW limits, CardsInv(tabs), ListsFit(tabs, limits), NEW t \in tabs
    PROVE  LET card == cardStates[t][selectedCardId[t]]
           IN  CardOf(card) /\ Fits(card, limits) /\ card \in cardsList[t]
<1>1. TabAgrees(cardsList[t], cardStates[t], selectedCardId[t], confirmDeleteCardId[t], cardsNextId)
  BY DEF CardsInv
<1>2. Latest(cardsList[t])[selectedCardId[t]] \in cardsList[t]
  BY <1>1, CardNumbered DEF TabAgrees
<1>3. QED
  BY <1>1, <1>2 DEF TabAgrees, CardList, ListsFit, Fitting

(* A tab that opens displays the first card of its list, frozen or not.    *)
LEMMA FirstFrozen ==
    ASSUME NEW next, NEW s, CardList(s, next), NEW limits, Fitting(s, limits)
    PROVE  LET frozen == Latest(s)[Least(s)].isFrozen IN frozen = TRUE \/ frozen = FALSE
<1>1. Least(s) \in Ids(s)
  BY FirstCard
<1>2. Latest(s)[Least(s)] \in s
  BY <1>1, CardNumbered
<1>3. QED
  BY <1>2 DEF Fitting, Fits

(* The two cards by default fit every slider that offers "low".            *)
LEMMA DefaultFits == ASSUME NEW limits, "low" \in limits PROVE Fitting(Default, limits)
  BY DEF Default, Fitting, Fits

(* With the cards by default in the storage the types hold in every tab.   *)
LEMMA CardsTypesInit == Cards!Init => CardTypes(CardTab, Limits)
<1> SUFFICES ASSUME Cards!Init PROVE CardTypes(CardTab, Limits)
  OBVIOUS
<1>0. "low" \in Limits /\ MaxCard >= 2 /\ MaxCard \in Nat
  BY CardsThere, CardsConstants DEF CardsThere, CardsConstants
<1>1. Cards!DEFAULT_CARDS = Default
  BY DEF Cards!DEFAULT_CARDS, Cards!Physical, Default
<1>2. Fitting(Default, Limits)
  BY <1>0, DefaultFits
<1>3. /\ saved = {} /\ cardsNextId = 3 /\ cardsList = [t \in CardTab |-> Default]
      /\ isFrozen = [t \in CardTab |-> FALSE] /\ showDetails = [t \in CardTab |-> FALSE]
      /\ cardsTimers = [t \in CardTab |-> {}]
  BY <1>1 DEF Cards!Init
<1>4. ListsFit(CardTab, Limits)
  <2>1. Fitting(saved, Limits)
    BY <1>3 DEF Fitting
  <2>2. QED
    BY <1>0, <1>2, <1>3, <2>1 DEF ListsFit
<1>5. FreezeTypes(CardTab) /\ DetailTypes(CardTab) /\ HideTimers(CardTab)
  BY <1>3 DEF FreezeTypes, DetailTypes, HideTimers
<1>6. QED
  BY <1>4, <1>5 DEF CardTypes

(* Every step of a tab that freezes, limits, makes or deletes cards, and   *)
(* of the storage event in another, keeps the types.                       *)
LEMMA CardsTypesStep ==
    /\ CardsInv(CardTab) /\ CardTypes(CardTab, Limits)
    /\ Cards!Next \/ UNCHANGED cardsVars
    => CardTypes(CardTab, Limits)'
<1> SUFFICES ASSUME CardsInv(CardTab), CardTypes(CardTab, Limits), Cards!Next \/ UNCHANGED cardsVars
             PROVE  CardTypes(CardTab, Limits)'
  OBVIOUS
<1>0. "low" \in Limits /\ MaxCard >= 2 /\ MaxCard \in Nat /\ HideAfter \in Nat /\ cardsNextId \in Nat
  BY CardsThere, CardsConstants DEF CardsThere, CardsConstants, CardsInv
<1>t. ListsFit(CardTab, Limits) /\ FreezeTypes(CardTab) /\ DetailTypes(CardTab) /\ HideTimers(CardTab)
  BY DEF CardTypes
<1>s. /\ UNCHANGED <<saved, cardsNextId, cardsList>> => ListsFit(CardTab, Limits)'
      /\ UNCHANGED isFrozen => FreezeTypes(CardTab)'
      /\ UNCHANGED showDetails => DetailTypes(CardTab)'
      /\ UNCHANGED cardsTimers => HideTimers(CardTab)'
  BY <1>t DEF ListsFit, Fitting, FreezeTypes, DetailTypes, HideTimers
<1>k. ASSUME ListsFit(CardTab, Limits)', FreezeTypes(CardTab)', DetailTypes(CardTab)', HideTimers(CardTab)'
      PROVE  CardTypes(CardTab, Limits)'
  BY <1>k DEF CardTypes
<1>1. CASE UNCHANGED cardsVars
  BY <1>1, <1>s, <1>k DEF cardsVars
<1>2. CASE Cards!Tick
  <2>1. /\ cardsTimers' = [t \in CardTab |-> {k - 1 : k \in cardsTimers[t]}]
        /\ \A t \in CardTab : 0 \notin cardsTimers[t]
    BY <1>2 DEF Cards!Tick
  <2>2. HideTimers(CardTab)'
    BY <1>0, <1>t, <2>1 DEF HideTimers
  <2>3. UNCHANGED <<saved, cardsNextId, cardsList, isFrozen, showDetails>>
    BY <1>2 DEF Cards!Tick, Cards!hub
  <2>4. QED
    BY <1>s, <1>k, <2>2, <2>3
<1>3. ASSUME NEW t \in CardTab, Cards!HandleToggleDetails(t) \/ Cards!AutoHide(t)
      PROVE  CardTypes(CardTab, Limits)'
  <2>1. /\ \/ showDetails' = [showDetails EXCEPT ![t] = ~@]
           \/ showDetails' = [showDetails EXCEPT ![t] = FALSE]
        /\ \E k : /\ cardsTimers' = [cardsTimers EXCEPT ![t] = k]
                  /\ k \subseteq cardsTimers[t] \cup {HideAfter}
        /\ UNCHANGED <<saved, cardsNextId, cardsList, isFrozen>>
    <3>1. CASE Cards!HandleToggleDetails(t)
      <4>1. cardsTimers' = [cardsTimers EXCEPT ![t] =
                              IF showDetails[t] THEN cardsTimers[t] ELSE cardsTimers[t] \cup {HideAfter}]
        BY <1>t, <3>1 DEF Cards!HandleToggleDetails, HideTimers
      <4>2. /\ showDetails' = [showDetails EXCEPT ![t] = ~@]
            /\ UNCHANGED <<saved, cardsNextId, cardsList, isFrozen>>
        BY <3>1 DEF Cards!HandleToggleDetails, Cards!hub
      <4>3. QED
        BY <4>1, <4>2
    <3>2. CASE Cards!AutoHide(t)
      <4>1. cardsTimers' = [cardsTimers EXCEPT ![t] = cardsTimers[t] \ {0}]
        BY <1>t, <3>2 DEF Cards!AutoHide, HideTimers
      <4>2. /\ showDetails' = [showDetails EXCEPT ![t] = FALSE]
            /\ UNCHANGED <<saved, cardsNextId, cardsList, isFrozen>>
        BY <3>2 DEF Cards!AutoHide, Cards!hub
      <4>3. QED
        BY <4>1, <4>2
    <3>3. QED
      BY <1>3, <3>1, <3>2
  <2>2. DetailTypes(CardTab)'
    BY <1>t, <2>1 DEF DetailTypes
  <2>3. HideTimers(CardTab)'
    BY <1>0, <1>t, <2>1 DEF HideTimers
  <2>4. QED
    BY <1>s, <1>k, <2>1, <2>2, <2>3
<1>4. ASSUME NEW t \in CardTab, Cards!Reload(t) PROVE CardTypes(CardTab, Limits)'
  <2> DEFINE s == IF saved = {} THEN Default ELSE saved
  <2>1. CardList(s, cardsNextId) /\ Fitting(s, Limits)
    BY <1>0, <1>t, DefaultList, DefaultFits DEF ListsFit, CardsInv
  <2>2. Cards!DEFAULT_CARDS = Default
    BY DEF Cards!DEFAULT_CARDS, Cards!Physical, Default
  <2>3. \A c : Cards!ById(c) = Latest(c) /\ Cards!First(c) = Least(c)
    BY DEF Cards!ById, Cards!First, Latest, Least, Ids
  <2>4. /\ cardsList' = [cardsList EXCEPT ![t] = s] /\ UNCHANGED <<saved, cardsNextId>>
        /\ isFrozen' = [isFrozen EXCEPT ![t] = Latest(s)[Least(s)].isFrozen]
        /\ showDetails' = [showDetails EXCEPT ![t] = FALSE]
        /\ cardsTimers' = [cardsTimers EXCEPT ![t] = {}]
    BY <1>4, <2>2, <2>3 DEF Cards!Reload
  <2> HIDE DEF s
  <2>5. ListsFit(CardTab, Limits)'
    <3>1. Fitting(saved', Limits) /\ cardsNextId' <= MaxCard + 1
      BY <1>t, <2>4 DEF ListsFit
    <3>2. QED
      BY <1>t, <2>1, <2>4, <3>1, ListFits
  <2> DEFINE frozen == Latest(s)[Least(s)].isFrozen
  <2>6. frozen = TRUE \/ frozen = FALSE
    BY <2>1, FirstFrozen
  <2>7. isFrozen' = [isFrozen EXCEPT ![t] = frozen]
    BY <2>4
  <2> HIDE DEF frozen
  <2>8. FreezeTypes(CardTab)'
    BY <1>t, <2>6, <2>7 DEF FreezeTypes
  <2>9. DetailTypes(CardTab)' /\ HideTimers(CardTab)'
    BY <1>t, <2>4 DEF DetailTypes, HideTimers
  <2>10. QED
    BY <1>k, <2>5, <2>8, <2>9
<1>5. ASSUME NEW t \in CardTab, Cards!ChangeSetting(t) \/ Cards!HandleToggleFreeze(t)
      PROVE  CardTypes(CardTab, Limits)'
  <2> DEFINE card == cardStates[t][selectedCardId[t]]
  <2>1. CardOf(card) /\ Fits(card, Limits)
    BY <1>t, CardShown
  <2>2. FreezeTypes(CardTab)'
    <3>1. UNCHANGED isFrozen \/ isFrozen' = [isFrozen EXCEPT ![t] = ~@]
      BY <1>5 DEF Cards!ChangeSetting, Cards!HandleToggleFreeze, Cards!preview
    <3>2. QED
      BY <1>t, <3>1 DEF FreezeTypes
  <2>3. UNCHANGED <<cardsNextId, showDetails, cardsTimers>>
    BY <1>5 DEF Cards!ChangeSetting, Cards!HandleToggleFreeze, Cards!preview
  <2>4. PICK c : Fits(c, Limits) /\ Cards!UpdateCurrentCard(t, c)
    <3>1. CASE Cards!ChangeSetting(t)
      <4>1. PICK c \in Cards!Updates(card) : Cards!UpdateCurrentCard(t, c)
        BY <3>1 DEF Cards!ChangeSetting, Cards!CurrentCard
      <4> HIDE DEF card
      <4>2. \/ \E l \in Limits : c = [card EXCEPT !.limit = l]
            \/ c = [card EXCEPT !.isFrozen = ~card.isFrozen]
        BY <4>1 DEF Cards!Updates
      <4>3. Fits(c, Limits)
        BY <2>1, <4>2 DEF CardOf, Fits
      <4>4. QED
        BY <4>1, <4>3
    <3>2. CASE Cards!HandleToggleFreeze(t)
      <4> DEFINE c == [card EXCEPT !.isFrozen = ~isFrozen[t]]
      <4>1. Cards!UpdateCurrentCard(t, c)
        BY <3>2 DEF Cards!HandleToggleFreeze, Cards!CurrentCard
      <4> HIDE DEF card
      <4>2. Fits(c, Limits)
        BY <1>t, <2>1 DEF CardOf, Fits, FreezeTypes
      <4>3. QED
        BY <4>1, <4>2
    <3>3. QED
      BY <1>5, <3>1, <3>2
  <2> DEFINE list == {d \in cardsList[t] : d.id # selectedCardId[t]} \cup {c}
  <2>5. cardsList' = [cardsList EXCEPT ![t] = list] /\ saved' = list
    BY <2>4 DEF Cards!UpdateCurrentCard, Cards!SaveCards
  <2>6. Fitting(list, Limits)
    BY <1>t, <2>4 DEF ListsFit, Fitting
  <2> HIDE DEF list
  <2>7. ListsFit(CardTab, Limits)'
    <3>1. Fitting(saved', Limits) /\ cardsNextId' <= MaxCard + 1
      BY <1>t, <2>3, <2>5, <2>6 DEF ListsFit
    <3>2. QED
      BY <1>t, <2>5, <2>6, <3>1, ListFits
  <2>8. QED
    BY <1>s, <1>k, <2>2, <2>3, <2>7
<1>6. ASSUME NEW t \in CardTab,
             Cards!SelectCard(t) \/ Cards!AskToDelete(t) \/ Cards!CancelDelete(t)
      PROVE  CardTypes(CardTab, Limits)'
  <2>1. UNCHANGED <<saved, cardsNextId, cardsList, isFrozen, showDetails, cardsTimers>>
    BY <1>6 DEF Cards!SelectCard, Cards!AskToDelete, Cards!CancelDelete, Cards!preview
  <2>2. QED
    BY <1>s, <1>k, <2>1
<1>7. ASSUME NEW t \in CardTab, Cards!HandleGenerateVirtualCard(t) PROVE CardTypes(CardTab, Limits)'
  <2> DEFINE c == [id |-> cardsNextId, isFrozen |-> FALSE, limit |-> "low"]
             list == cardsList[t] \cup {c}
  <2>1. /\ cardsNextId <= MaxCard /\ cardsNextId' = cardsNextId + 1
        /\ cardsList' = [cardsList EXCEPT ![t] = list] /\ saved' = list
        /\ UNCHANGED <<isFrozen, showDetails, cardsTimers>>
    BY <1>7 DEF Cards!HandleGenerateVirtualCard, Cards!SaveCards, Cards!preview
  <2>2. Fits(c, Limits)
    BY <1>0 DEF Fits
  <2>3. Fitting(list, Limits)
    BY <1>t, <2>2 DEF ListsFit, Fitting
  <2> HIDE DEF list
  <2>4. cardsNextId' <= MaxCard + 1
    BY <1>0, <2>1
  <2>5. Fitting(saved', Limits)
    BY <2>1, <2>3
  <2>6. ListsFit(CardTab, Limits)'
    BY <1>t, <2>1, <2>3, <2>4, <2>5, ListFits
  <2>7. QED
    BY <1>s, <1>k, <2>1, <2>6
<1>8. ASSUME NEW t \in CardTab, Cards!HandleDeleteVirtualCard(t) PROVE CardTypes(CardTab, Limits)'
  <2> DEFINE list == {c \in cardsList[t] : c.id # selectedCardId[t]}
  <2>1. /\ cardsList' = [cardsList EXCEPT ![t] = list] /\ saved' = list
        /\ UNCHANGED <<cardsNextId, isFrozen, showDetails, cardsTimers>>
    BY <1>8 DEF Cards!HandleDeleteVirtualCard, Cards!SaveCards, Cards!preview
  <2>2. Fitting(list, Limits)
    BY <1>t DEF ListsFit, Fitting
  <2> HIDE DEF list
  <2>3. Fitting(saved', Limits) /\ cardsNextId' <= MaxCard + 1
    BY <1>t, <2>1, <2>2 DEF ListsFit
  <2>4. ListsFit(CardTab, Limits)'
    BY <1>t, <2>1, <2>2, <2>3, ListFits
  <2>5. QED
    BY <1>s, <1>k, <2>1, <2>4
<1>9. QED
  BY <1>1, <1>2, <1>3, <1>4, <1>5, <1>6, <1>7, <1>8 DEF Cards!Next

(* They are, with the agreement of the copies, the type invariant of Cards *)
(* for several tabs.                                                       *)
LEMMA CardsTypesFacts ==
    ASSUME CardsInv(CardTab), CardTypes(CardTab, Limits) PROVE Cards!TypeOK
<1>0. MaxCard \in Nat /\ cardsNextId \in Nat /\ cardsNextId >= 3 /\ cardsNextId <= MaxCard + 1
  BY CardsConstants DEF CardsConstants, CardsInv, CardTypes, ListsFit
<1>1. ASSUME NEW s, CardList(s, cardsNextId), Fitting(s, Limits), NEW c \in s
      PROVE  c \in Cards!Card
  <2>1. /\ c = [id |-> c.id, isFrozen |-> c.isFrozen, limit |-> c.limit]
        /\ c.id \in Nat \ {0} /\ c.id < cardsNextId
    BY <1>1 DEF CardList, CardOf
  <2>2. c.id \in 1..MaxCard
    BY <1>0, <2>1
  <2>3. (c.isFrozen = TRUE \/ c.isFrozen = FALSE) /\ c.limit \in Limits
    BY <1>1 DEF Fitting, Fits
  <2>4. c.isFrozen \in BOOLEAN
    BY <2>3
  <2>5. QED
    BY <2>1, <2>2, <2>3, <2>4 DEF Cards!Card
<1>2. saved \subseteq Cards!Card
  BY <1>1 DEF CardsInv, CardTypes, ListsFit
<1>3. cardsNextId \in 3..(MaxCard + 1)
  BY <1>0
<1>4. ASSUME NEW t \in CardTab
      PROVE  /\ cardsList[t] \subseteq Cards!Card /\ Cards!Range(cardStates[t]) \subseteq Cards!Card
             /\ selectedCardId[t] \in DOMAIN cardStates[t]
             /\ confirmDeleteCardId[t] \in 0..MaxCard
  <2>1. TabAgrees(cardsList[t], cardStates[t], selectedCardId[t], confirmDeleteCardId[t], cardsNextId)
    BY DEF CardsInv
  <2>2. /\ CardList(cardsList[t], cardsNextId) /\ cardStates[t] = Latest(cardsList[t])
        /\ selectedCardId[t] \in Ids(cardsList[t])
        /\ confirmDeleteCardId[t] \in {0, selectedCardId[t]}
    BY <2>1 DEF TabAgrees
  <2>3. cardsList[t] \subseteq Cards!Card
    BY <1>1, <2>2 DEF CardTypes, ListsFit
  <2>4. DOMAIN cardStates[t] = Ids(cardsList[t])
    BY <2>2 DEF Latest
  <2>5. \A i \in Ids(cardsList[t]) : cardStates[t][i] \in cardsList[t]
    BY <2>2, CardNumbered
  <2>6. Cards!Range(cardStates[t]) \subseteq cardsList[t]
    BY <2>4, <2>5 DEF Cards!Range
  <2>7. selectedCardId[t] \in 0..MaxCard
    <3>1. PICK c \in cardsList[t] : c.id = selectedCardId[t]
      BY <2>2 DEF Ids
    <3>2. c.id \in Nat /\ c.id < cardsNextId
      BY <2>2, <3>1 DEF CardList
    <3>3. QED
      BY <1>0, <3>1, <3>2
  <2>8. confirmDeleteCardId[t] \in 0..MaxCard
    BY <1>0, <2>2, <2>7
  <2>9. QED
    BY <2>2, <2>3, <2>4, <2>6, <2>8
<1>5. ASSUME NEW t \in CardTab PROVE isFrozen[t] \in BOOLEAN /\ showDetails[t] \in BOOLEAN
  BY DEF CardTypes, FreezeTypes, DetailTypes
<1>6. ASSUME NEW t \in CardTab PROVE cardsTimers[t] \subseteq 0..HideAfter
  <2>1. HideAfter \in Nat
    BY CardsConstants DEF CardsConstants
  <2>2. QED
    BY <2>1 DEF CardTypes, HideTimers
<1>7. QED
  BY <1>2, <1>3, <1>4, <1>5, <1>6 DEF Cards!TypeOK

(* The same for the visit of one tab that reveals details.                 *)
LEMMA PreviewTypesInit == Preview!Init => CardTypes(PreviewTab, PreviewLimits)
<1> SUFFICES ASSUME Preview!Init PROVE CardTypes(PreviewTab, PreviewLimits)
  OBVIOUS
<1>0. "low" \in PreviewLimits /\ MaxCard >= 2 /\ MaxCard \in Nat
  BY CardsThere, CardsConstants DEF CardsThere, CardsConstants
<1>1. Preview!DEFAULT_CARDS = Default
  BY DEF Preview!DEFAULT_CARDS, Preview!Physical, Default
<1>2. Fitting(Default, PreviewLimits)
  BY <1>0, DefaultFits
<1>3. /\ saved = {} /\ cardsNextId = 3 /\ cardsList = [t \in PreviewTab |-> Default]
      /\ isFrozen = [t \in PreviewTab |-> FALSE] /\ showDetails = [t \in PreviewTab |-> FALSE]
      /\ cardsTimers = [t \in PreviewTab |-> {}]
  BY <1>1 DEF Preview!Init
<1>4. ListsFit(PreviewTab, PreviewLimits)
  <2>1. Fitting(saved, PreviewLimits)
    BY <1>3 DEF Fitting
  <2>2. QED
    BY <1>0, <1>2, <1>3, <2>1 DEF ListsFit
<1>5. FreezeTypes(PreviewTab) /\ DetailTypes(PreviewTab) /\ HideTimers(PreviewTab)
  BY <1>3 DEF FreezeTypes, DetailTypes, HideTimers
<1>6. QED
  BY <1>4, <1>5 DEF CardTypes

(* Every step of that tab keeps the types, the timers that hide details    *)
(* included.                                                               *)
LEMMA PreviewTypesStep ==
    /\ CardsInv(PreviewTab) /\ CardTypes(PreviewTab, PreviewLimits)
    /\ Preview!Next \/ UNCHANGED cardsVars
    => CardTypes(PreviewTab, PreviewLimits)'
<1> SUFFICES ASSUME CardsInv(PreviewTab), CardTypes(PreviewTab, PreviewLimits), Preview!Next \/ UNCHANGED cardsVars
             PROVE  CardTypes(PreviewTab, PreviewLimits)'
  OBVIOUS
<1>0. "low" \in PreviewLimits /\ MaxCard >= 2 /\ MaxCard \in Nat /\ HideAfter \in Nat /\ cardsNextId \in Nat
  BY CardsThere, CardsConstants DEF CardsThere, CardsConstants, CardsInv
<1>t. ListsFit(PreviewTab, PreviewLimits) /\ FreezeTypes(PreviewTab) /\ DetailTypes(PreviewTab) /\ HideTimers(PreviewTab)
  BY DEF CardTypes
<1>s. /\ UNCHANGED <<saved, cardsNextId, cardsList>> => ListsFit(PreviewTab, PreviewLimits)'
      /\ UNCHANGED isFrozen => FreezeTypes(PreviewTab)'
      /\ UNCHANGED showDetails => DetailTypes(PreviewTab)'
      /\ UNCHANGED cardsTimers => HideTimers(PreviewTab)'
  BY <1>t DEF ListsFit, Fitting, FreezeTypes, DetailTypes, HideTimers
<1>k. ASSUME ListsFit(PreviewTab, PreviewLimits)', FreezeTypes(PreviewTab)', DetailTypes(PreviewTab)', HideTimers(PreviewTab)'
      PROVE  CardTypes(PreviewTab, PreviewLimits)'
  BY <1>k DEF CardTypes
<1>1. CASE UNCHANGED cardsVars
  BY <1>1, <1>s, <1>k DEF cardsVars
<1>2. CASE Preview!Tick
  <2>1. /\ cardsTimers' = [t \in PreviewTab |-> {k - 1 : k \in cardsTimers[t]}]
        /\ \A t \in PreviewTab : 0 \notin cardsTimers[t]
    BY <1>2 DEF Preview!Tick
  <2>2. HideTimers(PreviewTab)'
    BY <1>0, <1>t, <2>1 DEF HideTimers
  <2>3. UNCHANGED <<saved, cardsNextId, cardsList, isFrozen, showDetails>>
    BY <1>2 DEF Preview!Tick, Preview!hub
  <2>4. QED
    BY <1>s, <1>k, <2>2, <2>3
<1>3. ASSUME NEW t \in PreviewTab, Preview!HandleToggleDetails(t) \/ Preview!AutoHide(t)
      PROVE  CardTypes(PreviewTab, PreviewLimits)'
  <2>1. /\ \/ showDetails' = [showDetails EXCEPT ![t] = ~@]
           \/ showDetails' = [showDetails EXCEPT ![t] = FALSE]
        /\ \E k : /\ cardsTimers' = [cardsTimers EXCEPT ![t] = k]
                  /\ k \subseteq cardsTimers[t] \cup {HideAfter}
        /\ UNCHANGED <<saved, cardsNextId, cardsList, isFrozen>>
    <3>1. CASE Preview!HandleToggleDetails(t)
      <4>1. cardsTimers' = [cardsTimers EXCEPT ![t] =
                              IF showDetails[t] THEN cardsTimers[t] ELSE cardsTimers[t] \cup {HideAfter}]
        BY <1>t, <3>1 DEF Preview!HandleToggleDetails, HideTimers
      <4>2. /\ showDetails' = [showDetails EXCEPT ![t] = ~@]
            /\ UNCHANGED <<saved, cardsNextId, cardsList, isFrozen>>
        BY <3>1 DEF Preview!HandleToggleDetails, Preview!hub
      <4>3. QED
        BY <4>1, <4>2
    <3>2. CASE Preview!AutoHide(t)
      <4>1. cardsTimers' = [cardsTimers EXCEPT ![t] = cardsTimers[t] \ {0}]
        BY <1>t, <3>2 DEF Preview!AutoHide, HideTimers
      <4>2. /\ showDetails' = [showDetails EXCEPT ![t] = FALSE]
            /\ UNCHANGED <<saved, cardsNextId, cardsList, isFrozen>>
        BY <3>2 DEF Preview!AutoHide, Preview!hub
      <4>3. QED
        BY <4>1, <4>2
    <3>3. QED
      BY <1>3, <3>1, <3>2
  <2>2. DetailTypes(PreviewTab)'
    BY <1>t, <2>1 DEF DetailTypes
  <2>3. HideTimers(PreviewTab)'
    BY <1>0, <1>t, <2>1 DEF HideTimers
  <2>4. QED
    BY <1>s, <1>k, <2>1, <2>2, <2>3
<1>4. ASSUME NEW t \in PreviewTab, Preview!Reload(t) PROVE CardTypes(PreviewTab, PreviewLimits)'
  <2> DEFINE s == IF saved = {} THEN Default ELSE saved
  <2>1. CardList(s, cardsNextId) /\ Fitting(s, PreviewLimits)
    BY <1>0, <1>t, DefaultList, DefaultFits DEF ListsFit, CardsInv
  <2>2. Preview!DEFAULT_CARDS = Default
    BY DEF Preview!DEFAULT_CARDS, Preview!Physical, Default
  <2>3. \A c : Preview!ById(c) = Latest(c) /\ Preview!First(c) = Least(c)
    BY DEF Preview!ById, Preview!First, Latest, Least, Ids
  <2>4. /\ cardsList' = [cardsList EXCEPT ![t] = s] /\ UNCHANGED <<saved, cardsNextId>>
        /\ isFrozen' = [isFrozen EXCEPT ![t] = Latest(s)[Least(s)].isFrozen]
        /\ showDetails' = [showDetails EXCEPT ![t] = FALSE]
        /\ cardsTimers' = [cardsTimers EXCEPT ![t] = {}]
    BY <1>4, <2>2, <2>3 DEF Preview!Reload
  <2> HIDE DEF s
  <2>5. ListsFit(PreviewTab, PreviewLimits)'
    <3>1. Fitting(saved', PreviewLimits) /\ cardsNextId' <= MaxCard + 1
      BY <1>t, <2>4 DEF ListsFit
    <3>2. QED
      BY <1>t, <2>1, <2>4, <3>1, ListFits
  <2> DEFINE frozen == Latest(s)[Least(s)].isFrozen
  <2>6. frozen = TRUE \/ frozen = FALSE
    BY <2>1, FirstFrozen
  <2>7. isFrozen' = [isFrozen EXCEPT ![t] = frozen]
    BY <2>4
  <2> HIDE DEF frozen
  <2>8. FreezeTypes(PreviewTab)'
    BY <1>t, <2>6, <2>7 DEF FreezeTypes
  <2>9. DetailTypes(PreviewTab)' /\ HideTimers(PreviewTab)'
    BY <1>t, <2>4 DEF DetailTypes, HideTimers
  <2>10. QED
    BY <1>k, <2>5, <2>8, <2>9
<1>5. ASSUME NEW t \in PreviewTab, Preview!ChangeSetting(t) \/ Preview!HandleToggleFreeze(t)
      PROVE  CardTypes(PreviewTab, PreviewLimits)'
  <2> DEFINE card == cardStates[t][selectedCardId[t]]
  <2>1. CardOf(card) /\ Fits(card, PreviewLimits)
    BY <1>t, CardShown
  <2>2. FreezeTypes(PreviewTab)'
    <3>1. UNCHANGED isFrozen \/ isFrozen' = [isFrozen EXCEPT ![t] = ~@]
      BY <1>5 DEF Preview!ChangeSetting, Preview!HandleToggleFreeze, Preview!preview
    <3>2. QED
      BY <1>t, <3>1 DEF FreezeTypes
  <2>3. UNCHANGED <<cardsNextId, showDetails, cardsTimers>>
    BY <1>5 DEF Preview!ChangeSetting, Preview!HandleToggleFreeze, Preview!preview
  <2>4. PICK c : Fits(c, PreviewLimits) /\ Preview!UpdateCurrentCard(t, c)
    <3>1. CASE Preview!ChangeSetting(t)
      <4>1. PICK c \in Preview!Updates(card) : Preview!UpdateCurrentCard(t, c)
        BY <3>1 DEF Preview!ChangeSetting, Preview!CurrentCard
      <4> HIDE DEF card
      <4>2. \/ \E l \in PreviewLimits : c = [card EXCEPT !.limit = l]
            \/ c = [card EXCEPT !.isFrozen = ~card.isFrozen]
        BY <4>1 DEF Preview!Updates
      <4>3. Fits(c, PreviewLimits)
        BY <2>1, <4>2 DEF CardOf, Fits
      <4>4. QED
        BY <4>1, <4>3
    <3>2. CASE Preview!HandleToggleFreeze(t)
      <4> DEFINE c == [card EXCEPT !.isFrozen = ~isFrozen[t]]
      <4>1. Preview!UpdateCurrentCard(t, c)
        BY <3>2 DEF Preview!HandleToggleFreeze, Preview!CurrentCard
      <4> HIDE DEF card
      <4>2. Fits(c, PreviewLimits)
        BY <1>t, <2>1 DEF CardOf, Fits, FreezeTypes
      <4>3. QED
        BY <4>1, <4>2
    <3>3. QED
      BY <1>5, <3>1, <3>2
  <2> DEFINE list == {d \in cardsList[t] : d.id # selectedCardId[t]} \cup {c}
  <2>5. cardsList' = [cardsList EXCEPT ![t] = list] /\ saved' = list
    BY <2>4 DEF Preview!UpdateCurrentCard, Preview!SaveCards
  <2>6. Fitting(list, PreviewLimits)
    BY <1>t, <2>4 DEF ListsFit, Fitting
  <2> HIDE DEF list
  <2>7. ListsFit(PreviewTab, PreviewLimits)'
    <3>1. Fitting(saved', PreviewLimits) /\ cardsNextId' <= MaxCard + 1
      BY <1>t, <2>3, <2>5, <2>6 DEF ListsFit
    <3>2. QED
      BY <1>t, <2>5, <2>6, <3>1, ListFits
  <2>8. QED
    BY <1>s, <1>k, <2>2, <2>3, <2>7
<1>6. ASSUME NEW t \in PreviewTab,
             Preview!SelectCard(t) \/ Preview!AskToDelete(t) \/ Preview!CancelDelete(t)
      PROVE  CardTypes(PreviewTab, PreviewLimits)'
  <2>1. UNCHANGED <<saved, cardsNextId, cardsList, isFrozen, showDetails, cardsTimers>>
    BY <1>6 DEF Preview!SelectCard, Preview!AskToDelete, Preview!CancelDelete, Preview!preview
  <2>2. QED
    BY <1>s, <1>k, <2>1
<1>7. ASSUME NEW t \in PreviewTab, Preview!HandleGenerateVirtualCard(t) PROVE CardTypes(PreviewTab, PreviewLimits)'
  <2> DEFINE c == [id |-> cardsNextId, isFrozen |-> FALSE, limit |-> "low"]
             list == cardsList[t] \cup {c}
  <2>1. /\ cardsNextId <= MaxCard /\ cardsNextId' = cardsNextId + 1
        /\ cardsList' = [cardsList EXCEPT ![t] = list] /\ saved' = list
        /\ UNCHANGED <<isFrozen, showDetails, cardsTimers>>
    BY <1>7 DEF Preview!HandleGenerateVirtualCard, Preview!SaveCards, Preview!preview
  <2>2. Fits(c, PreviewLimits)
    BY <1>0 DEF Fits
  <2>3. Fitting(list, PreviewLimits)
    BY <1>t, <2>2 DEF ListsFit, Fitting
  <2> HIDE DEF list
  <2>4. cardsNextId' <= MaxCard + 1
    BY <1>0, <2>1
  <2>5. Fitting(saved', PreviewLimits)
    BY <2>1, <2>3
  <2>6. ListsFit(PreviewTab, PreviewLimits)'
    BY <1>t, <2>1, <2>3, <2>4, <2>5, ListFits
  <2>7. QED
    BY <1>s, <1>k, <2>1, <2>6
<1>8. ASSUME NEW t \in PreviewTab, Preview!HandleDeleteVirtualCard(t) PROVE CardTypes(PreviewTab, PreviewLimits)'
  <2> DEFINE list == {c \in cardsList[t] : c.id # selectedCardId[t]}
  <2>1. /\ cardsList' = [cardsList EXCEPT ![t] = list] /\ saved' = list
        /\ UNCHANGED <<cardsNextId, isFrozen, showDetails, cardsTimers>>
    BY <1>8 DEF Preview!HandleDeleteVirtualCard, Preview!SaveCards, Preview!preview
  <2>2. Fitting(list, PreviewLimits)
    BY <1>t DEF ListsFit, Fitting
  <2> HIDE DEF list
  <2>3. Fitting(saved', PreviewLimits) /\ cardsNextId' <= MaxCard + 1
    BY <1>t, <2>1, <2>2 DEF ListsFit
  <2>4. ListsFit(PreviewTab, PreviewLimits)'
    BY <1>t, <2>1, <2>2, <2>3, ListFits
  <2>5. QED
    BY <1>s, <1>k, <2>1, <2>4
<1>9. QED
  BY <1>1, <1>2, <1>3, <1>4, <1>5, <1>6, <1>7, <1>8 DEF Preview!Next

(* They are, with the agreement of the copies, the type invariant of Cards *)
(* for the preview.                                                        *)
LEMMA PreviewTypesFacts ==
    ASSUME CardsInv(PreviewTab), CardTypes(PreviewTab, PreviewLimits) PROVE Preview!TypeOK
<1>0. MaxCard \in Nat /\ cardsNextId \in Nat /\ cardsNextId >= 3 /\ cardsNextId <= MaxCard + 1
  BY CardsConstants DEF CardsConstants, CardsInv, CardTypes, ListsFit
<1>1. ASSUME NEW s, CardList(s, cardsNextId), Fitting(s, PreviewLimits), NEW c \in s
      PROVE  c \in Preview!Card
  <2>1. /\ c = [id |-> c.id, isFrozen |-> c.isFrozen, limit |-> c.limit]
        /\ c.id \in Nat \ {0} /\ c.id < cardsNextId
    BY <1>1 DEF CardList, CardOf
  <2>2. c.id \in 1..MaxCard
    BY <1>0, <2>1
  <2>3. (c.isFrozen = TRUE \/ c.isFrozen = FALSE) /\ c.limit \in PreviewLimits
    BY <1>1 DEF Fitting, Fits
  <2>4. c.isFrozen \in BOOLEAN
    BY <2>3
  <2>5. QED
    BY <2>1, <2>2, <2>3, <2>4 DEF Preview!Card
<1>2. saved \subseteq Preview!Card
  BY <1>1 DEF CardsInv, CardTypes, ListsFit
<1>3. cardsNextId \in 3..(MaxCard + 1)
  BY <1>0
<1>4. ASSUME NEW t \in PreviewTab
      PROVE  /\ cardsList[t] \subseteq Preview!Card /\ Preview!Range(cardStates[t]) \subseteq Preview!Card
             /\ selectedCardId[t] \in DOMAIN cardStates[t]
             /\ confirmDeleteCardId[t] \in 0..MaxCard
  <2>1. TabAgrees(cardsList[t], cardStates[t], selectedCardId[t], confirmDeleteCardId[t], cardsNextId)
    BY DEF CardsInv
  <2>2. /\ CardList(cardsList[t], cardsNextId) /\ cardStates[t] = Latest(cardsList[t])
        /\ selectedCardId[t] \in Ids(cardsList[t])
        /\ confirmDeleteCardId[t] \in {0, selectedCardId[t]}
    BY <2>1 DEF TabAgrees
  <2>3. cardsList[t] \subseteq Preview!Card
    BY <1>1, <2>2 DEF CardTypes, ListsFit
  <2>4. DOMAIN cardStates[t] = Ids(cardsList[t])
    BY <2>2 DEF Latest
  <2>5. \A i \in Ids(cardsList[t]) : cardStates[t][i] \in cardsList[t]
    BY <2>2, CardNumbered
  <2>6. Preview!Range(cardStates[t]) \subseteq cardsList[t]
    BY <2>4, <2>5 DEF Preview!Range
  <2>7. selectedCardId[t] \in 0..MaxCard
    <3>1. PICK c \in cardsList[t] : c.id = selectedCardId[t]
      BY <2>2 DEF Ids
    <3>2. c.id \in Nat /\ c.id < cardsNextId
      BY <2>2, <3>1 DEF CardList
    <3>3. QED
      BY <1>0, <3>1, <3>2
  <2>8. confirmDeleteCardId[t] \in 0..MaxCard
    BY <1>0, <2>2, <2>7
  <2>9. QED
    BY <2>2, <2>3, <2>4, <2>6, <2>8
<1>5. ASSUME NEW t \in PreviewTab PROVE isFrozen[t] \in BOOLEAN /\ showDetails[t] \in BOOLEAN
  BY DEF CardTypes, FreezeTypes, DetailTypes
<1>6. ASSUME NEW t \in PreviewTab PROVE cardsTimers[t] \subseteq 0..HideAfter
  <2>1. HideAfter \in Nat
    BY CardsConstants DEF CardsConstants
  <2>2. QED
    BY <2>1 DEF CardTypes, HideTimers
<1>7. QED
  BY <1>2, <1>3, <1>4, <1>5, <1>6 DEF Preview!TypeOK

-----------------------------------------------------------------------------
(* Types of the profile page.                                              *)

(* How much the profile page has sent: requests of one kind only, and      *)
(* those under way, together with the logouts that a stored password has   *)
(* left due, are no more than were sent.                                   *)
SentTypes(kind, most) ==
    /\ profileSent = [k \in Kinds |-> profileSent[k]]
    /\ \A k \in Kinds \ {kind} : profileSent[k] = 0
    /\ profileSent[kind] \in Nat /\ profileSent[kind] <= most
    /\ IsFiniteSet(profileRequests)
    /\ profileTimers \in Nat
    /\ profileTimers + Cardinality(profileRequests) <= profileSent[kind]

(* Whether a form was left in peace is known for every kind.               *)
CalmTypes ==
    /\ calm = [k \in Kinds |-> calm[k]]
    /\ \A k \in Kinds : calm[k] = TRUE \/ calm[k] = FALSE

(* A form that is submitted sends one request more, within its bound.      *)
LEMMA SentMore ==
    ASSUME NEW kind \in Kinds, NEW most \in Nat, SentTypes(kind, most), NEW x,
           profileRequests' = profileRequests \cup {x}, Counted(kind),
           profileSent[kind] < most, UNCHANGED profileTimers
    PROVE  SentTypes(kind, most)'
<1>1. /\ IsFiniteSet(profileRequests) /\ Cardinality(profileRequests) \in Nat
      /\ profileSent[kind] \in Nat /\ profileTimers \in Nat
      /\ profileTimers + Cardinality(profileRequests) <= profileSent[kind]
  BY FS_CardinalityType DEF SentTypes
<1>2. /\ IsFiniteSet(profileRequests')
      /\ Cardinality(profileRequests') = Cardinality(profileRequests)
         \/ Cardinality(profileRequests') = Cardinality(profileRequests) + 1
  BY <1>1, FS_AddElement
<1>3. /\ profileSent' = [k \in Kinds |-> profileSent'[k]]
      /\ profileSent'[kind] = profileSent[kind] + 1
      /\ \A k \in Kinds \ {kind} : profileSent'[k] = 0
  BY DEF SentTypes, Counted
<1> DEFINE few == Cardinality(profileRequests)
           now == Cardinality(profileRequests')
<1>4. now = few \/ now = few + 1
  BY <1>2
<1>5. few \in Nat /\ profileTimers + few <= profileSent[kind]
  BY <1>1
<1> HIDE DEF few, now
<1>6. profileTimers' + now <= profileSent'[kind]
  BY <1>1, <1>3, <1>4, <1>5
<1>7. profileSent'[kind] \in Nat /\ profileSent'[kind] <= most
  BY <1>1, <1>3
<1>8. QED
  BY <1>1, <1>2, <1>3, <1>6, <1>7 DEF SentTypes, now

(* A request that goes on to its next step takes the place of the one      *)
(* before, and one that is over may leave one logout due in its place.     *)
LEMMA SentLess ==
    ASSUME NEW kind \in Kinds, NEW most \in Nat, SentTypes(kind, most),
           NEW r \in profileRequests, NEW d, NEW s \in {{}, {d}},
           profileRequests' = (profileRequests \ {r}) \cup s, UNCHANGED profileSent,
           UNCHANGED profileTimers \/ (s = {} /\ profileTimers' = profileTimers + 1)
    PROVE  SentTypes(kind, most)'
<1> DEFINE rest == profileRequests \ {r}
           few == Cardinality(profileRequests)
           left == Cardinality(rest)
           now == Cardinality(profileRequests')
<1>1. /\ IsFiniteSet(profileRequests) /\ few \in Nat
      /\ profileSent[kind] \in Nat /\ profileTimers \in Nat
      /\ profileTimers + few <= profileSent[kind]
  BY FS_CardinalityType DEF SentTypes
<1>2. IsFiniteSet(rest) /\ left = few - 1
  BY <1>1, FS_RemoveElement
<1>3. left \in Nat
  BY <1>2, FS_CardinalityType
<1>4. IsFiniteSet(profileRequests') /\ (now = left \/ (s # {} /\ now = left + 1))
  <2>1. CASE s = {}
    <3>1. profileRequests' = rest
      BY <2>1
    <3>2. QED
      BY <1>2, <3>1
  <2>2. CASE s = {d} /\ s # {}
    <3>1. profileRequests' = rest \cup {d}
      BY <2>2
    <3>2. IsFiniteSet(rest \cup {d}) /\ (Cardinality(rest \cup {d}) = left
                                         \/ Cardinality(rest \cup {d}) = left + 1)
      BY <1>2, FS_AddElement
    <3>3. QED
      BY <2>2, <3>1, <3>2
  <2>3. QED
    BY <2>1, <2>2
<1> HIDE DEF few, left, now
<1>5. /\ profileTimers' \in Nat /\ profileTimers' + now <= profileSent'[kind]
  BY <1>1, <1>2, <1>3, <1>4
<1>6. QED
  BY <1>4, <1>5 DEF SentTypes, now

(* A logout that was due is off the books once it has happened.            *)
LEMMA SentOff ==
    ASSUME NEW kind \in Kinds, NEW most \in Nat, SentTypes(kind, most),
           UNCHANGED <<profileRequests, profileSent>>,
           profileTimers > 0, profileTimers' = profileTimers - 1
    PROVE  SentTypes(kind, most)'
<1>1. Cardinality(profileRequests) \in Nat
  BY FS_CardinalityType DEF SentTypes
<1> DEFINE few == Cardinality(profileRequests)
<1>2. /\ few \in Nat /\ profileTimers \in Nat /\ profileSent[kind] \in Nat
      /\ profileTimers + few <= profileSent[kind]
  BY <1>1 DEF SentTypes
<1> HIDE DEF few
<1>3. profileTimers' \in Nat /\ profileTimers' + few <= profileSent[kind]
  BY <1>2
<1>4. QED
  BY <1>3 DEF SentTypes, few

(* A step that touches none of these variables keeps what was counted.     *)
LEMMA SentSame ==
    ASSUME NEW kind, NEW most, SentTypes(kind, most),
           UNCHANGED <<profileRequests, profileSent, profileTimers>>
    PROVE  SentTypes(kind, most)'
  BY DEF SentTypes

(* Neither the logouts due nor the requests exceed the bound.              *)
LEMMA SentBounds ==
    ASSUME NEW kind \in Kinds, NEW most \in Nat, SentTypes(kind, most)
    PROVE  /\ profileSent[kind] \in 0..most /\ profileTimers \in 0..most
           /\ \A k \in Kinds \ {kind} : profileSent[k] = 0
           /\ Cardinality(profileRequests) <= profileSent[kind]
<1>1. Cardinality(profileRequests) \in Nat
  BY FS_CardinalityType DEF SentTypes
<1> DEFINE few == Cardinality(profileRequests)
<1>2. /\ few \in Nat /\ profileTimers \in Nat /\ profileSent[kind] \in Nat
      /\ profileSent[kind] <= most
      /\ profileTimers + few <= profileSent[kind]
  BY <1>1 DEF SentTypes
<1> HIDE DEF few
<1>3. profileTimers <= most /\ few <= profileSent[kind]
  BY <1>2
<1>4. QED
  BY <1>2, <1>3 DEF SentTypes, few

(* A kind that is disturbed is marked as such, and no other.               *)
LEMMA CalmChanged ==
    ASSUME CalmTypes, NEW k \in Kinds, NEW b, b = TRUE \/ b = FALSE,
           calm' = [calm EXCEPT ![k] = b]
    PROVE  CalmTypes'
  BY DEF CalmTypes

(* The visit that changes the password: what is stored of the user, the    *)
(* sessions, the fields of the form, and the spinner of the button, which  *)
(* turns only while a request of this session is under way.                *)
PassUser ==
    /\ password \notin ShortPassword
    /\ backup = "none" /\ taken = {}
    /\ prefs = Profile!Unset /\ settings = Profile!Unset
PassSessions ==
    /\ signedIn = TRUE \/ signedIn = FALSE
    /\ sessions \in Nat /\ sessions >= 1 /\ sessions <= MaxSessions
PassForms ==
    fields \in Form \cup {Profile!Empty} /\ captured \in Form \cup {Profile!Empty}
PassWaits ==
    /\ signedIn /\ passLoading => \E r \in profileRequests : r.waiting = sessions
    /\ ~backupLoading

PassTypes ==
    /\ SentTypes("password", MaxChanges) /\ CalmTypes
    /\ PassUser /\ PassSessions /\ PassForms /\ PassWaits

(* The page opens with the old password stored and nothing sent.           *)
LEMMA PassTypesInit == Profile!Init => PassTypes
<1> SUFFICES ASSUME Profile!Init PROVE PassTypes
  OBVIOUS
<1>0. /\ Old \notin ShortPassword /\ MaxSessions \in Nat \ {0} /\ MaxChanges \in Nat
  BY ProfileConstants DEF ProfileConstants
<1>1. IsFiniteSet({}) /\ Cardinality({}) = 0
  BY FS_EmptySet
<1>2. /\ profileRequests = {} /\ profileSent = [k \in Kinds |-> 0] /\ profileTimers = 0
      /\ calm = [k \in Kinds |-> TRUE]
  BY DEF Profile!Init, Profile!Kind, Kinds
<1>3. SentTypes("password", MaxChanges)
  BY <1>0, <1>1, <1>2 DEF SentTypes, Kinds
<1>4. CalmTypes
  BY <1>2 DEF CalmTypes
<1>5. PassUser
  BY <1>0 DEF Profile!Init, Profile!None, PassUser
<1>6. PassSessions /\ PassForms /\ PassWaits
  BY <1>0 DEF Profile!Init, PassSessions, PassForms, PassWaits
<1>7. QED
  BY <1>3, <1>4, <1>5, <1>6 DEF PassTypes

(* Every step of the form, of its requests in the server and of their      *)
(* answers keeps the types.                                                *)
LEMMA PassTypesStep ==
    PassInv /\ PassTypes /\ (Profile!Next \/ UNCHANGED profileVars) => PassTypes'
<1> SUFFICES ASSUME PassInv, PassTypes, Profile!Next \/ UNCHANGED profileVars PROVE PassTypes'
  OBVIOUS
<1> DEFINE requests == profileRequests
<1>0. MaxChanges \in Nat /\ MaxSessions \in Nat \ {0} /\ "password" \in Kinds
  BY ProfileConstants DEF ProfileConstants, Kinds
<1>r. \A r \in requests : RequestOf(r) /\ r.kind = "password"
  BY DEF PassInv, PassRequests
<1>t. /\ SentTypes("password", MaxChanges) /\ CalmTypes
      /\ PassUser /\ PassSessions /\ PassForms /\ PassWaits
  BY DEF PassTypes
<1>s. /\ UNCHANGED <<profileRequests, profileSent, profileTimers>> => SentTypes("password", MaxChanges)'
      /\ UNCHANGED calm => CalmTypes'
      /\ UNCHANGED <<password, backup, taken, prefs, settings>> => PassUser'
      /\ UNCHANGED <<signedIn, sessions>> => PassSessions'
      /\ UNCHANGED <<fields, captured>> => PassForms'
      /\ UNCHANGED <<signedIn, sessions, profileRequests, passLoading, backupLoading>> => PassWaits'
  BY <1>t, SentSame DEF CalmTypes, PassUser, PassSessions, PassForms, PassWaits
<1>k. ASSUME SentTypes("password", MaxChanges)', CalmTypes', PassUser', PassSessions',
             PassForms', PassWaits'
      PROVE  PassTypes'
  BY <1>k DEF PassTypes
<1>1. CASE UNCHANGED profileVars
  BY <1>1, <1>s, <1>k DEF profileVars
<1>2. CASE \/ Profile!TypePassword \/ Profile!HandlePasswordSubmit \/ Profile!CancelDialog
           \/ Profile!DialogGone
  <2>1. UNCHANGED <<password, backup, taken, prefs, settings, signedIn, sessions, profileTimers,
                    profileRequests, profileSent, passLoading, backupLoading, calm>>
    BY <1>2 DEF Profile!TypePassword, Profile!HandlePasswordSubmit, Profile!CancelDialog,
       Profile!DialogGone, Profile!bank, Profile!browser, Profile!backupForm, Profile!history
  <2>2. PassForms'
    <3>1. CASE Profile!TypePassword
      BY <1>t, <3>1 DEF Profile!TypePassword, PassForms
    <3>2. CASE Profile!HandlePasswordSubmit
      BY <1>t, <3>2 DEF Profile!HandlePasswordSubmit, PassForms
    <3>3. CASE Profile!CancelDialog
      BY <1>t, <3>3 DEF Profile!CancelDialog, Profile!Leave, PassForms
    <3>4. CASE Profile!DialogGone
      BY <1>t, <3>4 DEF Profile!DialogGone, PassForms
    <3>5. QED
      BY <1>2, <3>1, <3>2, <3>3, <3>4
  <2>3. QED
    BY <1>s, <1>k, <2>1, <2>2
<1>3. CASE Profile!HandlePasswordUpdate
  <2>1. PICK f : /\ f = IF profileDialog = "open" THEN fields ELSE captured
                 /\ Profile!Send("password", f, Profile!None) /\ Profile!Leave(f)
    BY <1>3 DEF Profile!HandlePasswordUpdate
  <2>2. PICK r : r = [n |-> profileSent'["password"], kind |-> "password", form |-> f,
                      email |-> Profile!None, prefs |-> settings', at |-> "sent",
                      seen |-> Profile!Row, waiting |-> sessions]
    OBVIOUS
  <2>3. /\ requests' = requests \cup {r} /\ Counted("password")
        /\ profileSent["password"] < Bounds(MaxChanges, 0, 0)["password"]
    BY <2>1, <2>2 DEF Profile!Send, Counted
  <2>4. UNCHANGED <<password, backup, taken, prefs, settings, signedIn, sessions, profileTimers,
                    fields, backupLoading>>
    BY <1>3 DEF Profile!HandlePasswordUpdate, Profile!bank, Profile!browser, Profile!backupForm
  <2>5. SentTypes("password", MaxChanges)'
    <3>1. profileSent["password"] < MaxChanges
      BY <2>3 DEF Bounds
    <3>2. QED
      BY <1>0, <1>t, <2>3, <2>4, <3>1, SentMore
  <2>6. CalmTypes'
    <3> DEFINE b == Profile!UnderWay("password") = {}
                      /\ (calm["password"] \/ ~Profile!Announced("password"))
    <3>1. calm' = [calm EXCEPT !["password"] = b]
      BY <2>1 DEF Profile!Send
    <3>2. b = TRUE \/ b = FALSE
      OBVIOUS
    <3> HIDE DEF b
    <3>3. QED
      BY <1>0, <1>t, <3>1, <3>2, CalmChanged
  <2>7. PassForms'
    BY <1>t, <2>1, <2>4 DEF Profile!Leave, PassForms
  <2>8. PassWaits'
    <3>1. r.waiting = sessions
      BY <2>2
    <3>2. QED
      BY <1>t, <2>3, <2>4, <3>1 DEF PassWaits
  <2>9. QED
    BY <1>s, <1>k, <2>4, <2>5, <2>6, <2>7, <2>8
(* A request that goes on goes on waiting, and one that is over is waited  *)
(* for no more. *)
<1>4. ASSUME NEW r \in requests, NEW d, NEW s \in {{}, {d}},
             requests' = (requests \ {r}) \cup s,
             UNCHANGED <<signedIn, sessions, backupLoading>>, passLoading' => passLoading,
             signedIn /\ r.waiting = sessions => (s # {} /\ d.waiting = sessions) \/ ~passLoading'
      PROVE  PassWaits'
  <2>1. ASSUME signedIn, passLoading' PROVE \E q \in requests' : q.waiting = sessions
    <3>1. PICK q \in requests : q.waiting = sessions
      BY <1>4, <1>t, <2>1 DEF PassWaits
    <3>2. CASE q = r
      <4>1. s # {} /\ d.waiting = sessions
        BY <1>4, <2>1, <3>1, <3>2
      <4>2. d \in requests'
        BY <1>4, <4>1
      <4>3. QED
        BY <4>1, <4>2
    <3>3. CASE q # r
      <4>1. q \in requests'
        BY <1>4, <3>3
      <4>2. QED
        BY <3>1, <4>1
    <3>4. QED
      BY <3>2, <3>3
  <2>2. QED
    BY <1>4, <1>t, <2>1 DEF PassWaits
<1>5. ASSUME NEW r \in requests, Profile!Reads(r) PROVE PassTypes'
  <2>1. PICK c, d : /\ c = [r EXCEPT !.at = "read"] /\ d = [c EXCEPT !.seen = Profile!Row]
    OBVIOUS
  <2>2. d.waiting = r.waiting
    <3>1. RequestOf(c) /\ c.waiting = r.waiting
      BY <1>r, <2>1, RequestGoesOn DEF Becomes
    <3>2. QED
      BY <2>1, <3>1, RequestReads
  <2>3. d = [r EXCEPT !.at = "read", !.seen = Profile!Row]
    BY <2>1
  <2>4. requests' = (requests \ {r}) \cup {d}
    BY <1>5, <2>3 DEF Profile!Reads, Profile!Instead
  <2>5. UNCHANGED <<password, backup, taken, prefs, settings, signedIn, sessions, profileTimers,
                    profileSent, fields, captured, passLoading, backupLoading, calm>>
    BY <1>5 DEF Profile!Reads, Profile!bank, Profile!browser, Profile!passForm,
       Profile!backupForm, Profile!history
  <2>6. SentTypes("password", MaxChanges)'
    BY <1>0, <1>t, <2>4, <2>5, SentLess
  <2>7. PassWaits'
    BY <1>4, <2>2, <2>4, <2>5
  <2>8. QED
    BY <1>s, <1>k, <2>5, <2>6, <2>7
<1>6. ASSUME NEW r \in requests, Profile!Commits(r) PROVE PassTypes'
  <2>0. Profile!UpdatePassword(r)
    BY <1>r, <1>6 DEF Profile!Commits, Profile!UpdateBackupEmail, Profile!UpdatePreferences
  <2>1. PICK a \in {"ok", "refused"} :
          requests' = (requests \ {r}) \cup
             (IF r.waiting = 0 THEN {} ELSE {[r EXCEPT !.at = a]})
    BY <2>0 DEF Profile!UpdatePassword, Profile!Decided, Profile!Instead
  <2>2. PICK d : d = [r EXCEPT !.at = a]
    OBVIOUS
  <2>3. d.waiting = r.waiting
    BY <1>r, <2>2, RequestGoesOn
  <2>4. PICK s \in {{}, {d}} : /\ s = IF r.waiting = 0 THEN {} ELSE {d}
                               /\ requests' = (requests \ {r}) \cup s
    BY <2>1, <2>2
  <2>5. /\ password' = password \/ password' \notin ShortPassword
        /\ UNCHANGED <<backup, taken, prefs>>
    BY <2>0 DEF Profile!UpdatePassword
  <2>6. UNCHANGED <<settings, signedIn, sessions, profileTimers,
                    profileSent, fields, captured, passLoading, backupLoading, calm>>
    BY <1>6 DEF Profile!Commits, Profile!browser, Profile!passForm,
       Profile!backupForm, Profile!history
  <2>7. SentTypes("password", MaxChanges)'
    BY <1>0, <1>t, <2>4, <2>6, SentLess
  <2>8. PassWaits'
    <3>1. sessions # 0
      BY <1>t DEF PassSessions
    <3>2. QED
      BY <1>4, <2>3, <2>4, <2>6, <3>1
  <2>9. PassUser'
    BY <1>t, <2>5, <2>6 DEF PassUser
  <2>10. QED
    BY <1>s, <1>k, <2>6, <2>7, <2>8, <2>9
<1>7. ASSUME NEW r \in requests, Profile!Refused(r) \/ Profile!Fails(r) PROVE PassTypes'
  <2>1. PICK d : d = [r EXCEPT !.waiting = 0]
    OBVIOUS
  <2>2. PICK s \in {{}, {d}} : requests' = (requests \ {r}) \cup s
    BY <1>7, <2>1 DEF Profile!Refused, Profile!Fails, Profile!Instead
  <2>3. /\ passLoading' = (passLoading /\ ~(r.waiting = sessions /\ signedIn /\ r.kind = "password"))
        /\ backupLoading' = (backupLoading /\ ~(r.waiting = sessions /\ signedIn /\ r.kind = "backup"))
        /\ UNCHANGED <<password, backup, taken, prefs, settings, signedIn, sessions, profileTimers,
                       profileSent, fields, captured>>
    BY <1>7 DEF Profile!Refused, Profile!Fails, Profile!Reported, Profile!bank, Profile!browser
  <2>4. r.kind = "password"
    BY <1>r
  <2>5. UNCHANGED calm \/ calm' = [calm EXCEPT !["password"] = FALSE]
    BY <1>7, <2>4 DEF Profile!Refused, Profile!Fails
  <2>6. CalmTypes'
    BY <1>0, <1>s, <1>t, <2>5, CalmChanged
  <2>7. SentTypes("password", MaxChanges)'
    BY <1>0, <1>t, <2>2, <2>3, SentLess
  <2>8. PassWaits'
    <3>1. ~backupLoading /\ ~backupLoading'
      BY <1>t, <2>3 DEF PassWaits
    <3>2. signedIn /\ r.waiting = sessions => ~passLoading'
      BY <2>3, <2>4
    <3>3. passLoading' => passLoading
      BY <2>3
    <3>4. ASSUME signedIn, passLoading' PROVE \E q \in requests' : q.waiting = sessions
      <4>1. PICK q \in requests : q.waiting = sessions
        BY <1>t, <3>3, <3>4 DEF PassWaits
      <4>2. q # r
        BY <3>2, <3>4, <4>1
      <4>3. QED
        BY <2>2, <4>1, <4>2
    <3>5. QED
      BY <2>3, <3>1, <3>4 DEF PassWaits
  <2>9. QED
    BY <1>s, <1>k, <2>3, <2>6, <2>7, <2>8
<1>8. ASSUME NEW r \in requests, Profile!PasswordUpdated(r) PROVE PassTypes'
  <2>1. /\ requests' = (requests \ {r}) \cup {} /\ profileTimers' = profileTimers + 1
        /\ UNCHANGED <<password, backup, taken, prefs, settings, signedIn, sessions,
                       profileSent, captured, backupLoading, calm>>
    BY <1>8 DEF Profile!PasswordUpdated, Profile!Instead, Profile!bank, Profile!backupForm
  <2>2. /\ fields' = Profile!Empty \/ fields' = fields
        /\ passLoading' = passLoading \/ ~passLoading'
        /\ r.waiting = sessions /\ signedIn => ~passLoading'
    BY <1>8 DEF Profile!PasswordUpdated
  <2>3. SentTypes("password", MaxChanges)'
    BY <1>0, <1>t, <2>1, SentLess
  <2>4. PassForms'
    BY <1>t, <2>1, <2>2 DEF PassForms
  <2>5. PassWaits'
    BY <1>4, <2>1, <2>2
  <2>6. QED
    BY <1>s, <1>k, <2>1, <2>3, <2>4, <2>5
<1>9. CASE Profile!LogoutTimer
  <2>1. /\ profileTimers > 0 /\ profileTimers' = profileTimers - 1 /\ signedIn' = FALSE
        /\ UNCHANGED <<password, backup, taken, prefs, settings, sessions, profileRequests,
                       profileSent, fields, captured, passLoading, backupLoading, calm>>
    BY <1>9 DEF Profile!LogoutTimer, Profile!bank, Profile!passForm, Profile!backupForm,
       Profile!history
  <2>2. SentTypes("password", MaxChanges)'
    BY <1>0, <1>t, <2>1, SentOff
  <2>3. PassSessions'
    BY <1>t, <2>1 DEF PassSessions
  <2>4. PassWaits'
    BY <1>t, <2>1 DEF PassWaits
  <2>5. QED
    BY <1>s, <1>k, <2>1, <2>2, <2>3, <2>4
<1>10. CASE Profile!LogIn
  <2>1. /\ sessions < MaxSessions /\ signedIn' = TRUE /\ sessions' = sessions + 1
        /\ settings' = prefs /\ fields' = Profile!Empty /\ captured' = Profile!Empty
        /\ passLoading' = FALSE /\ backupLoading' = FALSE
    BY <1>10 DEF Profile!LogIn
  <2>2. UNCHANGED <<password, backup, taken, prefs, profileRequests, profileSent, profileTimers>>
    BY <1>10 DEF Profile!LogIn, Profile!bank
  <2>3. CalmTypes'
    <3> DEFINE b == calm["preferences"] /\ Profile!UnderWay("preferences") = {}
    <3>1. calm' = [calm EXCEPT !["preferences"] = b]
      BY <1>10 DEF Profile!LogIn
    <3>2. b = TRUE \/ b = FALSE
      OBVIOUS
    <3>3. "preferences" \in Kinds
      BY DEF Kinds
    <3> HIDE DEF b
    <3>4. QED
      BY <1>t, <3>1, <3>2, <3>3, CalmChanged
  <2>4. PassUser'
    BY <1>t, <2>1, <2>2 DEF PassUser
  <2>5. PassSessions'
    BY <1>0, <1>t, <2>1 DEF PassSessions
  <2>6. PassForms' /\ PassWaits'
    BY <2>1 DEF PassForms, PassWaits
  <2>7. QED
    BY <1>s, <1>k, <2>2, <2>3, <2>4, <2>5, <2>6
(* There are no emails to send or to take, and no preferences are sent. *)
<1>11. CASE Profile!HandleBackupUpdate \/ Profile!OtherTakes
  BY <1>11 DEF Profile!HandleBackupUpdate, Profile!OtherTakes
<1>12. CASE Profile!UpdateSettings
  <2>1. profileSent["preferences"] < Bounds(MaxChanges, 0, 0)["preferences"]
    BY <1>12 DEF Profile!UpdateSettings, Profile!Send
  <2>2. QED
    BY <2>1 DEF Bounds, PassInv, PassRequests
<1>13. ASSUME NEW r \in requests, Profile!BackupUpdated(r) \/ Profile!PreferencesUpdated(r)
       PROVE  FALSE
  BY <1>r, <1>13 DEF Profile!BackupUpdated, Profile!PreferencesUpdated
<1>14. QED
  BY <1>1, <1>2, <1>3, <1>5, <1>6, <1>7, <1>8, <1>9, <1>10, <1>11, <1>12, <1>13
     DEF Profile!Next

(* With what is known of the requests they are the type invariant of       *)
(* ProfilePage for this visit.                                             *)
LEMMA PassTypesFacts == ASSUME PassInv, PassTypes PROVE Profile!TypeOK
<1>0. MaxChanges \in Nat /\ "password" \in Kinds
  BY ProfileConstants DEF ProfileConstants, Kinds
<1>1. /\ SentTypes("password", MaxChanges) /\ CalmTypes
      /\ PassUser /\ PassSessions /\ PassForms /\ PassWaits
  BY DEF PassTypes
<1>2. /\ profileSent["password"] \in 0..MaxChanges /\ profileTimers \in 0..MaxChanges
      /\ \A k \in Kinds \ {"password"} : profileSent[k] = 0
      /\ Cardinality(profileRequests) <= profileSent["password"]
  BY <1>0, <1>1, SentBounds
<1>r. \A r \in profileRequests : RequestOf(r) /\ r.kind = "password"
  BY DEF PassInv, PassRequests
<1>3. ASSUME NEW k \in Profile!Kind
      PROVE  /\ profileSent[k] \in 0..Bounds(MaxChanges, 0, 0)[k]
             /\ Profile!Cardinality(Profile!UnderWay(k)) <= profileSent[k]
  <2>1. \A S : Profile!Cardinality(S) = Cardinality(S)
    BY DEF Profile!Cardinality, Cardinality
  <2>2. CASE k = "password"
    <3>1. Profile!UnderWay(k) = profileRequests
      BY <1>r, <2>2 DEF Profile!UnderWay
    <3>2. profileSent[k] \in 0..Bounds(MaxChanges, 0, 0)[k]
      BY <1>2, <2>2 DEF Bounds
    <3>3. QED
      BY <1>2, <2>1, <2>2, <3>1, <3>2
  <2>3. CASE k # "password"
    <3>1. Profile!UnderWay(k) = {}
      BY <1>r, <2>3 DEF Profile!UnderWay
    <3>2. k \in Kinds \ {"password"} /\ Bounds(MaxChanges, 0, 0)[k] = 0
      BY <2>3 DEF Kinds, Profile!Kind, Bounds
    <3>3. profileSent[k] = 0 /\ Cardinality({}) = 0
      BY <1>2, <3>2, FS_EmptySet
    <3>4. QED
      BY <2>1, <3>1, <3>2, <3>3
  <2>4. QED
    BY <2>2, <2>3
<1>4. password \notin ShortPassword /\ backup \in {} \cup {Profile!None} /\ taken \subseteq {} \ {backup}
  BY <1>1 DEF PassUser, Profile!None
<1>5. prefs \in Profile!Settings /\ settings \in Profile!Settings
  <2>1. Profile!Unset \in Profile!Settings
    BY DEF Profile!Unset, Profile!Settings
  <2>2. QED
    BY <1>1, <2>1 DEF PassUser
<1>6. signedIn \in BOOLEAN
  BY <1>1 DEF PassSessions
<1>7. sessions \in 1..MaxSessions /\ profileTimers \in 0..Bounds(MaxChanges, 0, 0)["password"]
  BY <1>1, <1>2, ProfileConstants DEF PassSessions, Bounds, ProfileConstants
<1>8. fields \in Form \cup {Profile!Empty} /\ captured \in Form \cup {Profile!Empty}
  BY <1>1 DEF PassForms
<1>9. profileDialog \in {"closed", "open", "leaving"}
  BY DEF PassInv, PassRequests
<1>10. signedIn /\ passLoading => \E r \in profileRequests : r.kind = "password"
  BY <1>1, <1>r DEF PassWaits
<1>11. signedIn => (backupLoading <=>
                      \E r \in profileRequests : r.kind = "backup" /\ r.waiting = sessions)
  BY <1>1, <1>r DEF PassWaits
<1>12. calm \in [Profile!Kind -> BOOLEAN]
  <2>1. \A k \in Kinds : calm[k] \in BOOLEAN
    BY <1>1 DEF CalmTypes
  <2>2. Profile!Kind = Kinds
    BY DEF Profile!Kind, Kinds
  <2>3. calm = [k \in Kinds |-> calm[k]]
    BY <1>1 DEF CalmTypes
  <2> HIDE DEF Kinds
  <2>4. QED
    BY <2>1, <2>2, <2>3
<1>13. QED
  BY <1>3, <1>4, <1>5, <1>6, <1>7, <1>8, <1>9, <1>10, <1>11, <1>12 DEF Profile!TypeOK

(* The visits that leave the password alone: one session, an empty form    *)
(* and nothing captured from it.                                           *)
Blank == [current |-> "none", new |-> "none", confirm |-> "none"]
OneSession ==
    /\ signedIn = TRUE /\ profileTimers = 0 /\ ~passLoading
    /\ captured = Blank

(* The visit that changes the backup email: what is stored of the user and *)
(* of others, and the spinner, which turns exactly while the one request   *)
(* of this session is under way.                                           *)
MailUser ==
    /\ password \notin ShortPassword
    /\ backup \in Email \cup {"none"} /\ taken \subseteq Email \ {backup}
    /\ prefs = Backup!Unset /\ settings = Backup!Unset
    /\ \A r \in profileRequests : r.email \in Email
MailWaits ==
    /\ backupLoading <=> \E r \in profileRequests : r.waiting = 1
    /\ \A p, q \in profileRequests : p.waiting = 1 /\ q.waiting = 1 => p = q

MailTypes ==
    /\ SentTypes("backup", MaxBackups) /\ CalmTypes
    /\ MailUser /\ OneSession /\ MailWaits

(* The page opens without a backup email and nothing sent.                 *)
LEMMA MailTypesInit == Backup!Init => MailTypes
<1> SUFFICES ASSUME Backup!Init PROVE MailTypes
  OBVIOUS
<1>0. MaxBackups \in Nat
  BY ProfileConstants DEF ProfileConstants
<1>1. IsFiniteSet({}) /\ Cardinality({}) = 0
  BY FS_EmptySet
<1>2. /\ profileRequests = {} /\ profileSent = [k \in Kinds |-> 0] /\ profileTimers = 0
      /\ calm = [k \in Kinds |-> TRUE]
  BY DEF Backup!Init, Backup!Kind, Kinds
<1>3. SentTypes("backup", MaxBackups)
  BY <1>0, <1>1, <1>2 DEF SentTypes, Kinds
<1>4. CalmTypes
  BY <1>2 DEF CalmTypes
<1>5. MailUser
  BY <1>2, ProfileConstants DEF Backup!Init, Backup!None, MailUser, ProfileConstants
<1>6. OneSession
  <2>1. Backup!Empty = Blank
    BY DEF Backup!Empty, Backup!None, Blank
  <2>2. QED
    BY <1>2, <2>1 DEF Backup!Init, OneSession
<1>7. MailWaits
  BY <1>2 DEF Backup!Init, MailWaits
<1>8. QED
  BY <1>3, <1>4, <1>5, <1>6, <1>7 DEF MailTypes

(* Every step of the form, of its requests and answers, and of another     *)
(* user who takes an email keeps the types.                                *)
LEMMA MailTypesStep ==
    MailInv /\ MailTypes /\ (Backup!Next \/ UNCHANGED profileVars) => MailTypes'
<1> SUFFICES ASSUME MailInv, MailTypes, Backup!Next \/ UNCHANGED profileVars PROVE MailTypes'
  OBVIOUS
<1> DEFINE requests == profileRequests
<1>0. MaxBackups \in Nat /\ "backup" \in Kinds
  BY ProfileConstants DEF ProfileConstants, Kinds
<1>r. \A r \in requests : RequestOf(r) /\ r.kind = "backup"
  BY DEF MailInv, MailRequests
<1>o. sessions = 1 /\ fields = Backup!Empty /\ profileDialog = "closed"
  BY DEF MailInv, MailRequests
<1>t. /\ SentTypes("backup", MaxBackups) /\ CalmTypes
      /\ MailUser /\ OneSession /\ MailWaits
  BY DEF MailTypes
<1>s. /\ UNCHANGED <<profileRequests, profileSent, profileTimers>> => SentTypes("backup", MaxBackups)'
      /\ UNCHANGED calm => CalmTypes'
      /\ UNCHANGED <<password, backup, taken, prefs, settings, profileRequests>> => MailUser'
      /\ UNCHANGED <<signedIn, profileTimers, captured, passLoading>> => OneSession'
      /\ UNCHANGED <<profileRequests, backupLoading>> => MailWaits'
  <2>1. UNCHANGED <<profileRequests, profileSent, profileTimers>> => SentTypes("backup", MaxBackups)'
    BY <1>t, SentSame
  <2>2. UNCHANGED calm => CalmTypes'
    BY <1>t DEF CalmTypes
  <2>3. UNCHANGED <<password, backup, taken, prefs, settings, profileRequests>> => MailUser'
    BY <1>t DEF MailUser
  <2>4. UNCHANGED <<signedIn, profileTimers, captured, passLoading>> => OneSession'
    BY <1>t DEF OneSession
  <2>5. UNCHANGED <<profileRequests, backupLoading>> => MailWaits'
    BY <1>t DEF MailWaits
  <2>6. QED
    BY <2>1, <2>2, <2>3, <2>4, <2>5
<1>k. ASSUME SentTypes("backup", MaxBackups)', CalmTypes', MailUser', OneSession', MailWaits'
      PROVE  MailTypes'
  BY <1>k DEF MailTypes
<1>1. CASE UNCHANGED profileVars
  BY <1>1, <1>s, <1>k DEF profileVars
<1>2. CASE Backup!HandleBackupUpdate
  <2>1. PICK e, r :
             /\ e \in Email
             /\ r = [n |-> profileSent'["backup"], kind |-> "backup", form |-> Backup!Empty,
                     email |-> e, prefs |-> settings', at |-> "sent", seen |-> Backup!Row,
                     waiting |-> sessions]
             /\ Backup!Send("backup", Backup!Empty, e)
    BY <1>2 DEF Backup!HandleBackupUpdate
  <2>2. /\ requests' = requests \cup {r} /\ Counted("backup")
        /\ profileSent["backup"] < Bounds(0, MaxBackups, 0)["backup"]
    BY <2>1 DEF Backup!Send, Counted
  <2>3. /\ ~backupLoading /\ backupLoading' = TRUE
        /\ UNCHANGED <<password, backup, taken, prefs, settings, signedIn, sessions, profileTimers,
                       captured, passLoading>>
    BY <1>2 DEF Backup!HandleBackupUpdate, Backup!CanSubmitBackup, Backup!bank, Backup!browser,
       Backup!passForm
  <2>4. SentTypes("backup", MaxBackups)'
    <3>1. profileSent["backup"] < MaxBackups
      BY <2>2 DEF Bounds
    <3>2. QED
      BY <1>0, <1>t, <2>2, <2>3, <3>1, SentMore
  <2>5. CalmTypes'
    <3> DEFINE b == Backup!UnderWay("backup") = {}
                      /\ (calm["backup"] \/ ~Backup!Announced("backup"))
    <3>1. calm' = [calm EXCEPT !["backup"] = b]
      BY <2>1 DEF Backup!Send
    <3>2. b = TRUE \/ b = FALSE
      OBVIOUS
    <3> HIDE DEF b
    <3>3. QED
      BY <1>0, <1>t, <3>1, <3>2, CalmChanged
  <2>6. r.waiting = 1 /\ r.email \in Email
    BY <1>o, <2>1
  <2>7. MailUser'
    BY <1>t, <2>2, <2>3, <2>6 DEF MailUser
  <2>8. MailWaits'
    BY <1>t, <2>2, <2>3, <2>6 DEF MailWaits
  <2>9. QED
    BY <1>s, <1>k, <2>3, <2>4, <2>5, <2>7, <2>8
(* What goes on is of the same email, and is waited for as before or not   *)
(* any more. *)
<1>3. ASSUME NEW r \in requests, NEW d, NEW s \in {{}, {d}},
             requests' = (requests \ {r}) \cup s, d.email = r.email,
             UNCHANGED <<password, prefs, settings>>,
             backup' \in {backup, r.email},
             taken' = taken, backup' \notin taken
      PROVE  MailUser'
  <2>1. \A q \in requests' : q.email \in Email
    BY <1>3, <1>t DEF MailUser
  <2>2. r.email \in Email
    BY <1>t DEF MailUser
  <2>3. QED
    BY <1>3, <1>t, <2>1, <2>2 DEF MailUser
<1>4. ASSUME NEW r \in requests, NEW d, NEW s \in {{}, {d}},
             requests' = (requests \ {r}) \cup s,
             \/ s # {} /\ d.waiting = r.waiting /\ backupLoading' = backupLoading
             \/ /\ s # {} => d.waiting # 1
                /\ backupLoading' <=> (backupLoading /\ r.waiting # 1)
      PROVE  MailWaits'
  <2>1. \A p, q \in requests : p.waiting = 1 /\ q.waiting = 1 => p = q
    BY <1>t DEF MailWaits
  <2>2. backupLoading <=> \E q \in requests : q.waiting = 1
    BY <1>t DEF MailWaits
  <2>3. CASE s # {} /\ d.waiting = r.waiting /\ backupLoading' = backupLoading
    <3>1. s = {d} /\ requests' = (requests \ {r}) \cup {d}
      BY <1>4, <2>3
    <3>2. (\E q \in requests' : q.waiting = 1) <=> (\E q \in requests : q.waiting = 1)
      BY <2>3, <3>1
    <3>3. \A p, q \in requests' : p.waiting = 1 /\ q.waiting = 1 => p = q
      BY <2>1, <2>3, <3>1
    <3>4. QED
      BY <2>2, <2>3, <3>2, <3>3 DEF MailWaits
  <2>4. CASE (s # {} => d.waiting # 1) /\ (backupLoading' <=> (backupLoading /\ r.waiting # 1))
    <3>1. \A q \in requests' : q.waiting = 1 => q \in requests /\ q # r
      BY <1>4, <2>4
    <3>2. \A q \in requests : q.waiting = 1 /\ q # r => q \in requests'
      BY <1>4
    <3>3. \A p, q \in requests' : p.waiting = 1 /\ q.waiting = 1 => p = q
      BY <2>1, <3>1
    <3>4. backupLoading' => \E q \in requests' : q.waiting = 1
      BY <2>2, <2>4, <3>2
    <3>5. (\E q \in requests' : q.waiting = 1) => backupLoading'
      BY <2>1, <2>2, <2>4, <3>1
    <3>6. QED
      BY <3>3, <3>4, <3>5 DEF MailWaits
  <2>5. QED
    BY <1>4, <2>3, <2>4
<1>e. backup \notin taken
  BY <1>t DEF MailUser
<1>5. ASSUME NEW r \in requests, Backup!Reads(r) PROVE MailTypes'
  <2>1. PICK c, d : /\ c = [r EXCEPT !.at = "read"] /\ d = [c EXCEPT !.seen = Backup!Row]
    OBVIOUS
  <2>2. Becomes(r, d) /\ d.waiting = r.waiting
    <3>1. Becomes(r, c) /\ c.waiting = r.waiting
      BY <1>r, <2>1, RequestGoesOn
    <3>2. RequestOf(c) /\ d = [c EXCEPT !.seen = Backup!Row]
      BY <2>1, <3>1 DEF Becomes
    <3>3. Becomes(c, d) /\ d.waiting = c.waiting
      BY <3>2, RequestReads
    <3>4. QED
      BY <3>1, <3>3 DEF Becomes
  <2>3. d = [r EXCEPT !.at = "read", !.seen = Backup!Row]
    BY <2>1
  <2>4. requests' = (requests \ {r}) \cup {d}
    BY <1>5, <2>3 DEF Backup!Reads, Backup!Instead
  <2>5. UNCHANGED <<password, backup, taken, prefs, settings, signedIn, sessions, profileTimers,
                    profileSent, fields, captured, passLoading, backupLoading, calm>>
    BY <1>5 DEF Backup!Reads, Backup!bank, Backup!browser, Backup!passForm,
       Backup!backupForm, Backup!history
  <2>6. SentTypes("backup", MaxBackups)'
    BY <1>0, <1>t, <2>4, <2>5, SentLess
  <2>7. MailUser'
    BY <1>3, <1>e, <2>2, <2>4, <2>5 DEF Becomes
  <2>8. MailWaits'
    BY <1>4, <2>2, <2>4, <2>5
  <2>9. QED
    BY <1>s, <1>k, <2>5, <2>6, <2>7, <2>8
<1>6. ASSUME NEW r \in requests, Backup!Commits(r) PROVE MailTypes'
  <2>0. Backup!UpdateBackupEmail(r)
    BY <1>r, <1>6 DEF Backup!Commits, Backup!UpdatePassword, Backup!UpdatePreferences
  <2>1. PICK a \in {"ok", "refused"} :
          requests' = (requests \ {r}) \cup
             (IF r.waiting = 0 THEN {} ELSE {[r EXCEPT !.at = a]})
    BY <2>0 DEF Backup!UpdateBackupEmail, Backup!Decided, Backup!Instead
  <2>2. PICK d : d = [r EXCEPT !.at = a]
    OBVIOUS
  <2>3. d.waiting = r.waiting /\ d.email = r.email
    BY <1>r, <2>2, RequestGoesOn DEF Becomes
  <2>4. PICK s \in {{}, {d}} : /\ s = IF r.waiting = 0 THEN {} ELSE {d}
                               /\ requests' = (requests \ {r}) \cup s
    BY <2>1, <2>2
  <2>5. /\ backup' = backup \/ (backup' = r.email /\ r.email \notin taken)
        /\ UNCHANGED <<password, taken, prefs>>
    BY <2>0 DEF Backup!UpdateBackupEmail
  <2>6. UNCHANGED <<settings, signedIn, sessions, profileTimers,
                    profileSent, captured, passLoading, backupLoading, calm>>
    BY <1>6 DEF Backup!Commits, Backup!browser, Backup!passForm,
       Backup!backupForm, Backup!history
  <2>7. SentTypes("backup", MaxBackups)'
    BY <1>0, <1>t, <2>4, <2>6, SentLess
  <2>8. MailUser'
    BY <1>3, <1>e, <2>3, <2>4, <2>5, <2>6
  <2>9. MailWaits'
    <3>1. CASE r.waiting = 0
      <4>1. s = {}
        BY <2>4, <3>1
      <4>2. r.waiting # 1
        BY <3>1
      <4>3. QED
        BY <1>4, <2>4, <2>6, <4>1, <4>2
    <3>2. CASE r.waiting # 0
      <4>1. s # {}
        BY <2>4, <3>2
      <4>2. QED
        BY <1>4, <2>3, <2>4, <2>6, <4>1
    <3>3. QED
      BY <3>1, <3>2
  <2>10. QED
    BY <1>s, <1>k, <2>6, <2>7, <2>8, <2>9
<1>7. ASSUME NEW r \in requests, Backup!Refused(r) \/ Backup!Fails(r) PROVE MailTypes'
  <2>1. PICK d : d = [r EXCEPT !.waiting = 0]
    OBVIOUS
  <2>a. d.waiting = 0 /\ d.email = r.email
    BY <1>r, <2>1, RequestLeft DEF Becomes
  <2>2. PICK s \in {{}, {d}} : requests' = (requests \ {r}) \cup s
    BY <1>7, <2>1 DEF Backup!Refused, Backup!Fails, Backup!Instead
  <2>3. /\ passLoading' = (passLoading /\ ~(r.waiting = sessions /\ signedIn /\ r.kind = "password"))
        /\ backupLoading' = (backupLoading /\ ~(r.waiting = sessions /\ signedIn /\ r.kind = "backup"))
        /\ UNCHANGED <<password, backup, taken, prefs, settings, signedIn, sessions, profileTimers,
                       profileSent, captured>>
    BY <1>7 DEF Backup!Refused, Backup!Fails, Backup!Reported, Backup!bank, Backup!browser
  <2>4. r.kind = "backup"
    BY <1>r
  <2>5. UNCHANGED calm \/ calm' = [calm EXCEPT !["backup"] = FALSE]
    BY <1>7, <2>4 DEF Backup!Refused, Backup!Fails
  <2>6. CalmTypes'
    BY <1>0, <1>s, <1>t, <2>5, CalmChanged
  <2>7. SentTypes("backup", MaxBackups)'
    BY <1>0, <1>t, <2>2, <2>3, SentLess
  <2>8. MailUser'
    BY <1>3, <1>e, <2>a, <2>2, <2>3
  <2>9. MailWaits'
    <3>1. signedIn
      BY <1>t DEF OneSession
    <3>2. backupLoading' <=> (backupLoading /\ r.waiting # 1)
      BY <1>o, <2>3, <2>4, <3>1
    <3>3. s # {} => d.waiting # 1
      BY <2>a
    <3>4. QED
      BY <1>4, <2>2, <3>2, <3>3
  <2>10. OneSession'
    BY <1>t, <2>3 DEF OneSession
  <2>11. QED
    BY <1>k, <2>6, <2>7, <2>8, <2>9, <2>10
<1>8. ASSUME NEW r \in requests, Backup!BackupUpdated(r) PROVE MailTypes'
  <2>1. /\ requests' = (requests \ {r}) \cup {}
        /\ UNCHANGED <<password, backup, taken, prefs, settings, signedIn, sessions, profileTimers,
                       profileSent, captured, passLoading, calm>>
    BY <1>8 DEF Backup!BackupUpdated, Backup!Instead, Backup!bank, Backup!browser, Backup!passForm
  <2>2. signedIn
    BY <1>t DEF OneSession
  <2>3. IF r.waiting = 1 THEN backupLoading' = FALSE ELSE backupLoading' = backupLoading
    BY <1>8, <1>o, <2>2 DEF Backup!BackupUpdated
  <2>4. SentTypes("backup", MaxBackups)'
    BY <1>0, <1>t, <2>1, SentLess
  <2>5. MailUser'
    BY <1>3, <1>e, <2>1
  <2>6. MailWaits'
    <3>1. backupLoading' <=> (backupLoading /\ r.waiting # 1)
      BY <2>3
    <3>2. QED
      BY <1>4, <2>1, <3>1
  <2>7. QED
    BY <1>s, <1>k, <2>1, <2>4, <2>5, <2>6
<1>9. CASE Backup!OtherTakes
  <2>1. PICK e \in Email \ (taken \cup {backup}) : taken' = taken \cup {e}
    BY <1>9 DEF Backup!OtherTakes
  <2>2. UNCHANGED <<password, backup, prefs, settings, signedIn, profileTimers, profileRequests,
                    profileSent, captured, passLoading, backupLoading, calm>>
    BY <1>9 DEF Backup!OtherTakes, Backup!browser, Backup!passForm, Backup!backupForm,
       Backup!history
  <2>3. MailUser'
    BY <1>t, <2>1, <2>2 DEF MailUser
  <2>4. QED
    BY <1>s, <1>k, <2>2, <2>3
(* The other forms have nothing to send, and there is one session. *)
<1>10. CASE \/ Backup!TypePassword \/ Backup!HandlePasswordSubmit \/ Backup!CancelDialog
            \/ Backup!DialogGone \/ Backup!HandlePasswordUpdate \/ Backup!LogIn
            \/ Backup!LogoutTimer
  BY <1>10, <1>o, <1>t DEF Backup!TypePassword, Backup!HandlePasswordSubmit,
     Backup!CanSubmitPassword, Backup!CancelDialog, Backup!DialogGone,
     Backup!HandlePasswordUpdate, Backup!LogIn, Backup!LogoutTimer, OneSession
<1>11. CASE Backup!UpdateSettings
  <2>1. profileSent["preferences"] < Bounds(0, MaxBackups, 0)["preferences"]
    BY <1>11 DEF Backup!UpdateSettings, Backup!Send
  <2>2. QED
    BY <2>1 DEF Bounds, MailInv, MailRequests
<1>12. ASSUME NEW r \in requests, Backup!PasswordUpdated(r) \/ Backup!PreferencesUpdated(r)
       PROVE  FALSE
  BY <1>r, <1>12 DEF Backup!PasswordUpdated, Backup!PreferencesUpdated
<1>13. QED
  BY <1>1, <1>2, <1>5, <1>6, <1>7, <1>8, <1>9, <1>10, <1>11, <1>12 DEF Backup!Next

(* With what is known of the requests they are the type invariant of       *)
(* ProfilePage for this visit.                                             *)
LEMMA MailTypesFacts == ASSUME MailInv, MailTypes PROVE Backup!TypeOK
<1>0. MaxBackups \in Nat /\ "backup" \in Kinds
  BY ProfileConstants DEF ProfileConstants, Kinds
<1>1. /\ SentTypes("backup", MaxBackups) /\ CalmTypes
      /\ MailUser /\ OneSession /\ MailWaits
  BY DEF MailTypes
<1>2. /\ profileSent["backup"] \in 0..MaxBackups
      /\ \A k \in Kinds \ {"backup"} : profileSent[k] = 0
      /\ Cardinality(profileRequests) <= profileSent["backup"]
  BY <1>0, <1>1, SentBounds
<1>r. \A r \in profileRequests : RequestOf(r) /\ r.kind = "backup"
  BY DEF MailInv, MailRequests
<1>o. sessions = 1 /\ fields = Backup!Empty /\ profileDialog = "closed"
  BY DEF MailInv, MailRequests
<1>3. ASSUME NEW k \in Backup!Kind
      PROVE  /\ profileSent[k] \in 0..Bounds(0, MaxBackups, 0)[k]
             /\ Backup!Cardinality(Backup!UnderWay(k)) <= profileSent[k]
  <2>1. \A S : Backup!Cardinality(S) = Cardinality(S)
    BY DEF Backup!Cardinality, Cardinality
  <2>2. CASE k = "backup"
    <3>1. Backup!UnderWay(k) = profileRequests
      BY <1>r, <2>2 DEF Backup!UnderWay
    <3>2. profileSent[k] \in 0..Bounds(0, MaxBackups, 0)[k]
      BY <1>2, <2>2 DEF Bounds
    <3>3. QED
      BY <1>2, <2>1, <2>2, <3>1, <3>2
  <2>3. CASE k # "backup"
    <3>1. Backup!UnderWay(k) = {}
      BY <1>r, <2>3 DEF Backup!UnderWay
    <3>2. k \in Kinds \ {"backup"} /\ Bounds(0, MaxBackups, 0)[k] = 0
      BY <2>3 DEF Kinds, Backup!Kind, Bounds
    <3>3. profileSent[k] = 0 /\ Cardinality({}) = 0
      BY <1>2, <3>2, FS_EmptySet
    <3>4. QED
      BY <2>1, <3>1, <3>2, <3>3
  <2>4. QED
    BY <2>2, <2>3
<1>4. password \notin ShortPassword
  BY <1>1 DEF MailUser
<1>5. backup \in Email \cup {Backup!None} /\ taken \subseteq Email \ {backup}
  BY <1>1 DEF MailUser, Backup!None
<1>b. prefs \in Backup!Settings /\ settings \in Backup!Settings
  <2>1. Backup!Unset \in Backup!Settings
    BY DEF Backup!Unset, Backup!Settings
  <2>2. QED
    BY <1>1, <2>1 DEF MailUser
<1>6. signedIn \in BOOLEAN /\ sessions \in 1..1 /\ profileTimers \in 0..Bounds(0, MaxBackups, 0)["password"]
  BY <1>1, <1>o DEF OneSession, Bounds
<1>7. fields \in {} \cup {Backup!Empty} /\ captured \in {} \cup {Backup!Empty}
  <2>1. Backup!Empty = Blank
    BY DEF Backup!Empty, Backup!None, Blank
  <2>2. QED
    BY <1>1, <1>o, <2>1 DEF OneSession
<1>8. profileDialog \in {"closed", "open", "leaving"}
  BY <1>o
<1>9. signedIn /\ passLoading => \E r \in profileRequests : r.kind = "password"
  BY <1>1 DEF OneSession
<1>10. signedIn => (backupLoading <=>
                      \E r \in profileRequests : r.kind = "backup" /\ r.waiting = sessions)
  BY <1>1, <1>r, <1>o DEF MailWaits
<1>11. calm \in [Backup!Kind -> BOOLEAN]
  <2>1. \A k \in Kinds : calm[k] \in BOOLEAN
    BY <1>1 DEF CalmTypes
  <2>2. Backup!Kind = Kinds
    BY DEF Backup!Kind, Kinds
  <2>3. calm = [k \in Kinds |-> calm[k]]
    BY <1>1 DEF CalmTypes
  <2> HIDE DEF Kinds
  <2>4. QED
    BY <2>1, <2>2, <2>3
<1>12. QED
  BY <1>3, <1>4, <1>5, <1>b, <1>6, <1>7, <1>8, <1>9, <1>10, <1>11 DEF Backup!TypeOK

(* The visit that changes preferences: a choice is on or off for each of   *)
(* them, in the database, on the page and in every request.                *)
ChoiceOf(p) ==
    /\ p = [c \in Choices |-> p[c]]
    /\ \A c \in Choices : p[c] = TRUE \/ p[c] = FALSE
SaveUser ==
    /\ password \notin ShortPassword
    /\ backup = "none" /\ taken = {}
    /\ ChoiceOf(prefs) /\ ChoiceOf(settings)
    /\ \A r \in profileRequests : ChoiceOf(r.prefs)
SaveWaits == ~backupLoading

SaveTypes ==
    /\ SentTypes("preferences", MaxSaves) /\ CalmTypes
    /\ SaveUser /\ OneSession /\ SaveWaits

(* The page opens with the preferences by default and nothing sent.        *)
LEMMA SaveTypesInit == Preferences!Init => SaveTypes
<1> SUFFICES ASSUME Preferences!Init PROVE SaveTypes
  OBVIOUS
<1>0. MaxSaves \in Nat
  BY ProfileConstants DEF ProfileConstants
<1>1. IsFiniteSet({}) /\ Cardinality({}) = 0
  BY FS_EmptySet
<1>2. /\ profileRequests = {} /\ profileSent = [k \in Kinds |-> 0] /\ profileTimers = 0
      /\ calm = [k \in Kinds |-> TRUE]
  BY DEF Preferences!Init, Preferences!Kind, Kinds
<1>3. SentTypes("preferences", MaxSaves)
  BY <1>0, <1>1, <1>2 DEF SentTypes, Kinds
<1>4. CalmTypes
  BY <1>2 DEF CalmTypes
<1>5. SaveUser
  BY <1>2, ProfileConstants DEF Preferences!Init, Preferences!None, SaveUser, Preferences!Unset, Choices, ChoiceOf, ProfileConstants
<1>6. OneSession
  <2>1. Preferences!Empty = Blank
    BY DEF Preferences!Empty, Preferences!None, Blank
  <2>2. QED
    BY <1>2, <2>1 DEF Preferences!Init, OneSession
<1>7. SaveWaits
  BY <1>2 DEF Preferences!Init, SaveWaits
<1>8. QED
  BY <1>3, <1>4, <1>5, <1>6, <1>7 DEF SaveTypes

(* Every step of the switches, of the requests they send and of the        *)
(* answers keeps the types.                                                *)
LEMMA SaveTypesStep ==
    PrefsInv /\ SaveTypes /\ (Preferences!Next \/ UNCHANGED profileVars) => SaveTypes'
<1> SUFFICES ASSUME PrefsInv, SaveTypes, Preferences!Next \/ UNCHANGED profileVars PROVE SaveTypes'
  OBVIOUS
<1> DEFINE requests == profileRequests
<1>0. MaxSaves \in Nat /\ "preferences" \in Kinds
  BY ProfileConstants DEF ProfileConstants, Kinds
<1>r. \A r \in requests : RequestOf(r) /\ r.kind = "preferences"
  BY DEF PrefsInv, SaveRequests
<1>o. sessions = 1 /\ fields = Preferences!Empty /\ profileDialog = "closed"
  BY DEF PrefsInv, SaveRequests
<1>t. /\ SentTypes("preferences", MaxSaves) /\ CalmTypes
      /\ SaveUser /\ OneSession /\ SaveWaits
  BY DEF SaveTypes
<1>s. /\ UNCHANGED <<profileRequests, profileSent, profileTimers>> => SentTypes("preferences", MaxSaves)'
      /\ UNCHANGED calm => CalmTypes'
      /\ UNCHANGED <<password, backup, taken, prefs, settings, profileRequests>> => SaveUser'
      /\ UNCHANGED <<signedIn, profileTimers, captured, passLoading>> => OneSession'
      /\ UNCHANGED <<profileRequests, backupLoading>> => SaveWaits'
  <2>1. UNCHANGED <<profileRequests, profileSent, profileTimers>> => SentTypes("preferences", MaxSaves)'
    BY <1>t, SentSame
  <2>2. UNCHANGED calm => CalmTypes'
    BY <1>t DEF CalmTypes
  <2>3. UNCHANGED <<password, backup, taken, prefs, settings, profileRequests>> => SaveUser'
    BY <1>t DEF SaveUser
  <2>4. UNCHANGED <<signedIn, profileTimers, captured, passLoading>> => OneSession'
    BY <1>t DEF OneSession
  <2>5. UNCHANGED <<profileRequests, backupLoading>> => SaveWaits'
    BY <1>t DEF SaveWaits
  <2>6. QED
    BY <2>1, <2>2, <2>3, <2>4, <2>5
<1>k. ASSUME SentTypes("preferences", MaxSaves)', CalmTypes', SaveUser', OneSession', SaveWaits'
      PROVE  SaveTypes'
  BY <1>k DEF SaveTypes
<1>1. CASE UNCHANGED profileVars
  BY <1>1, <1>s, <1>k DEF profileVars
<1>2. CASE Preferences!UpdateSettings
  <2>1. /\ Preferences!Toggle /\ Preferences!Send("preferences", Preferences!Empty, Preferences!None)
        /\ UNCHANGED <<password, backup, taken, prefs, signedIn, sessions, profileTimers, captured,
                       passLoading, backupLoading>>
    BY <1>2 DEF Preferences!UpdateSettings, Preferences!bank, Preferences!passForm,
       Preferences!backupForm
  <2>2. PICK r : /\ r = [n |-> profileSent'["preferences"], kind |-> "preferences",
                         form |-> Preferences!Empty, email |-> Preferences!None,
                         prefs |-> settings', at |-> "sent", seen |-> Preferences!Row,
                         waiting |-> sessions]
    OBVIOUS
  <2>3. /\ requests' = requests \cup {r} /\ Counted("preferences")
        /\ profileSent["preferences"] < Bounds(0, 0, MaxSaves)["preferences"]
    BY <2>1, <2>2 DEF Preferences!Send, Counted
  <2>4. SentTypes("preferences", MaxSaves)'
    <3>1. profileSent["preferences"] < MaxSaves
      BY <2>3 DEF Bounds
    <3>2. QED
      BY <1>0, <1>t, <2>1, <2>3, <3>1, SentMore
  <2>5. CalmTypes'
    <3> DEFINE b == Preferences!UnderWay("preferences") = {}
                      /\ (calm["preferences"] \/ ~Preferences!Announced("preferences"))
    <3>1. calm' = [calm EXCEPT !["preferences"] = b]
      BY <2>1 DEF Preferences!Send
    <3>2. b = TRUE \/ b = FALSE
      OBVIOUS
    <3> HIDE DEF b
    <3>3. QED
      BY <1>0, <1>t, <3>1, <3>2, CalmChanged
  <2>6. ChoiceOf(settings')
    <3>1. ChoiceOf(settings) /\ DOMAIN settings = Choices
      BY <1>t DEF SaveUser, ChoiceOf
    <3>2. PICK c \in Choices : settings' = [settings EXCEPT ![c] = ~@]
      BY <2>1, <3>1 DEF Preferences!Toggle
    <3>3. QED
      BY <3>1, <3>2 DEF ChoiceOf
  <2>7. SaveUser'
    <3>1. r.prefs = settings'
      BY <2>2
    <3>2. QED
      BY <1>t, <2>1, <2>3, <2>6, <3>1 DEF SaveUser
  <2>8. QED
    BY <1>s, <1>k, <2>1, <2>4, <2>5, <2>7, <1>t DEF SaveWaits
(* What goes on is of the same choice. *)
<1>3. ASSUME NEW r \in requests, NEW d, NEW s \in {{}, {d}},
             requests' = (requests \ {r}) \cup s, d.prefs = r.prefs,
             UNCHANGED <<password, backup, taken, settings>>, ChoiceOf(prefs')
      PROVE  SaveUser'
  <2>1. \A q \in requests' : ChoiceOf(q.prefs)
    BY <1>3, <1>t DEF SaveUser
  <2>2. QED
    BY <1>3, <1>t, <2>1 DEF SaveUser
<1>4. ChoiceOf(prefs)
  BY <1>t DEF SaveUser
<1>w. ~backupLoading' => SaveWaits'
  BY DEF SaveWaits
<1>v. ~backupLoading
  BY <1>t DEF SaveWaits
<1>5. ASSUME NEW r \in requests, Preferences!Reads(r) PROVE SaveTypes'
  <2>1. PICK c, d : /\ c = [r EXCEPT !.at = "read"] /\ d = [c EXCEPT !.seen = Preferences!Row]
    OBVIOUS
  <2>2. Becomes(r, d) /\ d.waiting = r.waiting
    <3>1. Becomes(r, c) /\ c.waiting = r.waiting
      BY <1>r, <2>1, RequestGoesOn
    <3>2. RequestOf(c) /\ d = [c EXCEPT !.seen = Preferences!Row]
      BY <2>1, <3>1 DEF Becomes
    <3>3. Becomes(c, d) /\ d.waiting = c.waiting
      BY <3>2, RequestReads
    <3>4. QED
      BY <3>1, <3>3 DEF Becomes
  <2>3. d = [r EXCEPT !.at = "read", !.seen = Preferences!Row]
    BY <2>1
  <2>4. requests' = (requests \ {r}) \cup {d}
    BY <1>5, <2>3 DEF Preferences!Reads, Preferences!Instead
  <2>5. UNCHANGED <<password, backup, taken, prefs, settings, signedIn, sessions, profileTimers,
                    profileSent, fields, captured, passLoading, backupLoading, calm>>
    BY <1>5 DEF Preferences!Reads, Preferences!bank, Preferences!browser, Preferences!passForm,
       Preferences!backupForm, Preferences!history
  <2>6. SentTypes("preferences", MaxSaves)'
    BY <1>0, <1>t, <2>4, <2>5, SentLess
  <2>7. SaveUser'
    BY <1>3, <1>4, <2>2, <2>4, <2>5 DEF Becomes
  <2>8. QED
    BY <1>s, <1>k, <1>v, <1>w, <2>5, <2>6, <2>7
<1>6. ASSUME NEW r \in requests, Preferences!Commits(r) PROVE SaveTypes'
  <2>0. Preferences!UpdatePreferences(r)
    BY <1>r, <1>6 DEF Preferences!Commits, Preferences!UpdatePassword, Preferences!UpdateBackupEmail
  <2>1. requests' = (requests \ {r}) \cup
             (IF r.waiting = 0 THEN {} ELSE {[r EXCEPT !.at = "ok"]})
    BY <2>0 DEF Preferences!UpdatePreferences, Preferences!Decided, Preferences!Instead
  <2>2. PICK d : d = [r EXCEPT !.at = "ok"]
    OBVIOUS
  <2>3. d.prefs = r.prefs
    BY <1>r, <2>2, RequestGoesOn DEF Becomes
  <2>4. PICK s \in {{}, {d}} : requests' = (requests \ {r}) \cup s
    BY <2>1, <2>2
  <2>5. /\ prefs' = [c \in DOMAIN prefs |->
                       IF r.prefs[c] # r.seen.prefs[c] THEN r.prefs[c] ELSE prefs[c]]
        /\ UNCHANGED <<password, backup, taken>>
    BY <2>0 DEF Preferences!UpdatePreferences
  <2>6. UNCHANGED <<settings, signedIn, sessions, profileTimers,
                    profileSent, captured, passLoading, backupLoading, calm>>
    BY <1>6 DEF Preferences!Commits, Preferences!browser, Preferences!passForm,
       Preferences!backupForm, Preferences!history
  <2>7. SentTypes("preferences", MaxSaves)'
    BY <1>0, <1>t, <2>4, <2>6, SentLess
  <2>8. ChoiceOf(prefs')
    <3>1. ChoiceOf(r.prefs) /\ DOMAIN prefs = Choices
      BY <1>t DEF SaveUser, ChoiceOf
    <3>2. QED
      BY <1>4, <2>5, <3>1 DEF ChoiceOf
  <2>9. SaveUser'
    BY <1>3, <2>3, <2>4, <2>5, <2>6, <2>8
  <2>10. QED
    BY <1>s, <1>k, <1>v, <1>w, <2>6, <2>7, <2>9
<1>7. ASSUME NEW r \in requests, Preferences!Refused(r) \/ Preferences!Fails(r) PROVE SaveTypes'
  <2>1. PICK d : d = [r EXCEPT !.waiting = 0]
    OBVIOUS
  <2>a. d.prefs = r.prefs
    BY <1>r, <2>1, RequestLeft DEF Becomes
  <2>2. PICK s \in {{}, {d}} : requests' = (requests \ {r}) \cup s
    BY <1>7, <2>1 DEF Preferences!Refused, Preferences!Fails, Preferences!Instead
  <2>3. /\ passLoading' => passLoading
        /\ backupLoading' => backupLoading
        /\ UNCHANGED <<password, backup, taken, prefs, settings, signedIn, sessions, profileTimers,
                       profileSent, captured>>
    BY <1>7 DEF Preferences!Refused, Preferences!Fails, Preferences!Reported, Preferences!bank,
       Preferences!browser
  <2>4. r.kind = "preferences"
    BY <1>r
  <2>5. UNCHANGED calm \/ calm' = [calm EXCEPT !["preferences"] = FALSE]
    BY <1>7, <2>4 DEF Preferences!Refused, Preferences!Fails
  <2>6. CalmTypes'
    BY <1>0, <1>s, <1>t, <2>5, CalmChanged
  <2>7. SentTypes("preferences", MaxSaves)'
    BY <1>0, <1>t, <2>2, <2>3, SentLess
  <2>8. SaveUser'
    BY <1>3, <1>4, <2>a, <2>2, <2>3
  <2>9. OneSession'
    BY <1>t, <2>3 DEF OneSession
  <2>10. QED
    BY <1>k, <1>v, <1>w, <2>3, <2>6, <2>7, <2>8, <2>9
<1>8. ASSUME NEW r \in requests, Preferences!PreferencesUpdated(r) PROVE SaveTypes'
  <2>1. /\ requests' = (requests \ {r}) \cup {}
        /\ UNCHANGED <<password, backup, taken, prefs, settings, signedIn, sessions, profileTimers,
                       profileSent, captured, passLoading, backupLoading, calm>>
    BY <1>8 DEF Preferences!PreferencesUpdated, Preferences!Instead, Preferences!bank,
       Preferences!browser, Preferences!passForm, Preferences!backupForm, Preferences!history
  <2>2. SentTypes("preferences", MaxSaves)'
    BY <1>0, <1>t, <2>1, SentLess
  <2>3. SaveUser'
    BY <1>3, <1>4, <2>1
  <2>4. QED
    BY <1>s, <1>k, <1>v, <1>w, <2>1, <2>2, <2>3
(* The other forms have nothing to send, and there is one session. *)
<1>10. CASE \/ Preferences!TypePassword \/ Preferences!HandlePasswordSubmit
            \/ Preferences!CancelDialog \/ Preferences!DialogGone
            \/ Preferences!HandlePasswordUpdate \/ Preferences!LogIn
            \/ Preferences!LogoutTimer \/ Preferences!HandleBackupUpdate
            \/ Preferences!OtherTakes
  BY <1>10, <1>o, <1>t DEF Preferences!TypePassword, Preferences!HandlePasswordSubmit,
     Preferences!CanSubmitPassword, Preferences!CancelDialog, Preferences!DialogGone,
     Preferences!HandlePasswordUpdate, Preferences!LogIn, Preferences!LogoutTimer,
     Preferences!HandleBackupUpdate, Preferences!OtherTakes, OneSession
<1>12. ASSUME NEW r \in requests, Preferences!PasswordUpdated(r) \/ Preferences!BackupUpdated(r)
       PROVE  FALSE
  BY <1>r, <1>12 DEF Preferences!PasswordUpdated, Preferences!BackupUpdated
<1>13. QED
  BY <1>1, <1>2, <1>5, <1>6, <1>7, <1>8, <1>10, <1>12 DEF Preferences!Next

(* With what is known of the requests they are the type invariant of       *)
(* ProfilePage for this visit.                                             *)
LEMMA SaveTypesFacts == ASSUME PrefsInv, SaveTypes PROVE Preferences!TypeOK
<1>0. MaxSaves \in Nat /\ "preferences" \in Kinds
  BY ProfileConstants DEF ProfileConstants, Kinds
<1>1. /\ SentTypes("preferences", MaxSaves) /\ CalmTypes
      /\ SaveUser /\ OneSession /\ SaveWaits
  BY DEF SaveTypes
<1>2. /\ profileSent["preferences"] \in 0..MaxSaves
      /\ \A k \in Kinds \ {"preferences"} : profileSent[k] = 0
      /\ Cardinality(profileRequests) <= profileSent["preferences"]
  BY <1>0, <1>1, SentBounds
<1>r. \A r \in profileRequests : RequestOf(r) /\ r.kind = "preferences"
  BY DEF PrefsInv, SaveRequests
<1>o. sessions = 1 /\ fields = Preferences!Empty /\ profileDialog = "closed"
  BY DEF PrefsInv, SaveRequests
<1>3. ASSUME NEW k \in Preferences!Kind
      PROVE  /\ profileSent[k] \in 0..Bounds(0, 0, MaxSaves)[k]
             /\ Preferences!Cardinality(Preferences!UnderWay(k)) <= profileSent[k]
  <2>1. \A S : Preferences!Cardinality(S) = Cardinality(S)
    BY DEF Preferences!Cardinality, Cardinality
  <2>2. CASE k = "preferences"
    <3>1. Preferences!UnderWay(k) = profileRequests
      BY <1>r, <2>2 DEF Preferences!UnderWay
    <3>2. profileSent[k] \in 0..Bounds(0, 0, MaxSaves)[k]
      BY <1>2, <2>2 DEF Bounds
    <3>3. QED
      BY <1>2, <2>1, <2>2, <3>1, <3>2
  <2>3. CASE k # "preferences"
    <3>1. Preferences!UnderWay(k) = {}
      BY <1>r, <2>3 DEF Preferences!UnderWay
    <3>2. k \in Kinds \ {"preferences"} /\ Bounds(0, 0, MaxSaves)[k] = 0
      BY <2>3 DEF Kinds, Preferences!Kind, Bounds
    <3>3. profileSent[k] = 0 /\ Cardinality({}) = 0
      BY <1>2, <3>2, FS_EmptySet
    <3>4. QED
      BY <2>1, <3>1, <3>2, <3>3
  <2>4. QED
    BY <2>2, <2>3
<1>4. password \notin ShortPassword
  BY <1>1 DEF SaveUser
<1>5. backup \in {} \cup {Preferences!None} /\ taken \subseteq {} \ {backup}
  BY <1>1 DEF SaveUser, Preferences!None
<1>b. prefs \in Preferences!Settings /\ settings \in Preferences!Settings
  <2>1. ASSUME NEW p, ChoiceOf(p) PROVE p \in Preferences!Settings
    <3>1. p["use24Hour"] \in BOOLEAN /\ p["useEUDates"] \in BOOLEAN
      BY <2>1 DEF ChoiceOf, Choices
    <3>2. p = [use24Hour |-> p["use24Hour"], useEUDates |-> p["useEUDates"]]
      BY <2>1 DEF ChoiceOf, Choices
    <3>3. QED
      BY <3>1, <3>2 DEF Preferences!Settings
  <2>2. QED
    BY <1>1, <2>1 DEF SaveUser
<1>6. signedIn \in BOOLEAN /\ sessions \in 1..1 /\ profileTimers \in 0..Bounds(0, 0, MaxSaves)["password"]
  BY <1>1, <1>o DEF OneSession, Bounds
<1>7. fields \in {} \cup {Preferences!Empty} /\ captured \in {} \cup {Preferences!Empty}
  <2>1. Preferences!Empty = Blank
    BY DEF Preferences!Empty, Preferences!None, Blank
  <2>2. QED
    BY <1>1, <1>o, <2>1 DEF OneSession
<1>8. profileDialog \in {"closed", "open", "leaving"}
  BY <1>o
<1>9. signedIn /\ passLoading => \E r \in profileRequests : r.kind = "password"
  BY <1>1 DEF OneSession
<1>10. signedIn => (backupLoading <=>
                      \E r \in profileRequests : r.kind = "backup" /\ r.waiting = sessions)
  BY <1>1, <1>r, <1>o DEF SaveWaits
<1>11. calm \in [Preferences!Kind -> BOOLEAN]
  <2>1. \A k \in Kinds : calm[k] \in BOOLEAN
    BY <1>1 DEF CalmTypes
  <2>2. Preferences!Kind = Kinds
    BY DEF Preferences!Kind, Kinds
  <2>3. calm = [k \in Kinds |-> calm[k]]
    BY <1>1 DEF CalmTypes
  <2> HIDE DEF Kinds
  <2>4. QED
    BY <2>1, <2>2, <2>3
<1>12. QED
  BY <1>3, <1>4, <1>5, <1>b, <1>6, <1>7, <1>8, <1>9, <1>10, <1>11 DEF Preferences!TypeOK

-----------------------------------------------------------------------------
(* Types of the requests for money and of the deposits of a customer who   *)
(* waits.                                                                  *)

(* The requests for money: the call that holds the accounts, the requests  *)
(* that two calls had in hand together, and the statuses the pages         *)
(* display.                                                                *)
RequestTypes ==
    /\ lock \in Attempt \cup {Nothing}
    /\ overlapped \subseteq RequestId
    /\ shown \in [Requests!User -> [RequestId -> Requests!Status \cup {Nothing}]]

(* Before the first request nothing is locked, and the pages display none. *)
LEMMA RequestTypesInit == Requests!Init => RequestTypes
  BY DEF Requests!Init, RequestTypes

(* Every step keeps the types: a call that ends releases the accounts, and *)
(* a page displays the statuses there are.                                 *)
LEMMA RequestTypesStep ==
    PaidInv /\ RequestTypes /\ (Requests!Next \/ UNCHANGED requestVars) => RequestTypes'
<1> SUFFICES ASSUME PaidInv, RequestTypes, Requests!Next \/ UNCHANGED requestVars
             PROVE  RequestTypes'
  OBVIOUS
<1> USE DEF RequestTypes
<1>1. ASSUME NEW r \in RequestId, Requests!HandleSubmit(r) PROVE RequestTypes'
  BY <1>1 DEF Requests!HandleSubmit
<1>3. ASSUME NEW u \in Requests!User, Requests!Load(u) PROVE RequestTypes'
  <2>1. requestStatus \in [RequestId -> Requests!Status \cup {Nothing}]
    BY DEF PaidInv
  <2>2. /\ shown' = [shown EXCEPT ![u] = requestStatus]
        /\ UNCHANGED <<lock, overlapped>>
    BY <1>3 DEF Requests!Load
  <2>3. QED
    BY <2>1, <2>2
<1>4. ASSUME NEW a \in Attempt, NEW r \in RequestId, NEW op \in {"pay", "decline", "byHand"},
             Requests!Begin(a, op, r)
      PROVE  RequestTypes'
  <2>1. /\ overlapped' = overlapped \/ overlapped' = overlapped \cup {r}
        /\ UNCHANGED <<lock, shown>>
    BY <1>4 DEF Requests!Begin
  <2>2. QED
    BY <2>1
<1>5. ASSUME NEW a \in Attempt, NEW r \in RequestId,
             \/ Requests!ValidatePaymentRequest(a, r) \/ Requests!DeclineReads(a, r)
             \/ Requests!PayByHand(a, r)
      PROVE  RequestTypes'
  BY <1>4, <1>5 DEF Requests!ValidatePaymentRequest, Requests!DeclineReads, Requests!PayByHand
<1>6. ASSUME NEW a \in Attempt, Requests!FetchAccounts(a) \/ Requests!LockAccounts(a)
      PROVE  RequestTypes'
  BY <1>6 DEF Requests!FetchAccounts, Requests!LockAccounts
<1>7. ASSUME NEW a \in Attempt, Requests!Pay(a) PROVE RequestTypes'
  BY <1>7 DEF Requests!Pay
<1>8. ASSUME NEW a \in Attempt, Requests!Refuse(a) PROVE RequestTypes'
  BY <1>8 DEF Requests!Refuse
<1>9. ASSUME NEW a \in Attempt, Requests!DeclineCommits(a) PROVE RequestTypes'
  BY <1>9 DEF Requests!DeclineCommits
<1>10. ASSUME UNCHANGED requestVars PROVE RequestTypes'
  BY <1>10 DEF requestVars
<1>11. QED
  BY <1>1, <1>3, <1>5, <1>6, <1>7, <1>8, <1>9, <1>10 DEF Requests!Next

(* With what is known of the payments they are the type invariant of       *)
(* PaymentRequests.                                                        *)
LEMMA RequestTypesFacts ==
    ASSUME PaidInv, PaidOnceInv, RequestTypes PROVE Requests!TypeOK
<1>1. RequestCalls
  BY DEF PaidOnceInv
<1>2. QED
  BY <1>1 DEF Requests!TypeOK, PaidInv, RequestCalls, RequestTypes

(* The page of a customer who waits has the types of any other.            *)
LEMMA PatientTypesFacts == ASSUME DepositInv PROVE DepositPatient!TypeOK
<1>1. Deposit!TypeOK
  BY DepositFacts
<1>2. QED
  BY <1>1 DEF Deposit!TypeOK, DepositPatient!TypeOK, Deposit!KeyStatus,
     DepositPatient!KeyStatus, Deposit!Confirmation, DepositPatient!Confirmation

-----------------------------------------------------------------------------
(* Scheduled payments: the theorems about the component, for both visits.  *)

SP == INSTANCE ScheduledPaymentsProofs WITH
    Never <- Nothing, Kind <- PaymentKind, FormChoice <- {},
    clock <- scheduledClock,
    balance <- scheduledBalance, requests <- scheduledRequests
LongSP == INSTANCE ScheduledPaymentsProofs WITH
    Never <- Nothing, Kind <- LongKind, FormChoice <- LongFormChoice,
    LastDay <- LongLastDay, MaxRequests <- 0, clock <- scheduledClock,
    balance <- scheduledBalance, requests <- scheduledRequests

ScheduledInv == SP!Inv /\ SP!BooksInv /\ SP!Bounds
LongInv == LongSP!Inv /\ LongSP!BooksInv /\ LongSP!Bounds

(* The constants of both settings of the scheduled payments are legal.     *)
LEMMA ScheduledSet == SP!Constants /\ LongSP!Constants
  BY ScheduledConstants DEF SP!Constants, LongSP!Constants, SP!Row, LongSP!Row, Scheduled!Row,
     SP!Status, LongSP!Status, Scheduled!Status, SP!Frequency, LongSP!Frequency, Scheduled!Frequency

(* The screens start as ScheduledPayments does.                            *)
LEMMA SameInit == (Scheduled!Init => SP!Init) /\ (ScheduledLong!Init => LongSP!Init)
  BY DEF Scheduled!Init, SP!Init, ScheduledLong!Init, LongSP!Init, Scheduled!Idle, SP!Idle,
     ScheduledLong!Idle, LongSP!Idle

(* A step of the screens is a step of ScheduledPayments, whose lemmas so   *)
(* hold of them.                                                           *)
LEMMA SameNext == Scheduled!Next => SP!Next
  BY DEF Scheduled!Next, SP!Next, Scheduled!HandleSubmit, SP!HandleSubmit,
     Scheduled!FormFrequency, SP!FormFrequency, Scheduled!Create, SP!Create,
     Scheduled!NextRun, SP!NextRun, Scheduled!CreateByApi, SP!CreateByApi,
     Scheduled!CancelReads, SP!CancelReads, Scheduled!Over, SP!Over,
     Scheduled!CancelCommits, SP!CancelCommits, Scheduled!Book, SP!Book,
     Scheduled!Cycle, SP!Cycle, Scheduled!Select, SP!Select, Scheduled!Due,
     SP!Due, Scheduled!Idle, SP!Idle, Scheduled!NoPayee, SP!NoPayee,
     Scheduled!Short, SP!Short, Scheduled!PayPerson, SP!PayPerson,
     Scheduled!ExecuteVendorPayment, SP!ExecuteVendorPayment,
     Scheduled!BookVendorPayment, SP!BookVendorPayment, Scheduled!HandleFail,
     SP!HandleFail, Scheduled!Pay, SP!Pay, Scheduled!Commit, SP!Commit,
     Scheduled!Made, SP!Made, Scheduled!Rescheduled, SP!Rescheduled,
     Scheduled!Stop, SP!Stop, Scheduled!Crash, SP!Crash, Scheduled!Tick,
     SP!Tick, Scheduled!account, SP!account, Scheduled!vendors, SP!vendors

(* The same for the setting with the long schedule.                        *)
LEMMA SameLongNext == ScheduledLong!Next => LongSP!Next
  BY DEF ScheduledLong!Next, LongSP!Next, ScheduledLong!HandleSubmit,
     LongSP!HandleSubmit, ScheduledLong!FormFrequency, LongSP!FormFrequency,
     ScheduledLong!Create, LongSP!Create, ScheduledLong!NextRun,
     LongSP!NextRun, ScheduledLong!CreateByApi, LongSP!CreateByApi,
     ScheduledLong!CancelReads, LongSP!CancelReads, ScheduledLong!Over,
     LongSP!Over, ScheduledLong!CancelCommits, LongSP!CancelCommits,
     ScheduledLong!Book, LongSP!Book, ScheduledLong!Cycle, LongSP!Cycle,
     ScheduledLong!Select, LongSP!Select, ScheduledLong!Due, LongSP!Due,
     ScheduledLong!Idle, LongSP!Idle, ScheduledLong!NoPayee, LongSP!NoPayee,
     ScheduledLong!Short, LongSP!Short, ScheduledLong!PayPerson,
     LongSP!PayPerson, ScheduledLong!ExecuteVendorPayment,
     LongSP!ExecuteVendorPayment, ScheduledLong!BookVendorPayment,
     LongSP!BookVendorPayment, ScheduledLong!HandleFail, LongSP!HandleFail,
     ScheduledLong!Pay, LongSP!Pay, ScheduledLong!Commit, LongSP!Commit,
     ScheduledLong!Made, LongSP!Made, ScheduledLong!Rescheduled,
     LongSP!Rescheduled, ScheduledLong!Stop, LongSP!Stop,
     ScheduledLong!Crash, LongSP!Crash, ScheduledLong!Tick, LongSP!Tick,
     ScheduledLong!account, LongSP!account, ScheduledLong!vendors,
     LongSP!vendors

(* The first state keeps the invariants that ScheduledPayments is proved   *)
(* to keep.                                                                *)
LEMMA ScheduledStart ==
    (Scheduled!Init => ScheduledInv) /\ (ScheduledLong!Init => LongInv)
  BY SameInit, ScheduledSet, SP!InitInv, SP!InitBooks, SP!InitBounds,
     LongSP!InitInv, LongSP!InitBooks, LongSP!InitBounds DEF ScheduledInv, LongInv

(* Every step keeps them.                                                  *)
LEMMA ScheduledStep == ScheduledInv /\ (Scheduled!Next \/ UNCHANGED scheduledVars) => ScheduledInv'
<1> SUFFICES ASSUME ScheduledInv, Scheduled!Next \/ UNCHANGED scheduledVars
             PROVE  ScheduledInv'
  OBVIOUS
<1>1. UNCHANGED scheduledVars => UNCHANGED SP!vars
  BY DEF scheduledVars, SP!vars, SP!account, SP!vendors
<1>2. [SP!Next]_(SP!vars)
  BY <1>1, SameNext
<1>3. SP!Constants /\ SP!Inv /\ SP!BooksInv /\ SP!Bounds
  BY ScheduledSet DEF ScheduledInv
<1>4. QED
  BY <1>2, <1>3, SP!StepInv, SP!StepBooks, SP!StepBounds DEF ScheduledInv

(* The same for the long schedule.                                         *)
LEMMA LongStep == LongInv /\ (ScheduledLong!Next \/ UNCHANGED scheduledVars) => LongInv'
<1> SUFFICES ASSUME LongInv, ScheduledLong!Next \/ UNCHANGED scheduledVars
             PROVE  LongInv'
  OBVIOUS
<1>1. UNCHANGED scheduledVars => UNCHANGED LongSP!vars
  BY DEF scheduledVars, LongSP!vars, LongSP!account, LongSP!vendors
<1>2. [LongSP!Next]_(LongSP!vars)
  BY <1>1, SameLongNext
<1>3. LongSP!Constants /\ LongSP!Inv /\ LongSP!BooksInv /\ LongSP!Bounds
  BY ScheduledSet DEF LongInv
<1>4. QED
  BY <1>2, <1>3, LongSP!StepInv, LongSP!StepBooks, LongSP!StepBounds DEF LongInv

(* What those invariants say of the claims about the schedules.            *)
LEMMA ScheduledFacts ==
    ASSUME ScheduledInv
    PROVE  /\ Scheduled!TypeOK
           /\ Scheduled!MadeOncePerPeriod /\ Scheduled!TargetIsKept
           /\ Scheduled!BooksBalance /\ Scheduled!UnbookedNeedsCrash
<1>1. SP!Constants /\ SP!Inv /\ SP!BooksInv /\ SP!Bounds
  BY ScheduledSet DEF ScheduledInv
<1>2. Scheduled!TypeOK
  BY <1>1, SP!InvTypes DEF SP!TypeOK, Scheduled!TypeOK, SP!Row, Scheduled!Row,
     SP!Status, Scheduled!Status, SP!Frequency, Scheduled!Frequency, SP!Day, Scheduled!Day
<1>3. Scheduled!MadeOncePerPeriod
  BY <1>1, SP!InvMade DEF SP!MadeOncePerPeriod, Scheduled!MadeOncePerPeriod,
     SP!Stored, Scheduled!Stored
<1>4. Scheduled!TargetIsKept
  BY <1>1, SP!InvTarget DEF SP!TargetIsKept, Scheduled!TargetIsKept,
     SP!Stored, Scheduled!Stored, SP!Max, Scheduled!Max
<1>5. SP!AllMade = Scheduled!AllMade /\ SP!AllExecuted = Scheduled!AllExecuted
  BY DEF SP!AllMade, Scheduled!AllMade, SP!AllExecuted, Scheduled!AllExecuted,
     SP!Stored, Scheduled!Stored
<1>6. \A S : SP!Cardinality(S) = Scheduled!Cardinality(S)
  BY DEF SP!Cardinality, Scheduled!Cardinality
<1>7. SP!BooksBalance /\ SP!UnbookedNeedsCrash
  BY <1>1 DEF SP!BooksInv
<1>8. Scheduled!BooksBalance
  BY <1>5, <1>6, <1>7 DEF SP!BooksBalance, Scheduled!BooksBalance
<1>9. Scheduled!UnbookedNeedsCrash
  BY <1>5, <1>6, <1>7 DEF SP!UnbookedNeedsCrash, Scheduled!UnbookedNeedsCrash
<1>10. QED
  BY <1>2, <1>3, <1>4, <1>8, <1>9

(* The same for the long schedule.                                         *)
LEMMA LongFacts ==
    ASSUME LongInv
    PROVE  /\ ScheduledLong!TypeOK
           /\ ScheduledLong!MadeOncePerPeriod /\ ScheduledLong!TargetIsKept
<1>1. LongSP!Constants /\ LongSP!Inv /\ LongSP!BooksInv /\ LongSP!Bounds
  BY ScheduledSet DEF LongInv
<1>2. ScheduledLong!TypeOK
  BY <1>1, LongSP!InvTypes DEF LongSP!TypeOK, ScheduledLong!TypeOK, LongSP!Row,
     ScheduledLong!Row, LongSP!Status, ScheduledLong!Status, LongSP!Frequency,
     ScheduledLong!Frequency, LongSP!Day, ScheduledLong!Day
<1>3. ScheduledLong!MadeOncePerPeriod
  BY <1>1, LongSP!InvMade DEF LongSP!MadeOncePerPeriod, ScheduledLong!MadeOncePerPeriod,
     LongSP!Stored, ScheduledLong!Stored
<1>4. ScheduledLong!TargetIsKept
  BY <1>1, LongSP!InvTarget DEF LongSP!TargetIsKept, ScheduledLong!TargetIsKept,
     LongSP!Stored, ScheduledLong!Stored, LongSP!Max, ScheduledLong!Max
<1>5. QED
  BY <1>2, <1>3, <1>4

-----------------------------------------------------------------------------
(* The visits.                                                             *)

(* What must happen once happens once, through lost answers, presses that  *)
(* are repeated, restarts and calls that overlap: useCaptcha's token is    *)
(* used once, the pages of contacts send one change at a time, the worker  *)
(* makes a payment once a period, and a request that no two calls had in   *)
(* hand together is paid once.  The bank credits a payment intent twice at *)
(* most, and twice only if a confirmation died between the commit of       *)
(* deposit_service.py:71 and that of deposit.py:153 or overlapped another. *)
THEOREM OnceOnlyHolds == VisitSpec => []OnceOnly
<1> DEFINE I ==
        /\ At("captcha") => CaptchaInv
        /\ At("contacts") => BookInv
        /\ At("deposit") => DepositInv
        /\ At("scheduled") => ScheduledInv
        /\ At("longer") => LongInv
        /\ At("requests") => PaidInv /\ PaidOnceInv
<1>1. VisitInit => I
  BY CaptchaInit, BookInit, DepositInit, ScheduledStart, PaidInit, PaidOnceInit
     DEF VisitInit, At
<1>2. I /\ [VisitNext]_visitVars => I'
  <2> SUFFICES ASSUME I, [VisitNext]_visitVars PROVE I'
    OBVIOUS
  <2>1. At("captcha")' => CaptchaInv'
    BY CaptchaStep DEF VisitNext, visitVars, At
  <2>2. At("contacts")' => BookInv'
    BY BookStep DEF VisitNext, visitVars, At
  <2>3. At("deposit")' => DepositInv'
    BY DepositStep DEF VisitNext, visitVars, At
  <2>4. At("scheduled")' => ScheduledInv'
    BY ScheduledStep DEF VisitNext, visitVars, At
  <2>5. At("longer")' => LongInv'
    BY LongStep DEF VisitNext, visitVars, At
  <2>6. At("requests")' => PaidInv' /\ PaidOnceInv'
    <3>1. PaidOnceInv => RequestCalls
      BY DEF PaidOnceInv
    <3>2. QED
      BY <3>1, PaidStep, PaidOnceStep DEF VisitNext, visitVars, At
  <2>7. QED
    BY <2>1, <2>2, <2>3, <2>4, <2>5, <2>6
<1>3. I => OnceOnly
  <2>1. CaptchaInv => Captcha!TokensAreSpentOnce
    BY DEF CaptchaInv
  <2>2. QED
    BY <2>1, BookFacts, DepositFacts, ScheduledFacts, LongFacts, RequestFacts DEF OnceOnly
<1>4. QED
  BY <1>1, <1>2, <1>3, PTL DEF VisitSpec

(* Nothing is marked as paid or announced as deposited that was not moved, *)
(* and the funding account has paid for the payments the worker made: the  *)
(* mark and the money commit together, the message follows the answer.     *)
THEOREM BooksKeptHolds == VisitSpec => []BooksKept
<1> DEFINE I ==
        /\ At("deposit") => DepositInv
        /\ At("scheduled") => ScheduledInv
        /\ At("requests") => PaidInv /\ PaidOnceInv
<1>1. VisitInit => I
  BY DepositInit, ScheduledStart, PaidInit, PaidOnceInit DEF VisitInit, At
<1>2. I /\ [VisitNext]_visitVars => I'
  <2> SUFFICES ASSUME I, [VisitNext]_visitVars PROVE I'
    OBVIOUS
  <2>1. At("deposit")' => DepositInv'
    BY DepositStep DEF VisitNext, visitVars, At
  <2>2. At("scheduled")' => ScheduledInv'
    BY ScheduledStep DEF VisitNext, visitVars, At
  <2>3. At("requests")' => PaidInv' /\ PaidOnceInv'
    <3>1. PaidOnceInv => RequestCalls
      BY DEF PaidOnceInv
    <3>2. QED
      BY <3>1, PaidStep, PaidOnceStep DEF VisitNext, visitVars, At
  <2>4. QED
    BY <2>1, <2>2, <2>3
<1>3. I => BooksKept
  BY DepositFacts, ScheduledFacts, RequestFacts DEF BooksKept
<1>4. QED
  BY <1>1, <1>2, <1>3, PTL DEF VisitSpec

(* A screen agrees with what it acts upon: the contacts displayed are the  *)
(* book's, the registry erases whose email was typed and turns to pages    *)
(* there are, the copies of a card are the same in every tab and details   *)
(* are hidden in time, a customer who waits deposits the amount on the     *)
(* button, and the profile page stores what was confirmed and announces    *)
(* what is stored.                                                         *)
THEOREM ScreensAgreeHold == VisitSpec => []ScreensAgree
<1> DEFINE I ==
        /\ At("contacts") => BookInv
        /\ At("users") => UsersInv
        /\ At("pages") => PagesInv
        /\ At("cards") => CardsInv(CardTab)
        /\ At("preview") => CardsInv(PreviewTab) /\ HidesInv
        /\ At("patient") => DepositInv /\ PatientInv
        /\ At("profile") => PassInv
        /\ At("backup") => MailInv
        /\ At("preferences") => PrefsInv
<1>1. VisitInit => I
  BY BookInit, UsersFacts, PagesFacts, CardsInit, PreviewInit, HidesFacts, DepositInit,
     PatientFacts, PassFacts, MailFacts, PrefsFacts DEF VisitInit, At
<1>2. I /\ [VisitNext]_visitVars => I'
  <2> SUFFICES ASSUME I, [VisitNext]_visitVars PROVE I'
    OBVIOUS
  <2>1. At("contacts")' => BookInv'
    BY BookStep DEF VisitNext, visitVars, At
  <2>2. At("users")' => UsersInv'
    BY UsersStep DEF VisitNext, visitVars, At
  <2>3. At("pages")' => PagesInv'
    BY PagesStep DEF VisitNext, visitVars, At
  <2>4. At("cards")' => CardsInv(CardTab)'
    BY CardsStep DEF VisitNext, visitVars, At
  <2>5. At("preview")' => CardsInv(PreviewTab)' /\ HidesInv'
    BY PreviewStep, HidesStep DEF VisitNext, visitVars, At
  <2>6. At("patient")' => DepositInv' /\ PatientInv'
    <3>1. DepositInv => DialogTypes /\ CallTypes /\ BankTypes
      BY DEF DepositInv
    <3>2. QED
      BY <3>1, PatientSteps, DepositStep, PatientStep DEF VisitNext, visitVars, At
  <2>7. At("profile")' => PassInv'
    BY PassStep DEF VisitNext, visitVars, At
  <2>8. At("backup")' => MailInv'
    BY MailStep DEF VisitNext, visitVars, At
  <2>9. At("preferences")' => PrefsInv'
    BY PrefsStep DEF VisitNext, visitVars, At
  <2>10. QED
    BY <2>1, <2>2, <2>3, <2>4, <2>5, <2>6, <2>7, <2>8, <2>9
<1>3. I => ScreensAgree
  BY BookFacts, UsersFacts, PagesFacts, CardsFacts, PreviewFacts, HidesFacts, PatientFacts,
     PassFacts, MailFacts, PrefsFacts DEF ScreensAgree
<1>4. QED
  BY <1>1, <1>2, <1>3, PTL DEF VisitSpec

(* Every screen keeps its types, in whatever order its answers, timers,    *)
(* tabs and presses come: the pager of the registry stays within one page  *)
(* more than there are users, every card has a limit of the slider, the    *)
(* spinners of the profile page turn only while there is a request of      *)
(* their kind, there are no more intents than dialogs, and a call of the   *)
(* requests for money is in a state its routes know.                       *)
THEOREM CustomerTypesHold == VisitSpec => []TypesOK
<1> DEFINE I ==
        /\ At("session") => SessionInv
        /\ At("captcha") => CaptchaInv
        /\ At("contacts") => BookInv
        /\ At("users") => UsersTypes
        /\ At("pages") => UserPagesTypes
        /\ At("cards") => CardsInv(CardTab) /\ CardTypes(CardTab, Limits)
        /\ At("preview") => CardsInv(PreviewTab) /\ CardTypes(PreviewTab, PreviewLimits)
        /\ At("deposit") => DepositInv
        /\ At("patient") => DepositInv
        /\ At("scheduled") => ScheduledInv
        /\ At("longer") => LongInv
        /\ At("profile") => PassInv /\ PassTypes
        /\ At("backup") => MailInv /\ MailTypes
        /\ At("preferences") => PrefsInv /\ SaveTypes
        /\ At("requests") => PaidInv /\ PaidOnceInv /\ RequestTypes
<1>1. VisitInit => I
  <2> SUFFICES ASSUME VisitInit PROVE I
    OBVIOUS
  <2>1. /\ At("session") => SessionInv
        /\ At("captcha") => CaptchaInv
        /\ At("contacts") => BookInv
    BY SessionInit, CaptchaInit, BookInit DEF VisitInit, At
  <2>2. /\ At("users") => UsersTypes
        /\ At("pages") => UserPagesTypes
    BY UsersTypesInit, UserPagesTypesInit DEF VisitInit, At
  <2>3. /\ At("cards") => CardsInv(CardTab) /\ CardTypes(CardTab, Limits)
        /\ At("preview") => CardsInv(PreviewTab) /\ CardTypes(PreviewTab, PreviewLimits)
    BY CardsInit, PreviewInit, CardsTypesInit, PreviewTypesInit DEF VisitInit, At
  <2>4. /\ At("deposit") => DepositInv
        /\ At("patient") => DepositInv
        /\ At("scheduled") => ScheduledInv
        /\ At("longer") => LongInv
    BY DepositInit, ScheduledStart DEF VisitInit, At
  <2>5. /\ At("profile") => PassInv /\ PassTypes
        /\ At("backup") => MailInv /\ MailTypes
        /\ At("preferences") => PrefsInv /\ SaveTypes
    BY PassFacts, MailFacts, PrefsFacts, PassTypesInit, MailTypesInit, SaveTypesInit
       DEF VisitInit, At
  <2>6. At("requests") => PaidInv /\ PaidOnceInv /\ RequestTypes
    BY PaidInit, PaidOnceInit, RequestTypesInit DEF VisitInit, At
  <2>7. QED
    BY <2>1, <2>2, <2>3, <2>4, <2>5, <2>6
<1>2. I /\ [VisitNext]_visitVars => I'
  <2> SUFFICES ASSUME I, [VisitNext]_visitVars PROVE I'
    OBVIOUS
  <2>1. At("session")' => SessionInv'
    BY SessionStep DEF VisitNext, visitVars, At
  <2>2. At("captcha")' => CaptchaInv'
    BY CaptchaStep DEF VisitNext, visitVars, At
  <2>3. At("contacts")' => BookInv'
    BY BookStep DEF VisitNext, visitVars, At
  <2>4. At("users")' => UsersTypes'
    BY UsersTypesStep DEF VisitNext, visitVars, At
  <2>5. At("pages")' => UserPagesTypes'
    BY UserPagesTypesStep DEF VisitNext, visitVars, At
  <2>6. At("cards")' => CardsInv(CardTab)' /\ CardTypes(CardTab, Limits)'
    BY CardsStep, CardsTypesStep DEF VisitNext, visitVars, At
  <2>7. At("preview")' => CardsInv(PreviewTab)' /\ CardTypes(PreviewTab, PreviewLimits)'
    BY PreviewStep, PreviewTypesStep DEF VisitNext, visitVars, At
  <2>8. At("deposit")' => DepositInv'
    BY DepositStep DEF VisitNext, visitVars, At
  <2>9. At("patient")' => DepositInv'
    BY PatientSteps, DepositStep DEF VisitNext, visitVars, At
  <2>10. At("scheduled")' => ScheduledInv'
    BY ScheduledStep DEF VisitNext, visitVars, At
  <2>11. At("longer")' => LongInv'
    BY LongStep DEF VisitNext, visitVars, At
  <2>12. At("profile")' => PassInv' /\ PassTypes'
    BY PassStep, PassTypesStep DEF VisitNext, visitVars, At
  <2>13. At("backup")' => MailInv' /\ MailTypes'
    BY MailStep, MailTypesStep DEF VisitNext, visitVars, At
  <2>14. At("preferences")' => PrefsInv' /\ SaveTypes'
    BY PrefsStep, SaveTypesStep DEF VisitNext, visitVars, At
  <2>15. At("requests")' => PaidInv' /\ PaidOnceInv' /\ RequestTypes'
    <3>1. PaidOnceInv => RequestCalls
      BY DEF PaidOnceInv
    <3>2. QED
      BY <3>1, PaidStep, PaidOnceStep, RequestTypesStep DEF VisitNext, visitVars, At
  <2>16. QED
    BY <2>1, <2>2, <2>3, <2>4, <2>5, <2>6, <2>7, <2>8, <2>9, <2>10, <2>11, <2>12, <2>13,
       <2>14, <2>15
<1>3. I => TypesOK
  <2>1. (SessionInv => Session!TypeOK) /\ (CaptchaInv => Captcha!TypeOK)
    BY DEF SessionInv, CaptchaInv
  <2>2. BookInv => Contacts!TypeOK
    BY DEF BookInv
  <2>3. QED
    BY <2>1, <2>2, UsersTypesFacts, UserPagesTypesFacts, CardsTypesFacts, PreviewTypesFacts,
       DepositFacts, PatientTypesFacts, ScheduledFacts, LongFacts, PassTypesFacts,
       MailTypesFacts, SaveTypesFacts, RequestTypesFacts DEF TypesOK
<1>4. QED
  <2> HIDE DEF I
  <2>1. QED
    BY <1>1, <1>2, <1>3, PTL DEF VisitSpec
===============================================================================
