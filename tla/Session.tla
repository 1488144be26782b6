------------------------------ MODULE Session -------------------------------
(***************************************************************************)
(* The signed-in session of the frontend: AuthProvider of                  *)
(* lib/AuthContext.tsx with its expiry warnings, in several tabs that      *)
(* share the bank_token of localStorage and nothing else, and the API      *)
(* client's treatment of a 401.                                            *)
(*                                                                         *)
(* A token is the number of its issue; 0 stands for null.  Time is counted *)
(* in units of the smallest warning threshold.  Between the start of an    *)
(* asynchronous function and the answer it awaits anything can happen.     *)
(***************************************************************************)
EXTENDS Integers

CONSTANTS Tab,                          \* browser tabs of one user
          ACCESS_TOKEN_EXPIRE_MINUTES,  \* life of a token, in ticks
          WARNING_THRESHOLDS_MINUTES,   \* ticks before expiry
          IsAdmin,                      \* the role of the user
          MaxTokens,                    \* bound: tokens issued in a run
          MaxClock                      \* bound: ticks in a run

Token == 1..MaxTokens

(* What a call comes back with: an issued token is its own answer.         *)
Done == 0
Waiting == -1
Unauthorized == -2
Failed == -3
Call == {"me", "logout", "renew", "login"}

VARIABLES
    clock,
    expiry,    \* when each issued token expires, 0 if it is not issued
    stored,    \* localStorage bank_token
    page,      \* "loading" until the provider is mounted, "login" or "client"
    token,     \* state of each AuthProvider ...
    user,      \* ... whether the profile is known
    warning,   \* ... warningMinutes, 0 for null
    timers,    \* ... armed timers; threshold 0 is the logout timer
    sent,      \* per call the token it was sent with, -1 when none is out
    answer     \* what was answered to a call: Waiting while it is out

tabState == <<page, token, user, warning, timers>>
vars == <<clock, expiry, stored, tabState, sent, answer>>

Threshold == {0} \cup WARNING_THRESHOLDS_MINUTES

TypeOK ==
    /\ clock \in 0..MaxClock
    /\ expiry \in [Token -> Nat]
    /\ stored \in {0} \cup Token
    /\ page \in [Tab -> {"loading", "login", "client"}]
    /\ token \in [Tab -> {0} \cup Token]
    /\ user \in [Tab -> BOOLEAN]
    /\ warning \in [Tab -> Threshold]
    /\ timers \in [Tab -> SUBSET (Threshold \X Nat)]
    /\ sent \in [Tab -> [Call -> {-1, 0} \cup Token]]
    /\ answer \in [Tab -> [Call -> {Waiting, Unauthorized, Failed, Done} \cup Token]]

Init ==
    /\ clock = 0
    /\ expiry = [n \in Token |-> 0]
    /\ stored = 0
    /\ page = [t \in Tab |-> "loading"]
    /\ token = [t \in Tab |-> 0]
    /\ user = [t \in Tab |-> FALSE]
    /\ warning = [t \in Tab |-> 0]
    /\ timers = [t \in Tab |-> {}]
    /\ sent = [t \in Tab |-> [c \in Call |-> -1]]
    /\ answer = [t \in Tab |-> [c \in Call |-> Waiting]]

-----------------------------------------------------------------------------
(* Tokens and the backend (external: routers/auth.py, auth_utils.py).      *)

Live(n) == n # 0 /\ clock < expiry[n]

Out(t, c) == sent[t][c] # -1
Answered(t, c) == Out(t, c) /\ answer[t][c] # Waiting

(* The calls given in cs leave with the token that is stored now.          *)
Calls(t, cs, held) ==
    /\ sent' = [sent EXCEPT ![t] = [c \in Call |-> IF c \in cs THEN held ELSE @[c]]]
    /\ answer' = [answer EXCEPT ![t] = [c \in Call |-> IF c \in cs THEN Waiting ELSE @[c]]]

(* Call c is over and call d, if it is not out already, begins.            *)
Then(t, c, d, held) ==
    /\ sent' = [sent EXCEPT ![t] = [x \in Call |->
                   IF x = d /\ ~Out(t, d) THEN held ELSE IF x = c THEN -1 ELSE @[x]]]
    /\ answer' = [answer EXCEPT ![t] = [x \in Call |->
                   IF x = c \/ (x = d /\ ~Out(t, d)) THEN Waiting ELSE @[x]]]

Over(t, c) ==
    /\ sent' = [sent EXCEPT ![t][c] = -1]
    /\ answer' = [answer EXCEPT ![t][c] = Waiting]

Issue(t, c) ==
    \E n \in Token :
        /\ expiry[n] = 0
        /\ \A k \in Token : k < n => expiry[k] # 0
        /\ expiry' = [expiry EXCEPT ![n] = clock + ACCESS_TOKEN_EXPIRE_MINUTES]
        /\ answer' = [answer EXCEPT ![t][c] = n]

Serve(t, c) ==
    /\ Out(t, c)
    /\ answer[t][c] = Waiting
    /\ \/ /\ c = "login" \/ (c = "renew" /\ Live(sent[t][c]))
          /\ Issue(t, c)
       \/ /\ c # "login"
          /\ answer' = [answer EXCEPT ![t][c] =
                 IF ~Live(sent[t][c]) THEN Unauthorized
                 ELSE IF c = "renew" THEN Failed ELSE Done]
          /\ UNCHANGED expiry
       \/ /\ answer' = [answer EXCEPT ![t][c] = Failed]
          /\ UNCHANGED expiry
    /\ UNCHANGED <<clock, stored, tabState, sent>>

-----------------------------------------------------------------------------
(* AuthProvider.                                                           *)

(* A timer is its threshold and the time it fires at.                      *)

ArmedFor(n) ==
    {<<m, expiry[n] - m>> : m \in {m \in Threshold : n # 0 /\ clock + m < expiry[n]}}

(* Mutant: while timers are armed, none are set anew.                      *)
SetToken_Unscheduled(t, n) ==
    /\ token' = [token EXCEPT ![t] = n]
    /\ timers' = [timers EXCEPT ![t] = IF n = 0 \/ @ = {} THEN ArmedFor(n) ELSE @]
    /\ warning' = [warning EXCEPT ![t] = 0]

(* setToken and the effect that depends on it: all timers are replaced.    *)
SetToken(t, n) ==
    /\ token' = [token EXCEPT ![t] = n]
    /\ timers' = [timers EXCEPT ![t] = ArmedFor(n)]
    /\ warning' = [warning EXCEPT ![t] = 0]

(* Where the pages send a tab once the provider has loaded.                *)
Home(n) == IF n = 0 THEN "login" ELSE "client"

(* What AdminWrapper shows of an admin page.                               *)
AdminGate(t) ==
    IF token[t] = 0 THEN "nothing"
    ELSE IF user[t] /\ ~IsAdmin THEN "denied" ELSE "children"

(* The provider is mounted: a stored token is taken over and the profile   *)
(* fetched with it; without one the layout goes to the login page.         *)
Mount(t) ==
    /\ page[t] = "loading" /\ token[t] = 0
    /\ IF stored = 0
       THEN /\ page' = [page EXCEPT ![t] = Home(0)]
            /\ UNCHANGED <<token, timers, warning, sent, answer>>
       ELSE /\ SetToken(t, stored)
            /\ Calls(t, {"me"}, stored)
            /\ UNCHANGED page
    /\ UNCHANGED <<clock, expiry, stored, user>>

(* The page is left or reloaded, by the user or by the API client's        *)
(* redirect: what this tab waited for is forgotten.                        *)
Reload(t) ==
    /\ page[t] # "loading"
    /\ page' = [page EXCEPT ![t] = "loading"]
    /\ token' = [token EXCEPT ![t] = 0]
    /\ user' = [user EXCEPT ![t] = FALSE]
    /\ warning' = [warning EXCEPT ![t] = 0]
    /\ timers' = [timers EXCEPT ![t] = {}]
    /\ Calls(t, Call, -1)
    /\ UNCHANGED <<clock, expiry, stored>>

(* The API client signs the browser out on a 401, unless retry is false.   *)
Kept(t, c) ==
    IF answer[t][c] = Unauthorized /\ c # "renew" THEN 0 ELSE stored

(* fetchUser: a failure of any kind logs the user out.                     *)
FetchUser(t) ==
    /\ Answered(t, "me")
    /\ page' = [page EXCEPT ![t] = Home(token[t])]
    /\ stored' = Kept(t, "me")
    /\ IF answer[t]["me"] = Done
       THEN /\ user' = [user EXCEPT ![t] = TRUE]
            /\ Over(t, "me")
       ELSE /\ Then(t, "me", "logout", stored')
            /\ UNCHANGED user
    /\ UNCHANGED <<clock, expiry, token, warning, timers>>

SubmitLogin(t) ==
    /\ page[t] = "login"
    /\ ~Out(t, "login") /\ ~Out(t, "me")
    /\ Calls(t, {"login"}, 0)
    /\ UNCHANGED <<clock, expiry, stored, tabState>>

Login(t) ==
    /\ Answered(t, "login")
    /\ IF answer[t]["login"] \in Token
       THEN /\ stored' = answer[t]["login"]
            /\ SetToken(t, stored')
            /\ Then(t, "login", "me", stored')
       ELSE /\ Over(t, "login")
            /\ UNCHANGED <<stored, token, timers, warning>>
    /\ UNCHANGED <<clock, expiry, page, user>>

(* logout() asks the server first; Sidebar, PortalHeader and AdminWrapper  *)
(* offer it.                                                               *)
ClickLogout(t) ==
    /\ page[t] = "client"
    /\ ~Out(t, "logout")
    /\ Calls(t, {"logout"}, stored)
    /\ UNCHANGED <<clock, expiry, stored, tabState>>

(* Whatever the server said, the client state goes.                        *)
Logout(t) ==
    /\ Answered(t, "logout")
    /\ stored' = 0
    /\ SetToken(t, 0)
    /\ user' = [user EXCEPT ![t] = FALSE]
    /\ page' = [page EXCEPT ![t] = "login"]
    /\ Over(t, "logout")
    /\ UNCHANGED <<clock, expiry>>

ClickRenew(t) ==
    /\ warning[t] # 0
    /\ ~Out(t, "renew")
    /\ Calls(t, {"renew"}, stored)
    /\ UNCHANGED <<clock, expiry, stored, tabState>>

RenewSession(t) ==
    /\ Answered(t, "renew")
    /\ IF answer[t]["renew"] \in Token
       THEN /\ stored' = answer[t]["renew"]
            /\ SetToken(t, stored')
            /\ Over(t, "renew")
       ELSE /\ Then(t, "renew", "logout", stored)
            /\ UNCHANGED <<stored, token, warning, timers>>
    /\ UNCHANGED <<clock, expiry, page, user>>

DismissWarning(t) ==
    /\ warning[t] # 0
    /\ warning' = [warning EXCEPT ![t] = 0]
    /\ UNCHANGED <<clock, expiry, stored, page, token, user, timers, sent, answer>>

Due(t, m, at) == <<m, at>> \in timers[t] /\ clock >= at

WarningTimer(t) ==
    \E m \in WARNING_THRESHOLDS_MINUTES, at \in 0..clock :
        /\ Due(t, m, at)
        /\ timers' = [timers EXCEPT ![t] = @ \ {<<m, at>>}]
        /\ warning' = [warning EXCEPT ![t] = m]
        /\ UNCHANGED <<clock, expiry, stored, page, token, user, sent, answer>>

ExpiryTimer(t) ==
    \E at \in 0..clock :
        /\ Due(t, 0, at)
        /\ timers' = [timers EXCEPT ![t] = @ \ {<<0, at>>}]
        /\ IF Out(t, "logout") THEN UNCHANGED <<sent, answer>>
                               ELSE Calls(t, {"logout"}, stored)
        /\ UNCHANGED <<clock, expiry, stored, page, token, user, warning>>

(* An answer that has arrived is handled within the tick.                  *)
Tick ==
    /\ clock < MaxClock
    /\ \A t \in Tab, c \in Call : ~Answered(t, c)
    /\ clock' = clock + 1
    /\ UNCHANGED <<expiry, stored, tabState, sent, answer>>

Deliver(t) == FetchUser(t) \/ Login(t) \/ Logout(t) \/ RenewSession(t)

TabStep(t) ==
    \/ Mount(t) \/ Reload(t) \/ Deliver(t)
    \/ SubmitLogin(t) \/ ClickLogout(t) \/ ClickRenew(t) \/ DismissWarning(t)
    \/ ExpiryTimer(t) \/ WarningTimer(t)
    \/ \E c \in Call : Serve(t, c)

Next == Tick \/ \E t \in Tab : TabStep(t)

Spec == Init /\ [][Next]_vars

(* The browser runs effects, timers and promise callbacks, and every       *)
(* request is answered or fails.  Nothing obliges the user to do anything. *)
FairSpec ==
    /\ Spec
    /\ \A t \in Tab :
        /\ WF_vars(Mount(t))
        /\ WF_vars(FetchUser(t)) /\ WF_vars(Login(t))
        /\ WF_vars(Logout(t)) /\ WF_vars(RenewSession(t))
        /\ WF_vars(ExpiryTimer(t))
        /\ \A c \in Call : WF_vars(Serve(t, c))

-----------------------------------------------------------------------------
(* Properties.                                                             *)

(* "Your session expires in m minutes" is never shown for a session that   *)
(* has longer to live: a renewal takes the old warnings with it.           *)
WarningIsTrue ==
    \A t \in Tab :
        warning[t] # 0 =>
            /\ token[t] # 0
            /\ expiry[token[t]] - clock <= warning[t]

(* A tab whose token is still good is going to log out when this token     *)
(* expires, whatever renewals and logins came before.                      *)
LogoutIsArmed ==
    \A t \in Tab : Live(token[t]) => <<0, expiry[token[t]]>> \in timers[t]

(* The admin pages are shown to a consumer by no tab that means to stay: a *)
(* tab that shows them without knowing the user is being logged out.       *)
GateKnowsTheUser ==
    \A t \in Tab :
        page[t] = "client" /\ AdminGate(t) = "children" /\ ~(user[t] /\ IsAdmin)
            => Out(t, "logout")

(* A tab does not stay signed in with a token that has expired.            *)
ExpiredTabSignsOut ==
    \A t \in Tab :
        (token[t] # 0 /\ ~Live(token[t])) ~> (token[t] = 0 \/ Live(token[t]))
=============================================================================
