----------------------------- MODULE ProfilePage -----------------------------
(***************************************************************************)
(* The profile page (app/client/profile/page.tsx): the password form with  *)
(* its dialog, the backup email, and the display preferences, over the     *)
(* routes of routers/auth.py that store them.                              *)
(*                                                                         *)
(* A route reads the user, decides, and writes at its commit the columns   *)
(* it changed; nothing is locked.  A fetch that fails tells the page       *)
(* nothing about its request, which may be lost or be carried out yet.     *)
(* The dialog leaves the page with an animation, and answers to clicks     *)
(* with the form's contents of its last rendering while it does; it covers *)
(* the form for the mouse only, the focus stays where it was.              *)
(***************************************************************************)
EXTENDS Integers, FiniteSets

CONSTANTS Form,        \* what is typed into the password form
          Short,       \* passwords of fewer than eight characters
          Old,         \* the password at first
          Email,       \* backup emails
          Most,        \* bound: requests per kind
          MaxSessions  \* bound

VARIABLES
    \* users
    password, backup, prefs,
    taken,       \* the emails of other users
    \* the browser
    signedIn, sessions, settings,
    requests,    \* under way
    sent,        \* how many there were, per kind
    timers,      \* logouts that are due in 3 s
    \* the forms
    fields, dialog,
    captured,    \* the form as the dialog knows it while it leaves
    passLoading, passSuccess, passError,
    backupLoading, backupSuccess, backupError,
    \* history
    behind,      \* the form was changed behind the dialog
    confirmed,   \* the passwords that were sent and had been typed twice
    told,        \* the password and the email announced as stored
    calm         \* per kind of request: none was under way with another,
                 \* and none failed, since one was sent alone, below no
                 \* announcement of an earlier one

bank == <<password, backup, prefs, taken>>
browser == <<signedIn, sessions, settings, timers>>
passForm == <<fields, dialog, captured, passLoading, passSuccess, passError>>
backupForm == <<backupLoading, backupSuccess, backupError>>
history == <<behind, confirmed, told, calm>>
vars == <<bank, browser, requests, sent, passForm, backupForm, history>>

Kind == {"password", "backup", "preferences"}
Settings == [use24Hour : BOOLEAN, useEUDates : BOOLEAN]
Unset == [use24Hour |-> FALSE, useEUDates |-> FALSE]
None == "none"
Empty == [current |-> None, new |-> None, confirm |-> None]
UnderWay(kind) == {r \in requests : r.kind = kind}

TypeOK ==
    /\ password \notin Short
    /\ backup \in Email \cup {None} /\ taken \subseteq Email \ {backup}
    /\ prefs \in Settings /\ settings \in Settings
    /\ signedIn \in BOOLEAN /\ sessions \in 1..MaxSessions /\ timers \in 0..Most["password"]
    /\ \A k \in Kind : sent[k] \in 0..Most[k] /\ Cardinality(UnderWay(k)) <= sent[k]
    /\ fields \in Form \cup {Empty} /\ captured \in Form \cup {Empty}
    /\ dialog \in {"closed", "open", "leaving"}
    /\ signedIn /\ passLoading => \E r \in requests : r.kind = "password"
    /\ signedIn => (backupLoading <=>
                      \E r \in requests : r.kind = "backup" /\ r.waiting = sessions)
    /\ calm \in [Kind -> BOOLEAN]

Init ==
    /\ password = Old /\ backup = None /\ prefs = Unset /\ taken = {}
    /\ signedIn = TRUE /\ sessions = 1 /\ settings = Unset
    /\ requests = {} /\ sent = [k \in Kind |-> 0] /\ timers = 0
    /\ fields = Empty /\ dialog = "closed" /\ captured = Empty
    /\ passLoading = FALSE /\ passSuccess = FALSE /\ passError = FALSE
    /\ backupLoading = FALSE /\ backupSuccess = FALSE /\ backupError = FALSE
    /\ behind = FALSE /\ confirmed = {} /\ told = [password |-> Old, email |-> None] /\ calm = [k \in Kind |-> TRUE]

-----------------------------------------------------------------------------
(* The routes.                                                             *)

Instead(r, s) == requests' = (requests \ {r}) \cup s

Row == [password |-> password, taken |-> taken, prefs |-> prefs]

(* A new password does not take the announcement of the last one away.     *)
Announced(kind) == kind = "password" /\ passSuccess

(* A request is made; waiting is the session of the page that waits for it.*)
Send(kind, f, e) ==
    /\ sent[kind] < Most[kind]
    /\ sent' = [sent EXCEPT ![kind] = @ + 1]
    /\ requests' = requests \cup
         {[n |-> sent'[kind], kind |-> kind, form |-> f, email |-> e, prefs |-> settings',
           at |-> "sent", seen |-> Row, waiting |-> sessions]}
    /\ calm' = [calm EXCEPT ![kind] = UnderWay(kind) = {} /\ (@ \/ ~Announced(kind))]

Reads(r) ==
    /\ r.at = "sent"
    /\ Instead(r, {[r EXCEPT !.at = "read", !.seen = Row]})
    /\ UNCHANGED <<bank, browser, sent, passForm, backupForm, history>>

(* A request that nobody waits for is over once it is decided.             *)
Decided(r, outcome) ==
    Instead(r, IF r.waiting = 0 THEN {} ELSE {[r EXCEPT !.at = outcome]})

UpdatePassword(r) ==
    /\ r.kind = "password" /\ r.at = "read"
    /\ IF r.form.current = r.seen.password /\ r.form.new \notin Short
       THEN password' = r.form.new /\ Decided(r, "ok")
       ELSE password' = password /\ Decided(r, "refused")
    /\ UNCHANGED <<backup, prefs, taken>>

(* The column is unique: an email taken since it was looked for makes the  *)
(* commit fail.                                                            *)
UpdateBackupEmail(r) ==
    /\ r.kind = "backup" /\ r.at = "read"
    /\ IF r.email \notin r.seen.taken \cup taken
       THEN backup' = r.email /\ Decided(r, "ok")
       ELSE backup' = backup /\ Decided(r, "refused")
    /\ UNCHANGED <<password, prefs, taken>>

(* Both columns are assigned, and written if they differ from what was read*)
UpdatePreferences(r) ==
    /\ r.kind = "preferences" /\ r.at = "read"
    /\ prefs' = [c \in DOMAIN prefs |->
                   IF r.prefs[c] # r.seen.prefs[c] THEN r.prefs[c] ELSE prefs[c]]
    /\ Decided(r, "ok")
    /\ UNCHANGED <<password, backup, taken>>

Commits(r) ==
    /\ UpdatePassword(r) \/ UpdateBackupEmail(r) \/ UpdatePreferences(r)
    /\ UNCHANGED <<browser, sent, passForm, backupForm, history>>

OtherTakes ==
    /\ \E e \in Email \ (taken \cup {backup}) : taken' = taken \cup {e}
    /\ UNCHANGED <<password, backup, prefs, browser, requests, sent, passForm, backupForm, history>>

-----------------------------------------------------------------------------
(* The password form.                                                      *)

TypePassword ==
    /\ signedIn
    /\ fields' \in Form \ {fields}
    /\ behind' = (behind \/ dialog = "open")
    /\ UNCHANGED <<bank, browser, requests, sent, dialog, captured, passLoading,
                   passSuccess, passError, backupForm, confirmed, told, calm>>

CanSubmitPassword == signedIn /\ ~passLoading /\ fields # Empty
Valid == fields.new = fields.confirm /\ fields.new \notin Short

HandlePasswordSubmit ==
    /\ CanSubmitPassword
    /\ passSuccess' = FALSE /\ passError' = ~Valid
    /\ dialog' = IF Valid THEN "open" ELSE dialog
    /\ UNCHANGED <<bank, browser, requests, sent, fields, captured, passLoading,
                   backupForm, history>>

Leave(f) == dialog' = "leaving" /\ captured' = f

CancelDialog ==
    /\ signedIn /\ dialog = "open"
    /\ Leave(fields)
    /\ UNCHANGED <<bank, browser, requests, sent, fields, passLoading, passSuccess,
                   passError, backupForm, history>>

DialogGone ==
    /\ dialog = "leaving"
    /\ dialog' = "closed" /\ captured' = Empty
    /\ UNCHANGED <<bank, browser, requests, sent, fields, passLoading, passSuccess,
                   passError, backupForm, history>>

(* "Yes, Change": its button is never disabled.                            *)
HandlePasswordUpdate ==
    /\ signedIn /\ dialog # "closed"
    /\ UNCHANGED browser
    /\ LET f == IF dialog = "open" THEN fields ELSE captured
       IN  /\ Send("password", f, None)
           /\ Leave(f)
           /\ confirmed' = IF f.new = f.confirm THEN confirmed \cup {f.new} ELSE confirmed
    /\ passLoading' = TRUE
    /\ UNCHANGED <<bank, fields, passSuccess, passError, backupForm,
                   behind, told>>

PasswordUpdated(r) ==
    /\ r.kind = "password" /\ r.at = "ok"
    /\ timers' = timers + 1
    /\ IF r.waiting = sessions /\ signedIn
       THEN /\ passSuccess' = TRUE /\ fields' = Empty /\ passLoading' = FALSE
            /\ told' = [told EXCEPT !.password = r.form.new]
       ELSE UNCHANGED <<passSuccess, fields, passLoading, told>>
    /\ Instead(r, {})
    /\ UNCHANGED <<bank, signedIn, sessions, settings, sent, dialog, captured,
                   passError, backupForm, behind, confirmed, calm>>

-----------------------------------------------------------------------------
(* The backup email and the preferences.                                   *)

CanSubmitBackup == signedIn /\ ~backupLoading

HandleBackupUpdate ==
    /\ CanSubmitBackup
    /\ UNCHANGED browser
    /\ \E e \in Email : Send("backup", Empty, e)
    /\ backupLoading' = TRUE /\ backupSuccess' = FALSE /\ backupError' = FALSE
    /\ UNCHANGED <<bank, passForm, behind, confirmed, told>>

BackupUpdated(r) ==
    /\ r.kind = "backup" /\ r.at = "ok"
    /\ IF r.waiting = sessions /\ signedIn
       THEN /\ backupSuccess' = TRUE /\ backupLoading' = FALSE
            /\ told' = [told EXCEPT !.email = r.email]
       ELSE UNCHANGED <<backupSuccess, backupLoading, told>>
    /\ Instead(r, {})
    /\ UNCHANGED <<bank, browser, sent, passForm, backupError, behind, confirmed, calm>>

Toggle == \E s \in DOMAIN settings : settings' = [settings EXCEPT ![s] = ~@]

(* updateSettings: both preferences are sent, whichever was changed.       *)
UpdateSettings ==
    /\ signedIn
    /\ Toggle
    /\ Send("preferences", Empty, None)
    /\ UNCHANGED <<bank, signedIn, sessions, timers, passForm, backupForm,
                   behind, confirmed, told>>

PreferencesUpdated(r) ==
    /\ r.kind = "preferences" /\ r.at = "ok"
    /\ Instead(r, {})
    /\ UNCHANGED <<bank, browser, sent, passForm, backupForm, history>>

-----------------------------------------------------------------------------
(* What every form does with a refusal and with a fetch that fails.        *)

Reported(r) ==
    LET here == r.waiting = sessions /\ signedIn
    IN  /\ passError' = (passError \/ (here /\ r.kind = "password"))
        /\ passLoading' = (passLoading /\ ~(here /\ r.kind = "password"))
        /\ backupError' = (backupError \/ (here /\ r.kind = "backup"))
        /\ backupLoading' = (backupLoading /\ ~(here /\ r.kind = "backup"))
        /\ UNCHANGED <<bank, browser, sent, fields, dialog, captured, passSuccess,
                       backupSuccess, behind, confirmed, told>>

Refused(r) ==
    /\ r.at = "refused"
    /\ Instead(r, {})
    /\ Reported(r) /\ UNCHANGED calm

(* The request is lost, or only its answer; or it is late.                 *)
Fails(r) ==
    /\ r.waiting # 0
    /\ Instead(r, {}) \/ (r.at \in {"sent", "read"} /\ Instead(r, {[r EXCEPT !.waiting = 0]}))
    /\ calm' = [calm EXCEPT ![r.kind] = FALSE]
    /\ Reported(r)

-----------------------------------------------------------------------------
(* The session.                                                            *)

(* logout(), by the page's timer or from the sidebar.                      *)
LogoutTimer ==
    /\ timers > 0
    /\ timers' = timers - 1
    /\ signedIn' = FALSE
    /\ UNCHANGED <<bank, sessions, settings, requests, sent, passForm, backupForm, history>>

(* A new page; the preferences are those of the user read at the login.    *)
LogIn ==
    /\ ~signedIn /\ sessions < MaxSessions
    /\ signedIn' = TRUE /\ sessions' = sessions + 1
    /\ settings' = prefs
    /\ fields' = Empty /\ dialog' = "closed" /\ captured' = Empty
    /\ passLoading' = FALSE /\ passSuccess' = FALSE /\ passError' = FALSE
    /\ backupLoading' = FALSE /\ backupSuccess' = FALSE /\ backupError' = FALSE
    /\ calm' = [calm EXCEPT !["preferences"] = @ /\ UnderWay("preferences") = {}]
    /\ UNCHANGED <<bank, requests, sent, timers, behind, confirmed, told>>

Next ==
    \/ TypePassword \/ HandlePasswordSubmit \/ CancelDialog \/ DialogGone
    \/ HandlePasswordUpdate \/ HandleBackupUpdate \/ UpdateSettings
    \/ \E r \in requests :
         \/ Reads(r) \/ Commits(r) \/ Refused(r) \/ Fails(r)
         \/ PasswordUpdated(r) \/ BackupUpdated(r) \/ PreferencesUpdated(r)
    \/ OtherTakes \/ LogoutTimer \/ LogIn

Spec == Init /\ [][Next]_vars
(* Requests are served and answered, or fail.                              *)
FairSpec ==
    Spec /\ WF_vars(\E r \in requests :
                \/ Reads(r) \/ Commits(r) \/ Refused(r) \/ Fails(r)
                \/ PasswordUpdated(r) \/ BackupUpdated(r) \/ PreferencesUpdated(r))

-----------------------------------------------------------------------------
(* Unless the form was changed behind the dialog, the password stored is   *)
(* one that was typed twice, whichever button was pressed how often while  *)
(* the dialog came and went.                                               *)
ChangeWasConfirmed == behind \/ password = Old \/ password \in confirmed

(* A password or an email that is announced is the one stored, as long as  *)
(* no change was under way with another or without its page.               *)
ToldIsStored ==
    signedIn =>
        /\ passSuccess /\ calm["password"] /\ UnderWay("password") = {}
               => password = told.password
        /\ backupSuccess /\ calm["backup"] => backup = told.email

(* The preferences shown are stored: a save made alone, and answered, ends *)
(* what overlapping and lost ones have left.                               *)
PreferencesKept == calm["preferences"] /\ UnderWay("preferences") = {} => settings = prefs
===============================================================================
