------------------------------ MODULE CustomerScreens -------------------------
(* The screens around a customer: signing in and staying signed in, the    *)
(* captcha, contacts, cards, deposits, scheduled payments and requests,    *)
(* and the administrator's registry of users.  A behaviour is a visit to   *)
(* one of them; the state of the others is Nothing.                        *)
EXTENDS Integers, Sequences, FiniteSets, TLC

CONSTANTS
    Nothing,   \* no date, no request; a screen that is not visited
    \* Session
    Tab, ACCESS_TOKEN_EXPIRE_MINUTES, WARNING_THRESHOLDS_MINUTES, IsAdmin,
    MaxTokens, MaxClock,
    \* CaptchaForm
    maxRetries, MaxChallenges,
    \* AddressBook
    Payee, MaxIds, MaxCalls,
    \* UserRegistry, for who erases and for who turns pages
    Erasable, MaskOf, Subscribers, Matching, PageSize, MaxSearches, MaxErasures,
    PagedUser, PagedMaskOf, PagedMatching, PagedPageSize, MaxReads,
    \* Cards, for several tabs and for the preview in one
    CardTab, MaxCard, Limits, HideAfter, PreviewTab, PreviewLimits, MaxReveals,
    \* DepositFlow
    Amounts, RefusedAmount, MAX_RETRIES, MaxDialogs, MaxPresses,
    \* ScheduledPayments, over few days and over more
    Payment, Period, Target, Opening, NullKeyAllowed, MaxCrashes, PaymentKind,
    ApiChoice, LastDay, MaxRequests, LongKind, LongFormChoice, LongLastDay,
    \* ProfilePage
    Form, ShortPassword, Old, Email, MaxChanges, MaxBackups, MaxSaves,
    MaxSessions,
    \* PaymentRequests
    RequestId, Attempt, RequestOpening

ASSUME SessionConstants ==
    /\ ACCESS_TOKEN_EXPIRE_MINUTES \in Nat \ {0}
    /\ WARNING_THRESHOLDS_MINUTES \subseteq Nat \ {0}
    /\ IsAdmin \in BOOLEAN
    /\ MaxTokens \in Nat /\ MaxClock \in Nat

ASSUME CaptchaConstants == maxRetries \in Nat /\ MaxChallenges \in Nat

ASSUME BookConstants ==
    /\ MaxIds \in Nat \ {0} /\ MaxCalls \in Nat
    /\ Payee \subseteq Nat \ {0} /\ \E p \in Payee : \A q \in Payee : p <= q

ASSUME PagesConstants == IsFiniteSet(PagedUser) /\ PagedPageSize \in Nat \ {0}

ASSUME RegistryConstants ==
    /\ IsFiniteSet(Erasable) /\ PageSize \in Nat \ {0}
    /\ MaxSearches \in Nat /\ MaxErasures \in Nat /\ MaxReads \in Nat

ASSUME CardsConstants == MaxCard \in Nat /\ HideAfter \in Nat

(* The physical cards have numbers, and every card starts with "low".      *)
ASSUME CardsThere == MaxCard >= 2 /\ "low" \in Limits \cap PreviewLimits

ASSUME DepositConstants ==
    MaxDialogs \in Nat /\ MaxPresses \in Nat /\ MAX_RETRIES \in Nat

ASSUME ProfileConstants ==
    /\ Old \notin ShortPassword /\ MaxSessions \in Nat \ {0}
    /\ MaxChanges \in Nat /\ MaxBackups \in Nat /\ MaxSaves \in Nat

VARIABLES
    screen, \* the one visited
    \* Session
    sessionClock, expiry, stored, page, token, user, warning, sessionTimers,
    sessionSent, answer,
    \* CaptchaForm
    isProduction, script, challenge, retryCount, issued, captchaToken, form,
    spent,
    \* AddressBook
    book, bookNextId, contacts, metadata, editing, actionLoading, calls,
    bookSent, alone,
    \* UserRegistry
    accounts, history, users, searchTerm, currentPage, foundUser, deleteStep,
    confirmEmail, deleteLoading, deleteSuccess, searching, erasures, reads,
    made,
    \* Cards
    saved, cardsNextId, cardsList, cardStates, selectedCardId,
    confirmDeleteCardId, isFrozen, showDetails, cardsTimers, shownFor, reveals,
    \* DepositFlow
    isOpen, amount, loadingPage, depositDialog,
    clientSecret, loading, initError, depositStatus, inits, deposits,
    depositTimers, presses, intents, credits, topupKey, confirmKey,
    confirmations, doubted,
    \* ScheduledPayments
    scheduledClock, row, asked, scheduledBalance, booked, scheduledRequests,
    overtaken, cancelling, worker, paid, crashes,
    \* ProfilePage
    password, backup, prefs, taken, signedIn, sessions, settings,
    profileRequests, profileSent, profileTimers, fields, profileDialog,
    captured, passLoading, passSuccess, passError, backupLoading,
    backupSuccess, backupError, behind, confirmed, told, calm,
    \* PaymentRequests
    requestStatus, requestBalance, moved, lock, attempt, overlapped, shown

Session == INSTANCE Session WITH
    clock <- sessionClock, timers <- sessionTimers, sent <- sessionSent

Captcha == INSTANCE CaptchaForm WITH MaxTokens <- MaxChallenges

Contacts == INSTANCE AddressBook WITH nextId <- bookNextId, sent <- bookSent

Users == INSTANCE UserRegistry WITH User <- Erasable, MaxReads <- 0
UserPages == INSTANCE UserRegistry WITH
    User <- PagedUser, MaskOf <- PagedMaskOf, Subscribers <- {},
    Matching <- PagedMatching, PageSize <- PagedPageSize, MaxSearches <- 0,
    MaxErasures <- 0

Cards == INSTANCE Cards WITH
    Tab <- CardTab, MaxReveals <- 0, nextId <- cardsNextId,
    timers <- cardsTimers
Preview == INSTANCE Cards WITH
    Tab <- PreviewTab, Limits <- PreviewLimits, nextId <- cardsNextId,
    timers <- cardsTimers

Deposit == INSTANCE DepositFlow WITH
    Refused <- RefusedAmount, Patient <- FALSE, dialog <- depositDialog,
    status <- depositStatus, timers <- depositTimers
DepositPatient == INSTANCE DepositFlow WITH
    Refused <- RefusedAmount, Patient <- TRUE, dialog <- depositDialog,
    status <- depositStatus, timers <- depositTimers

Scheduled == INSTANCE ScheduledPayments WITH
    Never <- Nothing, Kind <- PaymentKind, FormChoice <- {},
    clock <- scheduledClock,
    balance <- scheduledBalance, requests <- scheduledRequests
ScheduledLong == INSTANCE ScheduledPayments WITH
    Never <- Nothing, Kind <- LongKind, FormChoice <- LongFormChoice,
    LastDay <- LongLastDay, MaxRequests <- 0, clock <- scheduledClock,
    balance <- scheduledBalance, requests <- scheduledRequests

ASSUME ScheduledConstants ==
    /\ Period \in [DOMAIN Period -> Nat \ {0}] /\ Target \subseteq Nat
    /\ LastDay \in Nat /\ LongLastDay \in Nat
    /\ MaxRequests \in Nat /\ MaxCrashes \in Nat /\ Opening \in Int
    /\ Nothing \notin Int /\ Nothing \notin Scheduled!Row

(* The profile page with requests of one of its forms.                     *)
Bounds(p, b, s) == [password |-> p, backup |-> b, preferences |-> s]
Profile == INSTANCE ProfilePage WITH
    Short <- ShortPassword, Email <- {}, Most <- Bounds(MaxChanges, 0, 0),
    requests <- profileRequests, sent <- profileSent, timers <- profileTimers,
    dialog <- profileDialog
Backup == INSTANCE ProfilePage WITH
    Short <- ShortPassword, Form <- {}, Most <- Bounds(0, MaxBackups, 0),
    MaxSessions <- 1, requests <- profileRequests, sent <- profileSent,
    timers <- profileTimers, dialog <- profileDialog
Preferences == INSTANCE ProfilePage WITH
    Short <- ShortPassword, Form <- {}, Email <- {},
    Most <- Bounds(0, 0, MaxSaves), MaxSessions <- 1,
    requests <- profileRequests, sent <- profileSent,
    timers <- profileTimers, dialog <- profileDialog

Requests == INSTANCE PaymentRequests WITH
    Request <- RequestId, Opening <- RequestOpening, Absent <- Nothing,
    status <- requestStatus, balance <- requestBalance

ASSUME RequestConstants ==
    /\ RequestOpening \in Nat
    /\ Nothing \notin Requests!Status /\ Nothing \notin Requests!Call

sessionVars == <<sessionClock, expiry, stored, page, token, user, warning,
                 sessionTimers, sessionSent, answer>>
captchaVars == <<isProduction, script, challenge, retryCount, issued,
                 captchaToken, form, spent>>
bookVars == <<book, bookNextId, contacts, metadata, editing, actionLoading,
              calls, bookSent, alone>>
registryVars == <<accounts, history, users, searchTerm, currentPage, foundUser,
                  deleteStep, confirmEmail, deleteLoading, deleteSuccess,
                  searching, erasures, reads, made>>
cardsVars == <<saved, cardsNextId, cardsList, cardStates, selectedCardId,
               confirmDeleteCardId, isFrozen, showDetails, cardsTimers,
               shownFor, reveals>>
depositVars == <<isOpen, amount, loadingPage, depositDialog, clientSecret, loading, initError,
                 depositStatus, inits, deposits, depositTimers, presses,
                 intents, credits, topupKey, confirmKey, confirmations,
                 doubted>>
scheduledVars == <<scheduledClock, row, asked, scheduledBalance, booked,
                   scheduledRequests, overtaken, cancelling, worker, paid,
                   crashes>>
profileVars == <<password, backup, prefs, taken, signedIn, sessions, settings,
                 profileRequests, profileSent, profileTimers, fields,
                 profileDialog, captured, passLoading, passSuccess, passError,
                 backupLoading, backupSuccess, backupError, behind, confirmed,
                 told, calm>>
requestVars == <<requestStatus, requestBalance, moved, lock, attempt,
                 overlapped, shown>>
visitVars == <<screen, sessionVars, captchaVars, bookVars, registryVars, cardsVars, depositVars, scheduledVars, profileVars, requestVars>>

At(s) == screen = s

NoSession ==
    /\ sessionClock = Nothing /\ expiry = Nothing /\ stored = Nothing
    /\ page = Nothing /\ token = Nothing /\ user = Nothing /\ warning = Nothing
    /\ sessionTimers = Nothing /\ sessionSent = Nothing /\ answer = Nothing
NoCaptchaForm ==
    /\ isProduction = Nothing /\ script = Nothing /\ challenge = Nothing
    /\ retryCount = Nothing /\ issued = Nothing /\ captchaToken = Nothing
    /\ form = Nothing /\ spent = Nothing
NoAddressBook ==
    /\ book = Nothing /\ bookNextId = Nothing /\ contacts = Nothing
    /\ metadata = Nothing /\ editing = Nothing /\ actionLoading = Nothing
    /\ calls = Nothing /\ bookSent = Nothing /\ alone = Nothing
NoUserRegistry ==
    /\ accounts = Nothing /\ history = Nothing /\ users = Nothing
    /\ searchTerm = Nothing /\ currentPage = Nothing /\ foundUser = Nothing
    /\ deleteStep = Nothing /\ confirmEmail = Nothing
    /\ deleteLoading = Nothing /\ deleteSuccess = Nothing
    /\ searching = Nothing /\ erasures = Nothing /\ reads = Nothing
    /\ made = Nothing
NoCards ==
    /\ saved = Nothing /\ cardsNextId = Nothing /\ cardsList = Nothing
    /\ cardStates = Nothing /\ selectedCardId = Nothing
    /\ confirmDeleteCardId = Nothing /\ isFrozen = Nothing
    /\ showDetails = Nothing /\ cardsTimers = Nothing /\ shownFor = Nothing
    /\ reveals = Nothing
NoDepositFlow ==
    /\ isOpen = Nothing /\ amount = Nothing /\ loadingPage = Nothing
    /\ depositDialog = Nothing /\ clientSecret = Nothing /\ loading = Nothing
    /\ initError = Nothing /\ depositStatus = Nothing /\ inits = Nothing
    /\ deposits = Nothing /\ depositTimers = Nothing /\ presses = Nothing
    /\ intents = Nothing /\ credits = Nothing /\ topupKey = Nothing
    /\ confirmKey = Nothing /\ confirmations = Nothing /\ doubted = Nothing
NoScheduledPayments ==
    /\ scheduledClock = Nothing /\ row = Nothing /\ asked = Nothing
    /\ scheduledBalance = Nothing /\ booked = Nothing
    /\ scheduledRequests = Nothing /\ overtaken = Nothing
    /\ cancelling = Nothing /\ worker = Nothing /\ paid = Nothing
    /\ crashes = Nothing
NoProfilePage ==
    /\ password = Nothing /\ backup = Nothing /\ prefs = Nothing
    /\ taken = Nothing /\ signedIn = Nothing /\ sessions = Nothing
    /\ settings = Nothing /\ profileRequests = Nothing /\ profileSent = Nothing
    /\ profileTimers = Nothing /\ fields = Nothing /\ profileDialog = Nothing
    /\ captured = Nothing /\ passLoading = Nothing /\ passSuccess = Nothing
    /\ passError = Nothing /\ backupLoading = Nothing
    /\ backupSuccess = Nothing /\ backupError = Nothing /\ behind = Nothing
    /\ confirmed = Nothing /\ told = Nothing /\ calm = Nothing
NoPaymentRequests ==
    /\ requestStatus = Nothing /\ requestBalance = Nothing /\ moved = Nothing
    /\ lock = Nothing /\ attempt = Nothing /\ overlapped = Nothing
    /\ shown = Nothing

VisitInit ==
    /\ screen \in {"session", "captcha", "contacts", "users", "pages",
                   "cards", "preview", "deposit", "patient",
                   "scheduled", "longer", "profile",
                   "backup", "preferences", "requests"}
    /\ IF At("session") THEN Session!Init ELSE NoSession
    /\ IF At("captcha") THEN Captcha!Init ELSE NoCaptchaForm
    /\ IF At("contacts") THEN Contacts!Init ELSE NoAddressBook
    /\ IF At("users") THEN Users!Init
       ELSE IF At("pages") THEN UserPages!Init ELSE NoUserRegistry
    /\ IF At("cards") THEN Cards!Init
       ELSE IF At("preview") THEN Preview!Init ELSE NoCards
    /\ IF At("deposit") THEN Deposit!Init
       ELSE IF At("patient") THEN DepositPatient!Init ELSE NoDepositFlow
    /\ IF At("scheduled") THEN Scheduled!Init
       ELSE IF At("longer") THEN ScheduledLong!Init ELSE NoScheduledPayments
    /\ IF At("profile") THEN Profile!Init
       ELSE IF At("backup") THEN Backup!Init
       ELSE IF At("preferences") THEN Preferences!Init ELSE NoProfilePage
    /\ IF At("requests") THEN Requests!Init ELSE NoPaymentRequests

VisitNext ==
    /\ UNCHANGED screen
    /\ IF At("session") THEN Session!Next ELSE UNCHANGED sessionVars
    /\ IF At("captcha") THEN Captcha!Next ELSE UNCHANGED captchaVars
    /\ IF At("contacts") THEN Contacts!Next ELSE UNCHANGED bookVars
    /\ IF At("users") THEN Users!Next
       ELSE IF At("pages") THEN UserPages!Next ELSE UNCHANGED registryVars
    /\ IF At("cards") THEN Cards!Next
       ELSE IF At("preview") THEN Preview!Next ELSE UNCHANGED cardsVars
    /\ IF At("deposit") THEN Deposit!Next
       ELSE IF At("patient") THEN DepositPatient!Next ELSE UNCHANGED depositVars
    /\ IF At("scheduled") THEN Scheduled!Next
       ELSE IF At("longer") THEN ScheduledLong!Next ELSE UNCHANGED scheduledVars
    /\ IF At("profile") THEN Profile!Next
       ELSE IF At("backup") THEN Backup!Next
       ELSE IF At("preferences") THEN Preferences!Next ELSE UNCHANGED profileVars
    /\ IF At("requests") THEN Requests!Next ELSE UNCHANGED requestVars

VisitSpec == VisitInit /\ [][VisitNext]_visitVars

(* The fairness of every screen is that of its own specification.          *)
FairVisits ==
    /\ VisitSpec
    /\ \A t \in Tab :
        /\ WF_sessionVars(At("session") /\ Session!Mount(t))
        /\ WF_sessionVars(At("session") /\ Session!FetchUser(t))
        /\ WF_sessionVars(At("session") /\ Session!Login(t))
        /\ WF_sessionVars(At("session") /\ Session!Logout(t))
        /\ WF_sessionVars(At("session") /\ Session!RenewSession(t))
        /\ WF_sessionVars(At("session") /\ Session!ExpiryTimer(t))
        /\ \A c \in Session!Call : WF_sessionVars(At("session") /\ Session!Serve(t, c))
    /\ WF_captchaVars(At("captcha") /\ Captcha!SkipChallenge)
    /\ WF_captchaVars(At("captcha") /\ Captcha!RenderTurnstile)
    /\ WF_captchaVars(/\ At("captcha")
                      /\ \/ Captcha!Verify
                         \/ Captcha!ChallengeFails /\ captchaToken = Captcha!null)
    /\ WF_captchaVars(At("captcha") /\ (Captcha!Accepted \/ Captcha!NotAccepted))
    /\ WF_bookVars(/\ At("contacts")
                   /\ \E r \in calls : Contacts!Serve(r) \/ Contacts!Lost(r))
    /\ WF_bookVars(/\ At("contacts")
                   /\ \E r \in calls : Contacts!OtherAnswered(r) \/ Contacts!Answered(r))
    /\ WF_registryVars(At("users") /\ Users!ComplianceDeleteUser)
    /\ WF_registryVars(At("users") /\ Users!DeletionAnswered)
    /\ WF_depositVars(At("deposit") /\ Deposit!IntentAnswered)
    /\ WF_depositVars(At("deposit") /\ (Deposit!DepositStep \/ Deposit!DepositEnds))
    /\ WF_depositVars(At("deposit") /\ Deposit!TimerFires)
    /\ WF_scheduledVars(At("longer") /\ ScheduledLong!Cycle)
    /\ WF_profileVars(/\ At("profile")
                      /\ \E r \in profileRequests :
                           \/ Profile!Reads(r) \/ Profile!Commits(r)
                           \/ Profile!Refused(r) \/ Profile!Fails(r)
                           \/ Profile!PasswordUpdated(r))
    /\ \A a \in Attempt :
          WF_requestVars(/\ At("requests")
                         /\ \/ Requests!FetchAccounts(a)
                            \/ Requests!LockAccounts(a) \/ Requests!Pay(a)
                            \/ Requests!Refuse(a) \/ Requests!DeclineCommits(a))

-----------------------------------------------------------------------------
(* Every screen keeps its types.                                           *)
TypesOK ==
    /\ At("session") => Session!TypeOK
    /\ At("captcha") => Captcha!TypeOK
    /\ At("contacts") => Contacts!TypeOK
    /\ At("users") => Users!TypeOK
    /\ At("pages") => UserPages!TypeOK
    /\ At("cards") => Cards!TypeOK
    /\ At("preview") => Preview!TypeOK
    /\ At("deposit") => Deposit!TypeOK
    /\ At("patient") => DepositPatient!TypeOK
    /\ At("scheduled") => Scheduled!TypeOK
    /\ At("longer") => ScheduledLong!TypeOK
    /\ At("profile") => Profile!TypeOK
    /\ At("backup") => Backup!TypeOK
    /\ At("preferences") => Preferences!TypeOK
    /\ At("requests") => Requests!TypeOK

(* A warning speaks of the token there is, a token that still lives will   *)
(* sign its tab out, and no tab shows the pages of an administrator to a   *)
(* user it does not know, through any renewals and logins.                 *)
SessionIsGuarded ==
    At("session") =>
        Session!WarningIsTrue /\ Session!LogoutIsArmed /\ Session!GateKnowsTheUser

(* What must happen once happens once: a captcha token is submitted once,  *)
(* contacts change one at a time, an intent is credited once, or twice if  *)
(* a confirmation died halfway or overlapped another, a scheduled payment  *)
(* is made once a period and no more often than asked for, and a request   *)
(* is paid once as long as no two calls have it in hand.                   *)
OnceOnly ==
    /\ At("captcha") => Captcha!TokensAreSpentOnce
    /\ At("contacts") => Contacts!OneAtATime
    /\ At("deposit") => Deposit!CreditedTwice
    /\ At("scheduled") => Scheduled!MadeOncePerPeriod /\ Scheduled!TargetIsKept
    /\ At("longer") => ScheduledLong!MadeOncePerPeriod /\ ScheduledLong!TargetIsKept
    /\ At("requests") => Requests!PaidOnceAlone

(* What is marked as paid or announced as deposited has been moved, and    *)
(* the worker's account has paid for the payments that were made.          *)
BooksKept ==
    /\ At("deposit") => Deposit!AnnouncedIsFinal
    /\ At("scheduled") => Scheduled!BooksBalance /\ Scheduled!UnbookedNeedsCrash
    /\ At("requests") => Requests!PaidIsMoved

(* A screen agrees with what it acts upon: the contacts are the book's,    *)
(* the user erased is the one whose email was typed, a card deleted the    *)
(* one displayed, and a deposit, by a customer who waits, of the amount on *)
(* the button; a password stored was typed twice, and what the profile     *)
(* shows as stored is.                                                     *)
ScreensAgree ==
    /\ At("contacts") => Contacts!NeverIncomplete /\ Contacts!ShowsTheBook
    /\ At("users") => Users!ErasedWasTyped /\ Users!AnnouncedIsGone
    /\ At("pages") => UserPages!WindowUsable
    /\ At("cards") => Cards!CopiesAgree /\ Cards!AskedAboutShown /\ Cards!PhysicalCardsStay
    /\ At("preview") => Preview!CopiesAgree /\ Preview!HiddenInTime
    /\ At("patient") =>
          DepositPatient!DepositsWhatIsShown /\ DepositPatient!SuccessOfThisDialog
    /\ At("profile") => Profile!ChangeWasConfirmed /\ Profile!ToldIsStored
    /\ At("backup") => Backup!ToldIsStored
    /\ At("preferences") => Preferences!PreferencesKept

(* Nothing waits for ever: a tab with a token that has expired, a form for *)
(* its captcha, a button for the answer, a due payment for the worker, a   *)
(* call for the locked accounts.                                           *)
Waiting ==
    \/ At("session") /\ \E t \in Tab : token[t] # 0 /\ ~Session!Live(token[t])
    \/ At("captcha")
    \/ At("contacts") /\ actionLoading
    \/ At("users") /\ deleteLoading
    \/ At("deposit") /\ loading
    \/ At("longer") /\ \E p \in Payment : ScheduledLong!Waits(p)
    \/ At("profile") /\ passLoading
    \/ At("requests") /\ \E r \in RequestId : Requests!InHand(r) # {}
Served ==
    \/ At("session") /\ \A t \in Tab : token[t] = 0 \/ Session!Live(token[t])
    \/ At("captcha") /\ (captchaToken # Captcha!null \/ form = "left")
    \/ At("contacts") /\ ~actionLoading
    \/ At("users") /\ ~deleteLoading
    \/ At("deposit") /\ ~loading
    \/ At("longer") /\ \A p \in Payment : ~ScheduledLong!Waits(p)
    \/ At("profile") /\ (~passLoading \/ ~signedIn)
    \/ At("requests") /\ \A r \in RequestId : Requests!InHand(r) = {}
EverythingEnds == Waiting ~> Served
===============================================================================
