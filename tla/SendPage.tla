------------------------------ MODULE SendPage ------------------------------
(***************************************************************************)
(* The Transfer Center (app/client/send/page.tsx) and the tabs for instant *)
(* transfers, schedules and requests: what is entered and submitted, the   *)
(* refreshes that follow, and the notification.                            *)
(*                                                                         *)
(* Three timers are never cancelled: each success starts three refreshes   *)
(* and one removal of the notification.  The page displays what it fetched *)
(* last, whenever that was read; ClickHouse, which serves the history,     *)
(* lags behind the transfers.                                              *)
(***************************************************************************)
EXTENDS Lists

CONSTANTS Field,          \* of the form: recipient, amount and perhaps note
          InOrder,        \* requests are answered in the order they are made
          MayFail,        \* a refresh may fail, and so may ClickHouse
          MaxTransfers,   \* bound: submissions that are made
          MaxFetches,     \* bound: refreshes under way
          MAX_RETRIES     \* of the API client

Contract == INSTANCE CallContract WITH Call <- {}, Keyed <- {}, Separate <- {},
                                       outcome <- <<>>, executed <- <<>>

Tab == {"instant", "scheduled", "request"}
Unanswered == -1
Emptied == -2

VARIABLES
    activeTab,
    filled,       \* the fields of the form on display that have a value
    submitting,   \* the form's loading flag
    calls,        \* submissions under way: of which tab, form still mounted
    wins,         \* history: successes of the entry the form holds
    \* the backend
    version,      \* transfers made
    indexed,      \* of them, those ClickHouse has
    submitted,    \* history: submissions
    \* the refreshes
    loading,      \* the page's loading flag
    known,        \* the page holds accounts
    fetches,      \* fetchData calls under way
    polls,        \* timers that will call fetchData(true)
    shown,        \* the version the tables show
    \* the notification
    notification, \* "none", "success" or "error"
    clears        \* timers that will remove it

form == <<activeTab, filled, submitting, wins>>
backend == <<version, indexed, submitted>>
refresh == <<loading, known, fetches, polls, shown>>
toast == <<notification, clears>>
vars == <<form, calls, backend, refresh, toast>>

TypeOK ==
    /\ activeTab \in Tab
    /\ filled \subseteq Field
    /\ submitting \in BOOLEAN
    /\ \A c \in ToSet(calls) : c \in [tab : Tab, mounted : BOOLEAN]
    /\ wins \in Nat
    /\ version \in Nat /\ indexed \in 0..version
    /\ submitted \in 0..MaxTransfers
    /\ loading \in BOOLEAN /\ known \in BOOLEAN
    /\ \A f \in ToSet(fetches) : f.silent \in BOOLEAN /\ f.read \in {Unanswered, Emptied} \cup 0..version
    /\ polls \in Nat
    /\ shown \in 0..version
    /\ notification \in {"none", "success", "error"}
    /\ clears \in Nat

(* A deep link may choose the tab; the first fetch is not silent.          *)
Init ==
    /\ activeTab \in Tab
    /\ filled = {}
    /\ submitting = FALSE
    /\ calls = <<>>
    /\ wins = 0
    /\ version = 0 /\ indexed = 0 /\ submitted = 0
    /\ loading = TRUE
    /\ known = FALSE
    /\ fetches = <<[silent |-> FALSE, read |-> Unanswered]>>
    /\ polls = 0
    /\ shown = 0
    /\ notification = "none" /\ clears = 0

-----------------------------------------------------------------------------
(* Refreshes.                                                              *)

(* fetchData: six requests, joined by allSettled.                          *)
FetchData(silent) ==
    /\ Len(fetches) < MaxFetches
    /\ fetches' = Append(fetches, [silent |-> silent, read |-> Unanswered])
    /\ loading' = (loading \/ ~silent)

(* What the history's endpoint finds: all ClickHouse has, or, with a       *)
(* ClickHouse that fails, an empty list and status 200.                    *)
Found == {indexed} \cup (IF MayFail THEN {Emptied} ELSE {})

(* The backend answers: what it knows at this moment is on its way.        *)
FetchRead ==
    \E i \in DOMAIN fetches, found \in Found :
        /\ fetches[i].read = Unanswered
        /\ InOrder => \A j \in 1..(i - 1) : fetches[j].read # Unanswered
        /\ fetches' = [fetches EXCEPT ![i].read = found]
        /\ UNCHANGED <<form, calls, backend, loading, known, polls, shown, toast>>

(* The finally of fetchData.                                               *)
Finished(f) == IF f.silent THEN UNCHANGED loading ELSE loading' = FALSE

Rows(f) == IF f.read = Emptied THEN 0 ELSE f.read

(* Mutant: a failed request empties its table as well.                     *)
ShownAfter_Emptied(f, ok) == IF ok THEN Rows(f) ELSE 0
(* What was fetched is displayed; what failed stays as it was.             *)
ShownAfter(f, ok) == IF ok THEN Rows(f) ELSE shown

(* showNotification                                                        *)
Notify(kind) == notification' = kind /\ clears' = clears + 1

FormGone == loading' /\ ~known'
(* The page without accounts shows a spinner while it loads: the form is   *)
(* unmounted and loses its fields.                                         *)
Gate ==
    IF FormGone
    THEN /\ filled' = {} /\ submitting' = FALSE /\ wins' = 0
         /\ calls' = [i \in DOMAIN calls |-> [calls[i] EXCEPT !.mounted = FALSE]]
         /\ UNCHANGED activeTab
    ELSE UNCHANGED <<form, calls>>

(* Only when everything failed the user is told, unless the refresh is     *)
(* silent.                                                                 *)
FetchDone ==
    \E i \in DOMAIN fetches, ok \in IF MayFail THEN BOOLEAN ELSE {TRUE} :
        /\ InOrder => i = 1
        /\ fetches[i].read # Unanswered
        /\ fetches' = RemoveAt(fetches, i)
        /\ shown' = ShownAfter(fetches[i], ok)
        /\ known' = (known \/ ok)
        /\ Finished(fetches[i])
        /\ IF ok \/ fetches[i].silent THEN UNCHANGED toast ELSE Notify("error")
        /\ Gate
        /\ UNCHANGED <<backend, polls>>

(* Mutant: no refresh while another one is under way.                      *)
PollFires_Skipped ==
    /\ polls > 0
    /\ polls' = polls - 1
    /\ IF fetches = <<>> THEN FetchData(TRUE) ELSE UNCHANGED <<fetches, loading>>
    /\ UNCHANGED <<form, calls, backend, known, shown, toast>>
PollFires ==
    /\ polls > 0
    /\ polls' = polls - 1
    /\ FetchData(TRUE)
    /\ UNCHANGED <<form, calls, backend, known, shown, toast>>

(* The refresh button over the history; the user waits for notifications.  *)
RefreshClicked ==
    /\ clears < MaxFetches
    /\ known \/ ~loading
    /\ FetchData(FALSE)
    /\ known' = known
    /\ Gate
    /\ UNCHANGED <<backend, polls, shown, toast>>

(* ClickHouse catches up.                                                  *)
Index ==
    /\ indexed < version
    /\ indexed' = indexed + 1
    /\ UNCHANGED <<form, calls, version, submitted, refresh, toast>>

ClearFires ==
    /\ clears > 0
    /\ clears' = clears - 1
    /\ notification' = "none"
    /\ UNCHANGED <<form, calls, backend, refresh>>

-----------------------------------------------------------------------------
(* The form.                                                               *)

Visible == known \/ ~loading

(* The tab changes: another form is mounted, the old one is gone.          *)
ChooseTab ==
    /\ Visible
    /\ activeTab' \in Tab \ {activeTab}
    /\ filled' = {} /\ submitting' = FALSE /\ wins' = 0
    /\ calls' = [i \in DOMAIN calls |-> [calls[i] EXCEPT !.mounted = FALSE]]
    /\ UNCHANGED <<backend, refresh, toast>>

(* Pay in the table of requests: another tab and a notification.           *)
OnPay ==
    /\ Visible
    /\ activeTab \in {"request"}
    /\ activeTab' = "instant"
    /\ filled' = {} /\ submitting' = FALSE /\ wins' = 0
    /\ calls' = [i \in DOMAIN calls |-> [calls[i] EXCEPT !.mounted = FALSE]]
    /\ clears < MaxFetches
    /\ Notify("success")
    /\ UNCHANGED <<backend, refresh>>

(* The fields stay editable while a submission is under way.               *)
TypeField ==
    /\ Visible
    /\ \E f \in Field \ filled : filled' = filled \cup {f}
    /\ wins' = 0
    /\ UNCHANGED <<activeTab, submitting, calls, backend, refresh, toast>>

(* The fields a success empties: a schedule has no commentary.             *)
Cleared(tab) ==
    IF tab = "scheduled" THEN {"recipient", "amount"} ELSE Field

HandleSubmit ==
    /\ Visible
    /\ ~submitting
    /\ {"recipient", "amount"} \subseteq filled
    /\ submitted < MaxTransfers
    /\ submitted' = submitted + 1
    /\ submitting' = TRUE
    /\ calls' = Append(calls, [tab |-> activeTab, mounted |-> TRUE])
    /\ UNCHANGED <<activeTab, filled, wins, version, indexed, refresh, toast>>

(* handleTransferSuccess                                                   *)
HandleTransferSuccess == Notify("success") /\ polls' = polls + 3

Carried(ending) ==
    \E n \in Contract!Effects(ending) : version' = version + (IF n > 0 THEN 1 ELSE 0)

SubmitDone ==
    \E i \in DOMAIN calls :
        /\ calls' = RemoveAt(calls, i)
        /\ Carried("data")
        /\ HandleTransferSuccess
        /\ IF calls[i].mounted
           THEN /\ filled' = filled \ Cleared(calls[i].tab)
                /\ submitting' = FALSE
                /\ wins' = wins + 1
           ELSE UNCHANGED <<filled, submitting, wins>>
        /\ UNCHANGED <<activeTab, indexed, submitted, loading, known, fetches, shown>>

SubmitFailed ==
    \E i \in DOMAIN calls, ending \in {"error", "network"} :
        /\ calls' = RemoveAt(calls, i)
        /\ Carried(ending)
        /\ Notify("error")
        /\ submitting' = (submitting /\ ~calls[i].mounted)
        /\ UNCHANGED <<activeTab, filled, wins, indexed, submitted, refresh>>

(* handleCancelScheduled and handleCancelRequest, once they succeed.       *)
Cancelled ==
    /\ known
    /\ activeTab \in {"scheduled", "request"}
    /\ submitted < MaxTransfers
    /\ submitted' = submitted + 1
    /\ version' = version + 1
    /\ Notify("success")
    /\ FetchData(FALSE)
    /\ UNCHANGED <<form, calls, indexed, known, polls, shown>>

Next == \/ FetchRead \/ FetchDone \/ PollFires \/ RefreshClicked
        \/ Index \/ ClearFires
        \/ ChooseTab \/ OnPay \/ TypeField \/ HandleSubmit
        \/ SubmitDone \/ SubmitFailed \/ Cancelled

Spec == Init /\ [][Next]_vars

(* Requests are answered, timers fire, ClickHouse catches up; the user     *)
(* need not do anything.                                                   *)
FairSpec ==
    /\ Spec
    /\ WF_vars(FetchRead) /\ WF_vars(FetchDone) /\ WF_vars(PollFires)
    /\ WF_vars(Index) /\ WF_vars(ClearFires)
    /\ WF_vars(SubmitDone \/ SubmitFailed)

-----------------------------------------------------------------------------
(* What was entered once is reported as sent once: a success leaves a form *)
(* that cannot be submitted again as it is.                                *)
OneSuccessPerEntry == wins <= 1

(* What ClickHouse has when the last refresh of a transfer begins is shown *)
(* in the end.                                                             *)
PollsCatchUp ==
    \A v \in 1..MaxTransfers : (indexed = v /\ polls > 0) ~> (shown >= v)

(* send/page.tsx:114, "Polling background refresh to account for varying   *)
(* ClickHouse eventual consistency delays": with answers in order a later  *)
(* refresh shows no less than an earlier one, unless ClickHouse failed it; *)
(* then it shows nothing, which dashboard.py passes off as an answer.      *)
OnlyFailureGoesBack ==
    [][shown' < shown => /\ shown' = 0
                         /\ \E i \in DOMAIN fetches : /\ fetches[i].read = Emptied
                                                      /\ fetches' = RemoveAt(fetches, i)]_vars
=============================================================================
