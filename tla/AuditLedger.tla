----------------------------- MODULE AuditLedger -----------------------------
(***************************************************************************)
(* The administrators' ledger of all transactions                          *)
(* (components/admin/BankingDashboard.tsx), the figures above it, which    *)
(* app/admin/page.tsx polls, and the routes of both in                     *)
(* backend/services/admin_service.py.                                      *)
(*                                                                         *)
(* The list's query for ClickHouse has parameters in a notation the driver *)
(* does not bind (:days, :search): it fails, and the list is read from     *)
(* Postgres, the newest transactions whatever the filter.  The page keeps  *)
(* the list of any answer that comes, and invents figures when it gets     *)
(* none.                                                                   *)
(***************************************************************************)
EXTENDS Lists

CONSTANTS Days,        \* the timeframes
          Search,      \* what is typed as a search, "none" among it
          limit,       \* transactions per answer
          InOrder,     \* answers to the list's fetches come in their order
          Faults,      \* fetches may fail, and the token may be gone
          MaxRecords, MaxFetches, MaxCopies  \* bounds

VARIABLES
    records,      \* transactions in Postgres, numbered by their age
    token,        \* there is one in localStorage
    selectedTimeframe, searchQuery,
    fetches,      \* of the list, under way
    made,         \* how many there were
    transactions, \* the list, and what it was fetched for
    txLoading,
    metrics,      \* the figures: not yet there, fetched, or invented
    polling,      \* figures are being fetched
    inspectTx,    \* the transaction in the inspector, or NoTx
    copiedKey, timers

listed == <<selectedTimeframe, searchQuery, fetches, made, transactions, txLoading>>
figures == <<metrics, polling>>
inspector == <<inspectTx, copiedKey, timers>>
vars == <<records, token, listed, figures, inspector>>

NoTx == 0
Invented == -1
Newest(n) == {r \in 1..n : r > n - limit}

TypeOK ==
    /\ records \in 0..MaxRecords /\ token \in BOOLEAN
    /\ selectedTimeframe \in Days /\ searchQuery \in Search
    /\ made \in 0..MaxFetches /\ Len(fetches) <= made
    /\ transactions.rows \subseteq 1..records
    /\ txLoading => fetches # <<>>
    /\ metrics \in {"none", "fetched", "invented"} /\ polling \in BOOLEAN
    /\ inspectTx \in {NoTx, Invented} \cup 1..records
    /\ copiedKey \in BOOLEAN /\ timers \in 0..MaxCopies
    /\ copiedKey => timers > 0

Asked(d, s) == [days |-> d, search |-> s]
Unread == {NoTx}

Init ==
    /\ records = 0 /\ token = TRUE
    /\ selectedTimeframe \in Days /\ searchQuery = "none"
    /\ fetches = <<[filter |-> Asked(selectedTimeframe, "none"), rows |-> Unread]>>
    /\ made = 1 /\ txLoading = TRUE
    /\ transactions = [filter |-> Asked(selectedTimeframe, "none"), rows |-> {}]
    /\ metrics = "none" /\ polling = TRUE
    /\ inspectTx = NoTx /\ copiedKey = FALSE /\ timers = 0

Rendered == metrics # "none"

-----------------------------------------------------------------------------
(* The list.                                                               *)

(* Without a token nothing is fetched.                                     *)
FetchBankTransactions ==
    /\ made < MaxFetches
    /\ IF token
       THEN /\ made' = made + 1 /\ txLoading' = TRUE
            /\ fetches' = Append(fetches, [filter |-> Asked(selectedTimeframe', searchQuery),
                                           rows |-> Unread])
       ELSE made' = made /\ txLoading' = FALSE /\ fetches' = fetches
    /\ UNCHANGED <<records, token, transactions, figures, inspector>>

(* The effect of a change of the timeframe; the search that is typed and   *)
(* not submitted goes along.                                               *)
SelectTimeframe ==
    /\ Rendered
    /\ selectedTimeframe' \in Days \ {selectedTimeframe}
    /\ UNCHANGED searchQuery
    /\ FetchBankTransactions

TypeSearch ==
    /\ Rendered
    /\ searchQuery' \in Search \ {searchQuery}
    /\ UNCHANGED <<records, token, selectedTimeframe, fetches, made, transactions,
                   txLoading, figures, inspector>>

HandleSearchSubmit ==
    /\ Rendered /\ ~txLoading
    /\ UNCHANGED <<selectedTimeframe, searchQuery>>
    /\ FetchBankTransactions

GetAllTransactions(i) ==
    /\ fetches[i].rows = Unread
    /\ fetches' = [fetches EXCEPT ![i].rows = Newest(records)]
    /\ UNCHANGED <<records, token, selectedTimeframe, searchQuery, made,
                   transactions, txLoading, figures, inspector>>

Answered(i) ==
    /\ InOrder => i = 1
    /\ fetches' = RemoveAt(fetches, i)
    /\ txLoading' = FALSE
    /\ UNCHANGED <<records, token, selectedTimeframe, searchQuery, made, figures, inspector>>

Succeeds(i) ==
    /\ fetches[i].rows # Unread
    /\ transactions' = fetches[i]
    /\ Answered(i)

Fails(i) == Faults /\ UNCHANGED transactions /\ Answered(i)

-----------------------------------------------------------------------------
(* The figures, every 30 s; one call of them is under way at a time.       *)

Poll ==
    /\ ~polling /\ polling' = TRUE
    /\ UNCHANGED <<records, token, listed, metrics, inspector>>

LoadBankingMetrics ==
    /\ polling /\ polling' = FALSE
    /\ metrics' = "fetched" \/ (Faults /\ metrics' = "invented")
    /\ UNCHANGED <<records, token, listed, inspector>>

-----------------------------------------------------------------------------
(* The inspector, opened from the list or from the most valuable           *)
(* transactions, which may be invented.                                    *)
Inspect ==
    /\ Rendered /\ inspectTx = NoTx
    /\ inspectTx' \in transactions.rows
                        \cup (IF metrics = "invented" THEN {Invented} ELSE 1..records)
    /\ UNCHANGED <<records, token, listed, figures, copiedKey, timers>>

Close ==
    /\ inspectTx # NoTx /\ inspectTx' = NoTx
    /\ UNCHANGED <<records, token, listed, figures, copiedKey, timers>>

HandleCopy ==
    /\ inspectTx # NoTx /\ timers < MaxCopies
    /\ copiedKey' = TRUE /\ timers' = timers + 1
    /\ UNCHANGED <<records, token, listed, figures, inspectTx>>

(* No timer is cleared by another copy.                                    *)
CopyTimer ==
    /\ timers > 0
    /\ timers' = timers - 1 /\ copiedKey' = FALSE
    /\ UNCHANGED <<records, token, listed, figures, inspectTx>>

-----------------------------------------------------------------------------
Booked ==
    /\ records < MaxRecords /\ records' = records + 1
    /\ UNCHANGED <<token, listed, figures, inspector>>

LogoutElsewhere ==
    /\ Faults /\ token /\ token' = FALSE
    /\ UNCHANGED <<records, listed, figures, inspector>>

Next ==
    \/ SelectTimeframe \/ TypeSearch \/ HandleSearchSubmit
    \/ \E i \in DOMAIN fetches : GetAllTransactions(i) \/ Succeeds(i) \/ Fails(i)
    \/ Poll \/ LoadBankingMetrics
    \/ Inspect \/ Close \/ HandleCopy \/ CopyTimer
    \/ Booked \/ LogoutElsewhere

Spec == Init /\ [][Next]_vars
(* Fetches end and timers fire.                                            *)
FairSpec == Spec /\ WF_vars(CopyTimer)
            /\ WF_vars(\E i \in DOMAIN fetches : GetAllTransactions(i) \/ Succeeds(i) \/ Fails(i))

-----------------------------------------------------------------------------
(* When nothing is under way and the answers came in order, the list was   *)
(* fetched for the timeframe that is highlighted.                          *)
ShownForTimeframe == fetches = <<>> => transactions.filter.days = selectedTimeframe
==============================================================================
