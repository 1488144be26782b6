---------------------------- MODULE AccountPage ----------------------------
(***************************************************************************)
(* The page of one account, app/client/accounts/[id]/page.tsx, with the    *)
(* hook that keeps the balances on display current (useBalance of          *)
(* hooks/useDashboard.ts), on top of the internal transfer and the         *)
(* transaction query of the bank.                                          *)
(*                                                                         *)
(* A read of the balances sees one moment; the answers come in any order.  *)
(* The history is of what ClickHouse has, which an internal transfer       *)
(* reaches with the next check of sync_checker.py; a ClickHouse that fails *)
(* is answered with an empty list.  The page calls fetch itself: a request *)
(* is sent once and has no key, but may be carried out after the page gave *)
(* it up.                                                                  *)
(***************************************************************************)
EXTENDS Lists

CONSTANTS accountId,    \* of the page: "main" or "sub"
          Opening,      \* both accounts' balance, at first
          MaxTransfers, MaxReads \* bounds

Accounts == {"main", "sub"}
VARIABLES
    \* the bank
    balance, rows, unreported, \* rows: the account of each transaction in ClickHouse
    delayed,      \* requests given up that are on their way: from, to, how many
    \* useBalance
    accounts,     \* the balances displayed, or Unknown
    refetching,
    reads,        \* calls under way: [done, value]
    \* the page
    history, txLoading, historyAsked,
    showTransfer, transferType, transferError, transferLoading,
    transfer,     \* the one under way
    transfers,    \* how many there were
    isIdVisible, fullCredentials, credentialsLoading

bank == <<balance, rows, unreported, delayed>>
hook == <<accounts, refetching, reads>>
past == <<history, txLoading, historyAsked>>
form == <<showTransfer, transferType, transferError, transferLoading, transfer, transfers>>
creds == <<isIdVisible, fullCredentials, credentialsLoading>>
vars == <<bank, hook, past, form, creds>>

Unknown == [a \in Accounts |-> -1]
NoTransfer == [from |-> "main", to |-> "main", stage |-> "none"]

TypeOK ==
    /\ balance \in [Accounts -> Nat]
    /\ ToSet(rows) \cup ToSet(unreported) \cup ToSet(history) \subseteq Accounts
    /\ delayed \in [Accounts \X Accounts -> Nat]
    /\ accounts \in [Accounts -> Nat] \cup {Unknown}
    /\ \A i \in DOMAIN reads : reads[i] \in [Accounts -> Nat] \cup {Unknown}
    /\ refetching \in BOOLEAN /\ Len(reads) <= MaxReads + MaxTransfers
    /\ txLoading \in BOOLEAN /\ historyAsked \in BOOLEAN
    /\ showTransfer \in BOOLEAN /\ transferType \in {"add", "withdraw"}
    /\ transferError \in BOOLEAN
    /\ transferLoading <=> transfer # NoTransfer
    /\ transfer \in [from : Accounts, to : Accounts, stage : {"none", "sent", "moved", "refused", "reload"}]
    /\ transfers \in 0..MaxTransfers
    /\ isIdVisible \in BOOLEAN /\ fullCredentials \in BOOLEAN /\ credentialsLoading \in BOOLEAN
    /\ isIdVisible => fullCredentials

Init ==
    /\ balance = [a \in Accounts |-> Opening]
    /\ rows = <<"main">> /\ unreported = <<>>
    /\ delayed = [t \in Accounts \X Accounts |-> 0]
    /\ accounts = Unknown /\ refetching = FALSE /\ reads = <<Unknown>>
    /\ history = <<>> /\ txLoading = TRUE /\ historyAsked = TRUE
    /\ showTransfer = FALSE /\ transferType = "add" /\ transferError = FALSE
    /\ transferLoading = FALSE /\ transfer = NoTransfer /\ transfers = 0
    /\ isIdVisible = FALSE /\ fullCredentials = FALSE /\ credentialsLoading = FALSE

Loaded == accounts # Unknown

-----------------------------------------------------------------------------
(* useBalance.                                                             *)

(* Mutant: the interval is not kept once the balances are there.           *)
PollDue_Once == ~Loaded
PollDue == TRUE

(* Every minute, and on a balanceUpdate event.                             *)
Poll ==
    /\ PollDue
    /\ Len(reads) < MaxReads
    /\ reads' = Append(reads, Unknown)
    /\ refetching' = TRUE
    /\ UNCHANGED <<bank, accounts, past, form, creds>>

BankReads(i) ==
    /\ reads[i] = Unknown
    /\ reads' = [reads EXCEPT ![i] = balance]
    /\ UNCHANGED <<bank, accounts, refetching, past, form, creds>>

BalanceAnswered(i) ==
    /\ reads[i] # Unknown
    /\ accounts' = reads[i]
    /\ reads' = RemoveAt(reads, i)
    /\ refetching' = FALSE
    /\ UNCHANGED <<bank, past, form, creds>>

(* What is displayed stays.                                                *)
BalanceFails(i) ==
    /\ reads' = RemoveAt(reads, i)
    /\ refetching' = FALSE
    /\ UNCHANGED <<bank, accounts, past, form, creds>>

-----------------------------------------------------------------------------
(* The history.                                                            *)

(* The endpoint has no parameter account_id: the query is for all of them. *)
Transactions(account) == rows

HistoryAnswered ==
    /\ historyAsked
    /\ historyAsked' = FALSE /\ txLoading' = FALSE
    /\ history' \in {Transactions(accountId), <<>>, history}
    /\ UNCHANGED <<bank, hook, form, creds>>

(* Once a day.                                                             *)
SyncCheck ==
    /\ unreported # <<>>
    /\ rows' = rows \o unreported /\ unreported' = <<>>
    /\ UNCHANGED <<balance, delayed, hook, past, form, creds>>

-----------------------------------------------------------------------------
(* The transfer between the main account and this one.                     *)

OpenForm ==
    /\ Loaded
    /\ transferType' \in {"add"} \cup (IF accountId = "main" THEN {} ELSE {"withdraw"})
    /\ showTransfer' = TRUE
    /\ <<transferType, showTransfer>>' # <<transferType, showTransfer>>
    /\ UNCHANGED <<bank, hook, past, transferError, transferLoading, transfer, transfers, creds>>

Cancel ==
    /\ showTransfer
    /\ showTransfer' = FALSE /\ transferError' = FALSE
    /\ UNCHANGED <<bank, hook, past, transferType, transferLoading, transfer, transfers, creds>>

HandleTransfer ==
    /\ showTransfer /\ ~transferLoading
    /\ transfers < MaxTransfers
    /\ transfers' = transfers + 1
    /\ transferError' = FALSE /\ transferLoading' = TRUE
    /\ transfer' = [from |-> IF transferType = "add" THEN "main" ELSE accountId,
                    to |-> IF transferType = "add" THEN accountId ELSE "main",
                    stage |-> "sent"]
    /\ UNCHANGED <<bank, hook, past, showTransfer, transferType, creds>>

(* One unit at a time.                                                     *)
Move(from, to) ==
    /\ from # to
    /\ balance[from] >= 1
    /\ balance' = [balance EXCEPT ![from] = @ - 1, ![to] = @ + 1]
    /\ unreported' = unreported \o <<from, to>>

ExecuteInternalTransfer ==
    /\ transfer.stage = "sent"
    /\ \/ Move(transfer.from, transfer.to) /\ transfer' = [transfer EXCEPT !.stage = "moved"]
       \/ /\ transfer.from = transfer.to \/ balance[transfer.from] < 1
          /\ transfer' = [transfer EXCEPT !.stage = "refused"]
          /\ UNCHANGED <<balance, unreported>>
    /\ UNCHANGED <<rows, delayed, hook, past, showTransfer, transferType, transferError,
                   transferLoading, transfers, creds>>

ExecuteDelayed(from, to) ==
    /\ delayed[<<from, to>>] > 0
    /\ Move(from, to)
    /\ delayed' = [delayed EXCEPT ![<<from, to>>] = @ - 1]
    /\ UNCHANGED <<rows, hook, past, form, creds>>

Moved ==
    /\ transfer.stage = "moved"
    /\ transfer' = [transfer EXCEPT !.stage = "reload"]
    /\ showTransfer' = FALSE
    /\ reads' = Append(reads, Unknown) /\ refetching' = TRUE
    /\ UNCHANGED <<bank, accounts, past, transferType, transferError, transferLoading, transfers, creds>>

Ends == transferLoading' = FALSE /\ transfer' = NoTransfer

Reloaded ==
    /\ transfer.stage = "reload"
    /\ history' \in {Transactions(accountId), <<>>}
    /\ Ends
    /\ UNCHANGED <<bank, hook, txLoading, historyAsked, showTransfer, transferType, transferError, transfers, creds>>

(* Refused, or a call of the two was lost; the first may be under way.     *)
TransferFails ==
    /\ transfer # NoTransfer
    /\ transferError' = TRUE
    /\ \/ UNCHANGED delayed
       \/ /\ transfer.stage = "sent"
          /\ delayed' = [delayed EXCEPT ![<<transfer.from, transfer.to>>] = @ + 1]
    /\ Ends
    /\ UNCHANGED <<balance, rows, unreported, hook, past, showTransfer, transferType,
                   transfers, creds>>

-----------------------------------------------------------------------------
(* The account number.                                                     *)

FetchFullCredentials ==
    /\ Loaded /\ ~credentialsLoading
    /\ IF fullCredentials
       THEN isIdVisible' = ~isIdVisible /\ UNCHANGED credentialsLoading
       ELSE credentialsLoading' = TRUE /\ UNCHANGED isIdVisible
    /\ UNCHANGED <<bank, hook, past, form, fullCredentials>>

CredentialsAnswered ==
    /\ credentialsLoading
    /\ credentialsLoading' = FALSE
    /\ \/ fullCredentials' = TRUE /\ isIdVisible' = TRUE
       \/ UNCHANGED <<fullCredentials, isIdVisible>>
    /\ UNCHANGED <<bank, hook, past, form>>

Next ==
    \/ Poll
    \/ \E i \in DOMAIN reads : BankReads(i) \/ BalanceAnswered(i) \/ BalanceFails(i)
    \/ HistoryAnswered \/ SyncCheck
    \/ OpenForm \/ Cancel \/ HandleTransfer \/ ExecuteInternalTransfer
    \/ \E from, to \in Accounts : ExecuteDelayed(from, to)
    \/ Moved \/ Reloaded \/ TransferFails
    \/ FetchFullCredentials \/ CredentialsAnswered

Spec == Init /\ [][Next]_vars

(* The interval goes on, calls end, and they do not fail for ever.         *)
FairSpec ==
    /\ Spec
    /\ WF_vars(Poll)
    /\ SF_vars(\E i \in DOMAIN reads : BankReads(i))
    /\ SF_vars(reads # <<>> /\ BalanceAnswered(1))
    /\ WF_vars(Moved \/ Reloaded \/ TransferFails)

-----------------------------------------------------------------------------
(* The balances displayed belong together: a transfer is in both or in     *)
(* neither, however the reads overlap with it.                             *)
TotalShown == Loaded => accounts["main"] + accounts["sub"] = 2 * Opening

(* Answers out of order may show an older balance again; not for good.     *)
BalanceCatchesUp ==
    (transfers = MaxTransfers /\ ~transferLoading) ~> (transferLoading \/ accounts = balance)
=============================================================================
