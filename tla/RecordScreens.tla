---------------------------- MODULE RecordScreens -----------------------------
(* What becomes of the records: the consumer that brings them to           *)
(* ClickHouse, and the screens that show them and reckon with them.  A     *)
(* behaviour is a visit to one of them; the consumer rests in its initial  *)
(* state and the screens at Nothing.  What has two entries is visited with *)
(* two sets of constants: the consumer without and with malformed          *)
(* messages, a screen whose calls end well and in order and the same when  *)
(* they fail and overtake each other.                                      *)
EXTENDS Consumer, Sequences

CONSTANTS
    Nothing,  \* the state of what is not visited
    \* Consumer, the second time
    PoisonedMalformed, PoisonedFaults,
    \* HistoryTables
    MaxRows, itemsPerPage, TableSearch,
    \* TransactionsPage
    Ranges, Custom, Minima, MaxChanges, FailMinima, FailChanges,
    \* ActivityLog
    LogCategory, LogLimit, MaxEvents, MaxActions, MaxFetches,
    FailCategory, FailLimit, FailEvents, FailActions, FailFetches,
    \* AccountPage
    Opening, MaxTransfers, MaxReads,
    \* AuditLedger
    Days, AuditSearch, AuditLimit, MaxRecords, AuditFetches, FailCopies,
    \* Analytics
    MovementKind, Blank, MaxCents, MaxMovements,
    \* ChartBuckets
    TxTime, Step, DaylightSaving,
    \* CheckDigits
    RoutingStart, AccountStart, CardStart

VARIABLES
    screen, \* the one visited
    \* Consumer
    poisonedLogEnd, poisonedCommitted, poisonedRows, poisonedPosition,
    poisonedTxBuffer, poisonedActivityBuffer, poisonedTxSuccess,
    poisonedActivitySuccess, poisonedPc, poisonedStopping, poisonedFaults,
    \* HistoryTables
    table, tablesRows, search, filter, currentPage, detail, narrowed,
    \* TransactionsPage
    dayRange, txType, minAmount, sortAsc, customDays, shown, listLoading,
    calls, changes,
    \* ActivityLog
    stored, category, order, offset, events, total, logLoading, logFetches,
    socket, shownFor, actions,
    \* AccountPage
    balance, accountRows, unreported, delayed, accounts, refetching, reads, history,
    accountTxLoading, historyAsked, showTransfer, transferType, transferError,
    transferLoading, transfer, transfers, isIdVisible, fullCredentials,
    credentialsLoading,
    \* AuditLedger
    records, token, selectedTimeframe, searchQuery, auditFetches, made,
    transactions, auditTxLoading, metrics, polling, inspectTx, copiedKey,
    timers,
    \* Analytics
    booked, told, heard, fetched,
    \* ChartBuckets
    timeRange, txTime, refDate,
    \* CheckDigits
    kind, intended, typed, mistake

Poisoned == INSTANCE Consumer WITH
    Malformed <- PoisonedMalformed, MaxFaults <- PoisonedFaults,
    logEnd <- poisonedLogEnd, committed <- poisonedCommitted,
    rows <- poisonedRows, position <- poisonedPosition,
    txBuffer <- poisonedTxBuffer, activityBuffer <- poisonedActivityBuffer,
    txSuccess <- poisonedTxSuccess, activitySuccess <- poisonedActivitySuccess,
    pc <- poisonedPc, stopping <- poisonedStopping, faults <- poisonedFaults

Tables == INSTANCE HistoryTables WITH
    Search <- TableSearch, rows <- tablesRows

Transactions == INSTANCE TransactionsPage WITH
    InOrder <- TRUE, Faults <- FALSE, loading <- listLoading
TransactionsFail == INSTANCE TransactionsPage WITH
    Minima <- FailMinima, InOrder <- FALSE, Faults <- TRUE,
    MaxChanges <- FailChanges, loading <- listLoading

Activity == INSTANCE ActivityLog WITH
    Category <- LogCategory, limit <- LogLimit, InOrder <- TRUE,
    Patient <- TRUE, Faults <- FALSE, loading <- logLoading, fetches <- logFetches
ActivityFail == INSTANCE ActivityLog WITH
    Category <- FailCategory, limit <- FailLimit, InOrder <- FALSE,
    Patient <- FALSE, Faults <- TRUE, MaxEvents <- FailEvents,
    MaxActions <- FailActions, MaxFetches <- FailFetches,
    loading <- logLoading, fetches <- logFetches

Account == INSTANCE AccountPage WITH
    accountId <- "sub", rows <- accountRows, txLoading <- accountTxLoading
MainAccount == INSTANCE AccountPage WITH
    accountId <- "main", rows <- accountRows, txLoading <- accountTxLoading

Audit == INSTANCE AuditLedger WITH
    Search <- AuditSearch, limit <- AuditLimit, InOrder <- TRUE,
    Faults <- FALSE, MaxFetches <- AuditFetches, MaxCopies <- 0,
    fetches <- auditFetches, txLoading <- auditTxLoading
AuditFail == INSTANCE AuditLedger WITH
    Search <- {"none"}, limit <- AuditLimit, InOrder <- FALSE,
    Faults <- TRUE, MaxRecords <- 0, MaxFetches <- AuditFetches,
    MaxCopies <- FailCopies, fetches <- auditFetches,
    txLoading <- auditTxLoading

Analytics == INSTANCE Analytics WITH Kind <- MovementKind

Chart == INSTANCE ChartBuckets

Digits == INSTANCE CheckDigits

ASSUME PoisonedConstants ==
    PoisonedFaults \in Nat /\ PoisonedMalformed \subseteq Message

ASSUME TablesConstants ==
    /\ MaxRows \in Nat /\ itemsPerPage \in Nat \ {0}
    /\ "none" \in DOMAIN TableSearch

(* In the first visit to the transactions the amounts that are typed are   *)
(* integers: any other is refused, and the list stays as it was.           *)
ASSUME TransactionsConstants ==
    /\ "1" \in Ranges /\ "none" \in Minima /\ "fraction" \notin Minima

ASSUME ActivityConstants == LogLimit \in Nat \ {0}

ASSUME AccountConstants == Opening \in Nat

ASSUME AuditConstants == "none" \in AuditSearch

(* Of every kind of movement the bank has a type.                          *)
ASSUME AnalyticsConstants ==
    MovementKind \subseteq DOMAIN Analytics!Type /\ MaxCents \in Nat

(* Times are numbers of half hours.                                        *)
ASSUME ChartConstants == TxTime \subseteq Nat /\ Step \in Nat

(* Digits, as many as the check digits are computed from.                  *)
ASSUME DigitsConstants ==
    /\ \A d \in RoutingStart : d \in Seq(Digits!Digit) /\ Len(d) = 8
    /\ \A d \in CardStart : d \in Seq(Digits!Digit) /\ Len(d) = 15
    /\ \A d \in AccountStart : d \in Seq(Digits!Digit) /\ d # <<>>

(* The bounds are numbers; an account page reads the balances when it      *)
(* opens.                                                                  *)
ASSUME RecordBounds ==
    /\ MaxChanges \in Nat
    /\ MaxEvents \in Nat /\ MaxActions \in Nat /\ MaxFetches \in Nat
    /\ MaxTransfers \in Nat /\ MaxReads \in Nat \ {0}
    /\ MaxRecords \in Nat /\ AuditFetches \in Nat \ {0} /\ FailCopies \in Nat

poisonedVars == <<poisonedLogEnd, poisonedCommitted, poisonedRows,
                  poisonedPosition, poisonedTxBuffer, poisonedActivityBuffer,
                  poisonedTxSuccess, poisonedActivitySuccess, poisonedPc,
                  poisonedStopping, poisonedFaults>>
tablesVars == <<table, tablesRows, search, filter, currentPage, detail,
                narrowed>>
listVars == <<dayRange, txType, minAmount, sortAsc, customDays, shown,
              listLoading, calls, changes>>
logVars == <<stored, category, order, offset, events, total, logLoading,
             logFetches, socket, shownFor, actions>>
accountVars == <<balance, accountRows, unreported, delayed, accounts, refetching,
                 reads, history, accountTxLoading, historyAsked, showTransfer,
                 transferType, transferError, transferLoading, transfer,
                 transfers, isIdVisible, fullCredentials, credentialsLoading>>
auditVars == <<records, token, selectedTimeframe, searchQuery, auditFetches,
               made, transactions, auditTxLoading, metrics, polling, inspectTx,
               copiedKey, timers>>
analyticsVars == <<booked, told, heard, fetched>>
chartVars == <<timeRange, txTime, refDate>>
digitsVars == <<kind, intended, typed, mistake>>
visitVars == <<screen, vars, poisonedVars, tablesVars, listVars, logVars,
               accountVars, auditVars, analyticsVars, chartVars, digitsVars>>

At(s) == screen = s

NoConsumer ==
    /\ poisonedLogEnd = Nothing /\ poisonedCommitted = Nothing
    /\ poisonedRows = Nothing /\ poisonedPosition = Nothing
    /\ poisonedTxBuffer = Nothing /\ poisonedActivityBuffer = Nothing
    /\ poisonedTxSuccess = Nothing /\ poisonedActivitySuccess = Nothing
    /\ poisonedPc = Nothing /\ poisonedStopping = Nothing
    /\ poisonedFaults = Nothing
NoHistoryTables ==
    /\ table = Nothing /\ tablesRows = Nothing /\ search = Nothing
    /\ filter = Nothing /\ currentPage = Nothing /\ detail = Nothing
    /\ narrowed = Nothing
NoTransactionsPage ==
    /\ dayRange = Nothing /\ txType = Nothing /\ minAmount = Nothing
    /\ sortAsc = Nothing /\ customDays = Nothing /\ shown = Nothing
    /\ listLoading = Nothing /\ calls = Nothing /\ changes = Nothing
NoActivityLog ==
    /\ stored = Nothing /\ category = Nothing /\ order = Nothing
    /\ offset = Nothing /\ events = Nothing /\ total = Nothing
    /\ logLoading = Nothing /\ logFetches = Nothing /\ socket = Nothing
    /\ shownFor = Nothing /\ actions = Nothing
NoAccountPage ==
    /\ balance = Nothing /\ accountRows = Nothing /\ unreported = Nothing
    /\ delayed = Nothing
    /\ accounts = Nothing /\ refetching = Nothing /\ reads = Nothing
    /\ history = Nothing /\ accountTxLoading = Nothing
    /\ historyAsked = Nothing /\ showTransfer = Nothing
    /\ transferType = Nothing /\ transferError = Nothing
    /\ transferLoading = Nothing /\ transfer = Nothing /\ transfers = Nothing
    /\ isIdVisible = Nothing /\ fullCredentials = Nothing
    /\ credentialsLoading = Nothing
NoAuditLedger ==
    /\ records = Nothing /\ token = Nothing /\ selectedTimeframe = Nothing
    /\ searchQuery = Nothing /\ auditFetches = Nothing /\ made = Nothing
    /\ transactions = Nothing /\ auditTxLoading = Nothing /\ metrics = Nothing
    /\ polling = Nothing /\ inspectTx = Nothing /\ copiedKey = Nothing
    /\ timers = Nothing
NoAnalytics ==
    /\ booked = Nothing /\ told = Nothing /\ heard = Nothing /\ fetched = Nothing
NoChartBuckets ==
    /\ timeRange = Nothing /\ txTime = Nothing /\ refDate = Nothing
NoCheckDigits ==
    /\ kind = Nothing /\ intended = Nothing /\ typed = Nothing
    /\ mistake = Nothing

VisitInit ==
    /\ screen \in {"consumer", "malformed", "tables",
                   "transactions", "transactions_failing", "activity",
                   "activity_failing", "account", "account_main", "audit",
                   "audit_failing", "analytics", "chart", "numbers"}
    /\ Init
    /\ IF At("malformed") THEN Poisoned!Init ELSE NoConsumer
    /\ IF At("tables") THEN Tables!Init ELSE NoHistoryTables
    /\ IF At("transactions") THEN Transactions!Init
       ELSE IF At("transactions_failing") THEN TransactionsFail!Init ELSE NoTransactionsPage
    /\ IF At("activity") THEN Activity!Init
       ELSE IF At("activity_failing") THEN ActivityFail!Init ELSE NoActivityLog
    /\ IF At("account") THEN Account!Init
       ELSE IF At("account_main") THEN MainAccount!Init ELSE NoAccountPage
    /\ IF At("audit") THEN Audit!Init
       ELSE IF At("audit_failing") THEN AuditFail!Init ELSE NoAuditLedger
    /\ IF At("analytics") THEN Analytics!Init ELSE NoAnalytics
    /\ IF At("chart") THEN Chart!Init ELSE NoChartBuckets
    /\ IF At("numbers") THEN Digits!Init ELSE NoCheckDigits

VisitNext ==
    /\ UNCHANGED screen
    /\ IF At("consumer") THEN Next ELSE UNCHANGED vars
    /\ IF At("malformed") THEN Poisoned!Next ELSE UNCHANGED poisonedVars
    /\ IF At("tables") THEN Tables!Next ELSE UNCHANGED tablesVars
    /\ IF At("transactions") THEN Transactions!Next
       ELSE IF At("transactions_failing") THEN TransactionsFail!Next ELSE UNCHANGED listVars
    /\ IF At("activity") THEN Activity!Next
       ELSE IF At("activity_failing") THEN ActivityFail!Next ELSE UNCHANGED logVars
    /\ IF At("account") THEN Account!Next
       ELSE IF At("account_main") THEN MainAccount!Next ELSE UNCHANGED accountVars
    /\ IF At("audit") THEN Audit!Next
       ELSE IF At("audit_failing") THEN AuditFail!Next ELSE UNCHANGED auditVars
    /\ IF At("analytics") THEN Analytics!Next ELSE UNCHANGED analyticsVars
    /\ IF At("chart") THEN Chart!Next ELSE UNCHANGED chartVars
    /\ IF At("numbers") THEN Digits!Next ELSE UNCHANGED digitsVars

VisitSpec == VisitInit /\ [][VisitNext]_visitVars

(* The fairness of each part is that of its own specification.             *)
FairVisits ==
    /\ VisitSpec
    /\ WF_vars(At("consumer") /\ Run)
    /\ WF_poisonedVars(At("malformed") /\ Poisoned!Run)
    /\ WF_listVars(At("transactions_failing") /\ TransactionsFail!CallEnds)
    /\ WF_logVars(/\ At("activity_failing")
                  /\ \E i \in DOMAIN logFetches :
                        \/ ActivityFail!ReadRows(i) \/ ActivityFail!Succeeds(i)
                        \/ ActivityFail!QueryFails(i) \/ ActivityFail!CallFails(i))
    /\ WF_accountVars(At("account") /\ Account!Poll)
    /\ SF_accountVars(/\ At("account")
                      /\ \E i \in DOMAIN reads : Account!BankReads(i))
    /\ SF_accountVars(/\ At("account")
                      /\ reads # <<>> /\ Account!BalanceAnswered(1))
    /\ WF_accountVars(/\ At("account")
                      /\ \/ Account!Moved \/ Account!Reloaded
                         \/ Account!TransferFails)
    /\ WF_auditVars(At("audit_failing") /\ AuditFail!CopyTimer)
    /\ WF_auditVars(/\ At("audit_failing")
                    /\ \E i \in DOMAIN auditFetches :
                          \/ AuditFail!GetAllTransactions(i)
                          \/ AuditFail!Succeeds(i) \/ AuditFail!Fails(i))

-----------------------------------------------------------------------------
(* The consumers and the screens keep their types.                         *)
TypesOK ==
    /\ TypeOK
    /\ At("malformed") => Poisoned!TypeOK
    /\ At("tables") => Tables!TypeOK
    /\ At("transactions") => Transactions!TypeOK
    /\ At("activity") => Activity!TypeOK
    /\ At("account") => Account!TypeOK
    /\ At("account_main") => MainAccount!TypeOK
    /\ At("audit") => Audit!TypeOK
    /\ At("audit_failing") => AuditFail!TypeOK
    /\ At("analytics") => Analytics!TypeOK
    /\ At("chart") => Chart!TypeOK
    /\ At("numbers") => Digits!TypeOK

(* Rows are multiplied, and messages dropped, by faults alone: without a   *)
(* malformed message no more rows than faults come on top (consumer.py:80);*)
(* with one, the offsets never run ahead of ClickHouse but for what it     *)
(* takes along (consumer.py:137), and nothing is dropped from a buffer     *)
(* before both inserts.                                                    *)
DamageNeedsFaults ==
    /\ DuplicatesNeedFaults
    /\ At("malformed") => Poisoned!CommittedIsStored /\ Poisoned!KeptUntilStored

(* A malformed message blocks no partition: whatever is published is read. *)
MalformedBlocksNothing ==
    (At("malformed") /\ \E m \in Poisoned!published : ~Poisoned!Read(m))
        ~> (At("malformed") /\ \A m \in Poisoned!published : Poisoned!Read(m))

(* What is reckoned from records and digits: each record goes its own way  *)
(* and counts once, in the sums of the studio and of the dashboard, in the *)
(* intervals of the charts and under the headings of the feed; declined is *)
(* what has failed; and a mistyped number is noticed.                      *)
FiguresAddUp ==
    /\ At("analytics") =>
        /\ Analytics!DirectionRight
        /\ Analytics!PartsAddUp
        /\ Analytics!NetFlowsAgree
        /\ Analytics!DeclinedIsFailed
    /\ At("chart") => Chart!OneBucket /\ Chart!NoGap /\ Chart!HeadingsApart
    /\ At("numbers") =>
        /\ Digits!WrongDigitNoticed
        /\ Digits!SwapNoticed
        /\ Digits!ChecksAgree
        /\ Digits!PairsDiffer
        /\ Digits!GroupedInFours

(* What is displayed is what is asked for once the answers are in: every   *)
(* row on one page of a table, the list of the filter as it is (or of the  *)
(* timeframe), the page of the activity log that exists, and balances of   *)
(* one moment.                                                             *)
ShownIsAsked ==
    /\ At("tables") => Tables!PagesPartition /\ Tables!PageExists
    /\ At("transactions") => Transactions!ShownForFilter
    /\ At("activity") => Activity!ShownForQuery /\ Activity!NotStranded
    /\ At("audit") => Audit!ShownForTimeframe
    /\ At("account") => Account!TotalShown
    /\ At("account_main") => MainAccount!TotalShown

(* A page that is loading stops, whatever fails; a mark that something was *)
(* copied goes; and the balances on display catch up with the bank's once  *)
(* the transfers are over, although answers may overtake each other.       *)
Behind ==
    \/ At("transactions_failing") /\ listLoading
    \/ At("activity_failing") /\ logLoading
    \/ At("audit_failing") /\ (auditTxLoading \/ copiedKey)
    \/ At("account") /\ transfers = 1 /\ ~transferLoading
UpToDate ==
    \/ At("transactions_failing") /\ ~listLoading
    \/ At("activity_failing") /\ ~logLoading
    \/ At("audit_failing") /\ ~auditTxLoading /\ ~copiedKey
    \/ At("account") /\ (transferLoading \/ accounts = balance)
ScreensCatchUp == Behind ~> UpToDate
===============================================================================
