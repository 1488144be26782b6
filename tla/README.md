# Formal models of Karin Bank

TLA+ modules, TLC configurations and TLAPS proofs for Karin Bank: the money
movements and the event pipeline of the back end, and the part of the web
frontend where state, timing and failure meet. Paths below are relative to the
repository root (`src/`).

## 1. Inventory

### Processes and the state they share

`docker-compose.yml` starts, beside the databases: the API
(`backend/main.py`, several gunicorn workers, asyncio inside each), the outbox
worker, the sync checker, the scheduled-payments worker, the ClickHouse
consumer, `mock-fed-gateway`, `vendor-simulator`, `deposit-funds-mock`,
`financial-life-simulator`, and the Next.js frontend. All back-end processes
share one PostgreSQL database at READ COMMITTED. Nothing in the repository takes
locks other than `SELECT ... FOR UPDATE`, and only on `accounts` and
`idempotency_keys`. A page of the frontend is single-threaded, but between an
`await` or a timer and its answer anything else on the page, in another tab or
in the bank can happen; few effects clean up after themselves, so answers and
timers of an earlier moment meet the state of a later one.

### Back end

| Component | State | Operations | Hard parts | What makes it correct |
|---|---|---|---|---|
| Money movement: `routers/{transfers,accounts,admin}.py`, `services/{transfer,account,deposit}_service.py` | `accounts.balance`, `transactions` | p2p, internal transfer, bill payment, admin credit, top-up, subscription charge | stale identity map, row locks in any order, crash, lost vendor answer | no lost update, no overdraft, each operation once per key |
| Idempotency: `idempotency.py` | `idempotency_keys` | `check_idempotency`, `complete_idempotency` | INSERT not flushed when it is looked for; retries in flight | executed twice at most where there is one commit; a completed key is final; an answered two-commit request is replayed |
| Outbox: `event_emitter.py`, `outbox_worker.py`, `outbox_service.py` | `outbox.status`, `transactions.status` | emit, send, fail | crash between send and commit; status read before and written after a concurrent settlement | no event lost, status only moves forward |
| Settlement: `sync_checker.py` | `transactions.status`, new outbox rows | settle after 45 s, daily comparison | races the outbox worker; re-emits with old timestamps | ClickHouse converges |
| Consumer: `consumer.py` | two buffers, Kafka offsets | poll, flush, commit | one of two inserts failing; offsets committed with rows still buffered | no message lost, duplicates bounded |
| Scheduled payments: `scheduled_payments_worker.py`, `date_utils.py` | `scheduled_payments` | create, cancel, run, retry | unlocked read-modify-write, cancel racing a run, expiry of ORM objects after a commit | each due payment is made once a period, and is made |
| Payment requests: `routers/transfers.py`, `transfer_service.py` | `payment_requests.status` | create, pay, decline | status checked without a lock | paid is moved |
| Deposits: `routers/deposit.py` | credits, intents | intent, confirm, webhook | two commits with keys that stay pending; redelivery, a lost answer | an intent is credited once, or twice when a confirmation died between its commits or overlapped another |
| Rails: `routers/transfers.py`, `mock-fed-gateway/routers/*` | `transactions`, master accounts | wire, FedNow, ACH, directory | call before commit; read-modify-write of the master account; retry after a lost answer | what is recorded was settled; the master account holds what was settled until two transfers meet there; overdraft limit |
| Sub-accounts, contacts, users, profile: `account_service.py`, `contact_service.py`, `admin_service.py`, `routers/auth.py` | `accounts`, `contacts`, `users` | create, update, erase | check-then-act; two databases | what is shown is what is stored |
| `v2/`, `financial-life-simulator`, migrations | - | - | - | not modelled, see 7 |

### Frontend

| Component | State | Hard parts | What makes it correct |
|---|---|---|---|
| API client: `lib/api/client.ts` | attempts of a call | a failed fetch says nothing about the server; late execution | a page may rely on how a call ended |
| Session: `lib/AuthContext.tsx` | token, user, timers, shared `localStorage` | renewal, logout and profile fetch in flight; tabs | warnings are true, expiry signs out, no page without its user |
| Captcha: `ui/Turnstile.tsx`, login and registration | script, challenge, token | expiry, retries, failed submission | a token is spent once, nobody is locked out |
| Transfers: `send/page.tsx`, `SmartTransferHub.tsx`, `BetweenAccountsTab.tsx`, `VaultTransferModal.tsx`, `FedTransferTab.tsx` | forms, lookups, calls, receipts | editing while sending; lookups and refreshes overtaking each other; dialogs that stay mounted | what is told has happened; money stays among the accounts |
| Schedules and requests: their tabs | forms | other vocabulary than the routes | see back end |
| Deposit: `DepositModal.tsx` | dialog, intents, timers | closing and opening under way | announced is credited |
| Lists: history tables, transactions, activity, account page, admin ledger | rows, filters, pages, polls | answers out of order; totals of another filter | shown is asked for |
| Contacts, cards, users, profile | copies of what is stored | answers that write back an older list; copies in tabs; a dialog over a changing target | a screen agrees with what it acts upon |
| Analytics, charts, numbers: `lib/neobank/utils.ts`, `lib/routingUtils.ts` | none | intervals, direction of a record, check digits | each record counts once |

The hazards these components are exposed to, each at its line, are listed in
`PROJECT.json`.

## 2. Plan

What loses or creates money came first, then what tells the customer about it.

1. `AtomicLedger`, `Ledger`, `LedgerProofs` - done.
2. `Outbox`, `OutboxProofs`, `Channel`, `Consumer`, `ConsumerProofs` - done.
3. `CallContract`, `ApiClient` - done: what a page may rely on when it calls
   the bank. Its theorems open `PaymentScreensProofs`.
4. The screens that move money: `SendPage`, `SmartTransfer`, `BetweenAccounts`,
   `Vault`, `FedTransfer` - done, with the back end behind them.
5. `ScheduledPayments`, `PaymentRequests`, `DepositFlow` - done, with
   `ScheduledPaymentsProofs`.
6. The screens that show: `HistoryTables`, `TransactionsPage`, `ActivityLog`,
   `AccountPage`, `AuditLedger`, `Analytics`, `ChartBuckets`, `CheckDigits` -
   done.
7. The screens around a customer: `Session`, `CaptchaForm`, `AddressBook`,
   `Cards`, `ProfilePage`, `UserRegistry` - done.

8. The visits: `PaymentScreens`, `CustomerScreens` and `RecordScreens`, with
   `PaymentScreensProofs`, `CustomerScreensProofs`, `RecordScreensProofs` and
   `RecordFiguresProofs` - done.

Left: the cancellation of subscriptions; the returns and statements of the Fed
gateway; `v2/` once its engine is awaited. Every invariant and every action
property of the passing runs has its theorem; liveness stays with TLC
(section 5).

## 3. What is modelled

### `Ledger`

The handlers that change a balance over HTTP, run by concurrent requests. A
constant `Kinds` selects the handlers in play:

| kind | code | reads before locking | commits |
|---|---|---|---|
| `p2p` | `create_p2p_transfer`, `process_p2p_transfer`, `_execute_p2p_balances` | yes | once, in the router |
| `internal` | `internal_transfer`, `execute_internal_transfer` | no | service, then router |
| `vendor` | `_handle_vendor_payment` | no | service, then router |
| `topup` | `_atomic_topup_balance` | no | once |
| `subscription` | `handle_checkout_completed` | no | once |
| `admin` | `admin_credit_account` | yes, and never locks | once |

An *intent* is what a client or a webhook wants, with one idempotency key; an
*attempt* is one HTTP request for it. `order` and `serving` are chosen in
`Init`: any intents, any assignment of attempts to intents. An attempt runs
through `pc`: `check` (check_idempotency), `load` (accounts read or locked, one
by one), `call` (vendor), `complete` (complete_idempotency), `commit`,
`recheck` (the second commit of the two-commit handlers), and ends answered or
crashed.

Two facts of SQLAlchemy, not visible in any single line of the handlers, carry
the model:

- `database.py:29` sets `autoflush=False`: a row that `check_idempotency` adds
  is not in the database when `complete_idempotency` looks for it in the same
  transaction (`insertsKey`).
- `SELECT ... FOR UPDATE` without `populate_existing` does not refresh an
  object that the session already holds, and `x.balance -= n` writes the
  absolute value (`loaded`, `seen`).

Of PostgreSQL the model keeps row locks held to the end of the transaction, a
locked row read as committed at that time, the UNIQUE key, rollback at a crash,
and the deadlock detector. A flush and its COMMIT are one step.

Left out: validation that ends a request before it touches shared state, the
texts and e-mails of the rows, the User and activity rows, the outbox rows
(written in the same transaction, so with exactly the fate of `posted`), the
case of a request without an idempotency key (it is an intent with a single
attempt).

### `AtomicLedger`

What balances promise: `Transfer`, `Deposit` and `Payment` as single steps that
find the funds they take and book what they move. `Ledger` is mapped to it by
the identity on `balance` and `posted`.

### `Outbox`

How a transaction row reaches ClickHouse and what happens to its status
meanwhile. The table `origin` says how each transaction comes into being:

| origin | code | first status | events |
|---|---|---|---|
| `payment` | `emit_transactional_event` | `cleared` | one for the transaction, one activity |
| `refused` | the same, vendor refusal or failed scheduled payment | `failed` | the same |
| `internal` | `account_service.py:113-127` | `cleared` | one activity |
| `simulated` | `admin.py:219-231` | `sent_to_kafka` | none |

Three processes act on it:

- The worker (`wpc`): `SendAcknowledged` / `SendFails`, `LookAtTransaction`
  (the SELECT of `outbox_service.py:99`), `MarkProcessed` (the commit) or
  `MarkFailed` (`_fail_event`), `WorkerFails` (failed commit, crash). Only the
  worker changes outbox rows and it handles one after the other, so which rows
  it fetched together does not matter, and a processed row is forgotten.
- The sync checker (`spc`): `ReadOpen`, `Settle` (`auto_settle_transactions`,
  read and commit), `QueryPostgres`, `QueryClickHouse`, `QueueSyncEvents`
  (`run_sync_check`), `CheckerFails`. `daily` tells the settlement at the start
  of a check from the one every 15 seconds.
- Kafka and the consumer: `Store` in any order, again after a crash;
  `LateDelivery` of a message whose acknowledgement timed out.

ClickHouse's `transactions` is a ReplacingMergeTree ordered by account, event
time and transaction. An event carries one of two times, the one taken at
emission or the row's `created_at`; rows that agree in it replace each other,
rows that differ are counted both. That is `table`, by transaction and stamp.
Which of the two times is later depends on the clocks, so the check may see
either row.

Left out: the dead letter topic (nobody reads it); rows older than seven days,
which the daily check no longer looks at; rows ClickHouse has not merged yet (a
query may see the replaced one, which can only queue another event); the
statuses `pending`, `in_progress`, `settled`, `cancelled`, which no code writes
to `transactions`.

### `Channel` and `Consumer`

`Channel` is what topics and consumer promise: whatever is published arrives at
least once, nothing else arrives, nothing is taken back. `Consumer` is
`consumer.py`: a message is a partition and an offset, `position` is where
`poll()` is, `committed` what the group has committed, `rows` how often each
message was inserted. `Poll`, `PollMalformed`, `FlushInterval` are the three
ways through the loop; `FlushTransactions`, `FlushActivity`, `Finish` are
`flush_all`, split where it awaits an insert. `Stop` is the `finally` block,
`Crash` a restart of the container. A failed insert may have been executed
(ClickHouse answered too late). `arrived` and `published` map it to `Channel`.

`consumer.commit()` without arguments is asynchronous: it sends the position
reached and can be lost. The model takes the position at the time of the call.
The producers of this repository always write the required fields, so
`Malformed` is empty in one visit of the run `records`, and one message in the
other shows what the error path does. A message that cannot be
decoded at all takes the same path (`consumer.py:150-152`). A row whose
timestamp cannot be parsed makes `flush_all` raise; no code writes one, and it
is not modelled. One process per group is assumed (the compose file starts
one), so there is no rebalancing.

### `CallContract` and `ApiClient`

`CallContract` is what a call of `request()` (`lib/api/client.ts:91-155`)
promises the page: how often the server may carry it out, given how it ended
(`Effects`). It promises little: data means at least one effect, an error means
as little as no answer, and in every case there may be one effect for each
attempt.

`ApiClient` is the loop: `Begin`, `Fetch`, `FailAttempt` (the catch block),
`Wake` (the pause), `Resolve`, `RejectApi`, `GiveUp`, over a network whose
requests are lost, wait, or are carried out after their attempt was given up.
The back end behind it is that of `Ledger`, as far as a client can tell:

- `Execute` is the commit that takes effect. It leaves the key *pending* when it
  inserts it: `complete_idempotency` does not find a key its own session has not
  flushed. A retry finds the key pending, executes again, and completes it in
  the same commit.
- `Separate` are the keyed calls whose key has a commit of its own (internal
  transfers, `accounts.py:156-172`). `Finish` is that second commit and the
  answer; for the other calls it is the answer alone. `FailLate` is an error, or
  silence, after the effect: the second commit fails, or the worker dies.
- `Replay` answers from a completed key; `Refuse` is an exception before the
  commit, which undoes everything; `ProxyTimeout` is nginx answering 502 or 504
  while the back end goes on.

No page and no route ever stores a refresh token, so a 401 of the first attempt
signs the browser out. The modules of the pages do not repeat the loop: their
calls end in a way and have a number of effects that `Effects` allows, which is
what `ImplementsContract` justifies.

### The screens

Each module models one page with its handlers as actions, the timers it sets,
the calls it makes split where the code awaits, and as much of the bank behind
it as the page's claims depend on. A call under way carries what the closure of
its handler captured, so that an answer can meet a page that has changed since.

| module | page and back end | notes |
|---|---|---|
| `SmartTransfer` | `SmartTransferHub.tsx` | a lookup is not cancelled; the rail and the amount stay editable while sending |
| `SendPage` | `send/page.tsx`, instant, schedule and request tabs | refreshes after 1, 3 and 6 s and one toast timer per success, none cancelled; ClickHouse lags (`Index`), and when it fails the endpoint answers 200 with an empty list (`Emptied`, `dashboard.py:103-105`), which replaces the history |
| `BetweenAccounts` | `BetweenAccountsTab.tsx`, `execute_internal_transfer` | balances displayed and balances there are two variables; other movements come between; a form without accounts offers the guessed id 1 (33), which may be someone else's (`Foreign`) |
| `Vault` | `VaultTransferModal.tsx`, `SubAccountManager.tsx`, `create_sub_account` | ids are given out across users; the dialog outlives its closing; `sent` keeps every request, those carried out though their call failed included |
| `FedTransfer` | `FedTransferTab.tsx`, `/wire`, `/fednow`, `/ach`, the gateway's three routers | the endpoint's call, its commit and the gateway's read, comparison and write are steps of their own; `overlapped` remembers that two transfers met at the gateway |
| `ScheduledPayments` | form, routes, worker | the worker's copies and the columns its commit writes; expired objects end a cycle; `get_vendors` is empty when the simulator is down, and then a bill fails for good (`NoPayee`) |
| `PaymentRequests` | form, table, create, pay, decline | status and balance are read before the row locks of the accounts are waited for; the payment decides on that copy (`seen`) |
| `DepositFlow` | deposit page and dialog, intents, confirm | timers and answers of a closed dialog go on; a confirmation is two commits with two keys, the client may send it again meanwhile (`ConfirmAgain`); `doubted` remembers the intents of confirmations that died in between or overlapped another |
| `Session` | `AuthContext.tsx`, `SessionExpiryWarning.tsx`, gates | tabs share the stored token only; time in units of the smallest threshold |
| `CaptchaForm` | `Turnstile.tsx`, sign-in, sign-up | retries of the script, expiry, mock tokens |
| `AddressBook` | `contacts/page.tsx`, `contact_service.py` | answers write back the list captured when they were sent |
| `UserRegistry` | `UserManagement.tsx`, `compliance_delete_user` | masked emails; two databases, cleared one after the other |
| `Cards` | `CardSecurityHub.tsx`, `DigitalCardPreview.tsx` | three copies of a card; saved lists overwrite each other |
| `ProfilePage` | `profile/page.tsx`, `routers/auth.py` | requests read and commit apart; the dialog leaves with an animation and answers clicks meanwhile |
| `HistoryTables` | the three paged tables | one module, the filter's reset apart |
| `TransactionsPage` | `transactions/page.tsx`, `get_transactions` | one call per keystroke |
| `ActivityLog` | `activity/page.tsx`, `get_activity` | rows and total read apart; every filter change asks twice |
| `AccountPage` | account page, `useBalance` | polls, events and reloads read at one moment each; a transfer given up may be carried out later (`delayed`); the page calls `fetch` itself (`page.tsx:92`), without `request()`, its retries or a key |
| `AuditLedger` | `BankingDashboard.tsx`, metrics of `admin/page.tsx`, `get_all_transactions_for_admin` | the list falls back to PostgreSQL without the filter; figures are invented when there are none |
| `Analytics` | studio, dashboard totals, statuses | the feed shows the status ClickHouse was told, which the daily check can make `cleared` before the bank clears (`Effective`, `sync_checker.py:71`) and the worker's late commit takes back in the bank; a record may lack the fields older rows lack |
| `ChartBuckets` | ranges, buckets, headings | one transaction watched for a year, half-hour units |
| `CheckDigits` | routing, account and card numbers | a person types a right number with at most one mistake |

Wording, layout, formatting and styling are left out everywhere.

## 4. Runs

Twelve runs. The first nine below ask one question of one component; the last
three compose many small components, as explained with them.

### Ledger

All in `MCLedger`: two accounts that open with 1, amounts of 1, two intents,
and two or three attempts. One unit per account makes the second debit of an
account fail, so a lost update and a refused payment both occur. Three attempts
let two retries overlap a first call; two accounts are what a transfer needs,
and give the opposite lock orders. Attempts and intents are symmetric; accounts
are not declared so. No bound other than the number of attempts is needed.

| run | question | result |
|---|---|---|
| `locked` | handlers that lock what they read | implement `AtomicLedger`; bills are booked as the vendor answered, or the handler failed after the call; answered two-commit requests are replayed |
| `all_kinds` | every handler | no overdraft; a key exists exactly if executed; single-commit handlers execute an intent at most twice; a completed key is final |
| `liveness` | `FairSpec` | every received request ends; deadlocks happen and are resolved |
| `p2p_lost_update` | "Atomically update balances for both accounts." (`transfer_service.py:192`) | violated: two p2p transfers read the same balances before either locks them |
| `redelivered_webhook` | comment at `deposit_service.py:66` | violated: the first delivery leaves its key `pending`; the second credits again and completes it |

Fairness: weak fairness of `Handle(p)`, the disjunction of everything the
handler's coroutine or the database does for it. The event loop resumes every
ready coroutine, PostgreSQL grants a released lock, and its deadlock detector
runs after `deadlock_timeout`. `Receive` and `Crash` are not fair. Weak
fairness is enough because with finitely many attempts a lock is freed for
good in the end.

`Quiet` is the only step left when all attempts are over; deadlock checking
stays on.

### Outbox

In `MCOutbox`. Bounds: `MaxCopies` identical outbox rows pending at a time
(two let the daily check queue an event that is still pending), `MaxFaults` failures in all.

| run | instance | question | result |
|---|---|---|---|
| `outbox_faults` | 1 transaction of any origin, 2 copies, 2 faults | do events vanish, is a status reported that is not true, is a final status touched | no; double counting needs a race of the daily check with an event on its way |
| `outbox_live` | 1 transaction of any origin, 1 fault | are lost events made up for | every transaction is reported, open ones are cleared, ClickHouse converges to a status that stays |
| `outbox_regress` | 1 simulated transaction | "never overwritten or downgraded" (design document, line 155) | violated: the worker commits `processing` over the settlement's `cleared` |
| `outbox_guarantee` | 1 payment, 1 fault, `FairSpec` | "Guarantees event delivery" (`README.md:23`) | violated: one failed send and the event is never sent; without faults there is no counterexample |

One transaction is enough for TLC because an event, a row of ClickHouse and a
decision of the checker concern one transaction each; only the worker and a
batch of the checker touch several, and the theorems of `OutboxProofs` hold for
any number of them. (Two transactions without faults have 1.9 million states
and show the same; the run is not kept.) Enabling a batch only while its events
fit under `MaxCopies` is the price of the bound: in the code the batch is
committed at once, with more rows.

Fairness (`Fairness`): the loops of worker, checker and consumer go on (weak
fairness of `Work`, `Check` and of storing messages); time passes (`Age`); and
the daily check comes round although settlements keep running, which is strong
fairness of `ReadOpen(TRUE)`, since a settlement disables it now and then. Which
pending event is sent next is not assumed fair, nor is the arrival of a message
given up.

### Visits: `payments`, `records`, `customer`

A page of the frontend lives alone: it is mounted, used and left, and shares
nothing with the page before it but the bank. Three modules make one
specification of many such components: `PaymentScreens`, `CustomerScreens` and
`RecordScreens`. The variable `screen` names the one a behaviour visits, chosen in
`VisitInit` and never changed; the variables of the others rest at the model
value `Nothing` (those of the API client and the consumer in their initial
state). `VisitNext` is the `Next` of the screen visited, and `FairVisits` has
each module's own fairness under the guard `At(screen)`. Nothing is weakened by
this: the states of a run are the disjoint union of the states of its screens,
an invariant is the conjunction of the screens' invariants (`At(s) => M!Inv`),
and since `screen` never changes, the leads-to between the disjunctions over the
screens (`PaymentsSettle`, `ScreensCatchUp`, `EverythingEnds`) is the leads-to
of every screen at once. A screen that appears twice ("activity",
"activity_failing") is visited with two sets of constants, because its safety and its
liveness are claims under different circumstances.

The three leave every number, set and table of their components a constant, and
the theorems of section 5 are about them; `MCPayments`, `MCCustomer` and
`MCRecords` extend them with the few tables a .cfg cannot write. Their
assumptions (`HubConstants`, `SessionConstants`, ...) say what the proofs need:
numbers are natural, `Nothing` is not a value of a form, the directory knows the
rails it names, the least payee exists, users who are erased are finitely many
(`RegistryConstants`), there are the two physical cards and the slider offers
"low" (`CardsThere`), the password a user starts with is long enough
(`ProfileConstants`), every movement has a type (`AnalyticsConstants`), times are
natural numbers (`ChartConstants`), and check digits are computed from the
digits of eight, or of fifteen, places (`DigitsConstants`). TLC evaluates each of
them on the instance of the run.

| run | visits | properties |
|---|---|---|
| `payments` | API client (`client`); smart hub (`hub`); Transfer Center (`send`, `refreshing`, `unordered`); between accounts (`between`); vaults (`vaults`); Fed transfer (`fed`, `lookup`) | `EndsAsPromised`, `KeyedTwice`, `ImplementsContract`, `EveryCallSettles` of the client; `ClaimsAreBacked`, `MoneyKept`, `NeverGoesBack`, `PaymentsSettle` of the screens |
| `records` | consumer (two); history tables; transactions (two); activity (two); account page (two); admin ledger (two); analytics; chart; numbers | `CommittedIsStored`, `DamageNeedsFaults`, `ImplementsChannel`, `MalformedBlocksNothing` of the consumer; `FiguresAddUp`, `ShownIsAsked`, `ScreensCatchUp` of the screens |
| `customer` | session; captcha; contacts; users (two); cards (two); deposit (two); scheduled payments (two); profile (three); requests | `SessionIsGuarded`, `OnceOnly`, `BooksKept`, `ScreensAgree`, `EverythingEnds` |

`CHECK_DEADLOCK FALSE` in the three: a person may stop using a page, and the
bounds end what could go on.

**Bounds.**

- API client: one call at a time, of three sorts: with a key that is completed
  apart, with a key completed in the same commit, and without; two retries, so
  that a third attempt could execute a keyed call a third time. Calls share
  nothing, and any number is proved (section 5).
- Transfers: two transfers under way or two lookups, three where a third can
  overtake two (`lookup` has three numbers and two edits). One unit
  per account makes the second debit fail. `Vault`'s limit of ten is two.
- Consumer: one partition per topic, two messages each, batches of two, two
  faults (one with the malformed message). Both buffers can be non-empty in one
  flush, a batch is cut by the interval or by its size, and a second fault can
  hit the recovery from the first.
- Lists: three rows on pages of two; two or three calls under way; one
  malformed and one right entry per field.
- Scheduled payments: two payments, since the first commit of a cycle expires
  the second; two or three days; one crash; one booking of another request.
- Requests: three calls, so that a decline can come between two payments.
- Cards: two tabs, the two physical cards and one virtual card. Users: three, two
  of one mask; seven for the window of five pages.
- Charts: one transaction each of a winter's night, a summer's noon and New
  Year's Eve, watched for a year in steps of 22.5 hours (`Step` 45 half hours),
  which drift through the hours of the day.
- Numbers: routing numbers with a district of each rule and with none, all
  zeros, account numbers of three to eleven digits; every single wrong digit,
  swap, omission and addition.

**Circumstances.** Some claims hold only if answers come in the order of their
requests, or if the customer waits: the constants `InOrder`, `Patient`,
`Faults` and `MayFail` say so at each visit, and section 6 lists what happens
otherwise. `NeverGoesBack` is about refreshes in order (`refreshing`), some of
which fail or find ClickHouse down; in `unordered` answers overtake each other,
and what is claimed is that the page catches up. Liveness is claimed where answers overtake each other and calls
fail.

**Fairness.** The browser ends every fetch, with an answer or an error, and
fires every timer it was given: weak fairness of a page's answers and timers.
In `AccountPage`, reads of the bank and the oldest answer are strongly fair,
because polls that go on for ever interleave with them and a single read may be
enabled and disabled in between. The worker of the scheduled payments goes on
(weak fairness of `Cycle`), the consumer's loop as well (`Run`; the container
restarts it). What persons do is never fair, nor are crashes.

`MAX_RETRIES` is 2 in the code (`lib/api/client.ts:10`); the API client, the hub
and the Transfer Center are run with 2, the others with 0 or 1, and section 5 is
about any number. Every other bound is a constant whose name starts
with `Max`, or `LastDay`.

## 5. Proofs

### Ledger

`LedgerProofs` proves for all sets of accounts, intents and attempts, all
positive amounts, all opening balances and all `Kinds`
(assumption `LedgerAssumption`):

| theorem | statement | argument |
|---|---|---|
| `TypeCorrect` | `[]TypeOK` | one step per action |
| `NeverOverdrawn` | `[]NoOverdraft` | `Funds`: session copies are non-negative and `Covered` still holds of the copy when it is written back, because only `load` steps change it |
| `KeyMeansExecuted` | `[]KeyIffExecuted` | `KeyInv` |
| `TwiceAtMost` | `[]AtMostTwice` | `KeyInv` |
| `AnswersReplayed` | `[]AnsweredIsReplayed` | `KeyInv` |
| `CompletedFinal` | `CompletedKeyIsFinal` | `KeyInv` and `CommitFinds` |
| `BillsBooked` | `[]VendorBooked` | `VendorInv` |
| `Serializable` | `Spec => ImplementsAtomic`, if no handler in play reads before it locks (`LocksWhatItReads`) | `Isolated` |

`KeyInv` strengthens the idempotency properties by `HoldsKey` (a request in a
transaction that did not add the key holds the lock of a *pending* key) and
`KeyCounts` (pending: at most one execution; completed: at most two). Without
`HoldsKey` a commit could find a completed key; with it, `CommitFinds` says
that a commit finds the key absent or pending and locked, and the rest is a
case split. `Isolated` says that the rows a session has loaded are the rows it
has locked and that their copies equal the committed balances. The assumption
`LocksWhatItReads` is needed: `p2p_lost_update` is its counterexample.
`VendorInv` says how far a bill is: before the vendor is called nothing is paid
or booked, after it the answer is kept until the commit, and only a failure or a
crash between the two leaves an executed bill without a booking.

### Outbox

`OutboxProofs` proves, for any transactions and origins and any bounds
(`OutboxAssumption`): `TypeCorrect`, `ReportsAreTrue`, `NothingVanishes`,
`CountedTwiceNeedsRace`, `FinalFromTheStart`. All follow from `IInv`:

- `StatusInv`: what a row, and the checker's copy of it, can be, by origin.
- `FoundInv`: only simulated traffic is ever found open.
- `WorkerInv`: the worker's event is still pending (nobody else takes events
  out), it was sent once the worker is past the send, and an open status it has
  heard is that of simulated traffic. That is why its stale write is harmless
  to every other transaction.
- `EventInv`, `TableInv`: what goes round and what is stored says the truth, and
  only events written with their row carry the emission time.
- `RaceInv`: both times in circulation or stored means `raced`. It has to count
  events as well as rows, because the second row is decided when the event is
  queued and stored long after. Settlement cannot bring it about, since it
  finds only transactions without an event of their own; the daily check can
  only if ClickHouse knows neither row, and then the first event is on its way
  (`MissedIsRaced`).

`FeedSteps` lists where a new event can come from and `TableSteps` where a new
row can; the invariants on events need no other case split over the actions.

### Consumer

`ConsumerProofs` proves, for any partitions, batch size, set of malformed
messages and number of faults (`ConsumerAssumption`): `TypeCorrect`,
`OffsetsFollowClickHouse` (`[]CommittedIsStored`; whatever is read is buffered
or stored unless a malformed message was acknowledged, and a flush that reports
success has stored its buffer) and `ConsumerImplementsChannel` (safety of the
refinement: buffers and rows hold only published messages, and no step removes
a row). `ReadIsKept`
(`[]KeptUntilStored`) and `RowsNeedFaults` (`[]DuplicatesNeedFaults`) are the
other two parts of `DamageNeedsFaults`:

- `KeptInv`: as long as nothing has failed, both inserts of a flush in progress
  have succeeded, so what leaves a buffer is stored.
- `RowsInv`: a message that will be inserted (it is buffered, or will be read
  again) has at most as many rows as there were faults, one less while the
  second insert still has it and the first has failed. It needs
  `BufferedIsRead`: a restart forgets the buffers together with the position.


### API client

The first part of `PaymentScreensProofs` proves, for any calls, any of them keyed
or retrying, any of the keyed completed apart, and any `MAX_RETRIES`
(`ApiClientAssumption`): `TypeCorrect`, `KeyedCallsTwice` (`[]KeyedTwice`: what is
keyed and commits once takes effect twice at most), `EndingsKept`
(`[]EndsAsPromised`) and `ImplementsTheContract` (`Spec => ImplementsContract`).
`IInv` says what the network may hold:

- `OnlySent`: what waits, was answered or was carried out belongs to an attempt
  that has left the browser (`Left`). It is needed for the refinement: the
  contract lets a request be carried out only after the call has started.
- `ServedOnce`: a request that still waits has had no effect, and nobody but the
  proxy has answered it; one that is committed has had its effect. So the
  server's step adds a new attempt.
- `AnswersAreTrue` (`Told`), `EndedByAnswer`: success is answered only after an
  effect, and for an internal transfer after its key was completed; a 4xx only
  by an attempt without effect; an ending rests on an answer.
- `KeyTruth`: what the row of the key knows. Without a commit of its own it lags
  one effect behind: absent, nothing was done; pending, one attempt at most took
  effect; completed, two at most.

`KeyedTwice` is the last part of `KeyTruth`, and `EndsAsPromised` follows from
`EndedByAnswer` by counting attempts.

### Scheduled payments

`ScheduledPaymentsProofs`: `TypeCorrect`, `MadeNoMoreOften`
(`[]MadeOncePerPeriod`), `TargetKept` (`[]TargetIsKept`), `BooksAreBalanced`
(`[]BooksBalance`) and `UnbookedWasLost` (`[]UnbookedNeedsCrash`), for any
payments, periods, targets, crashes and cancellations. What they need of the
constants is a hypothesis (`Constants`: periods are positive, `Never` is neither
a day nor a row) and not an `ASSUME`, because the module is an instance in the
runs; `ScheduledSet` of `CustomerScreensProofs` shows that both visits meet it.

- `InStep`: a row that will be paid again has its next date a whole period after
  the payments made so far; a payment that is put off gets a later date, and one
  that is made a date one period from today.
- `BelowTarget`: a row that will be paid again has not reached its target.
- `InHand`: while the worker holds a copy, only a cancellation can change the
  row, and it leaves the columns alone by which payments are counted; so the
  commit that merges the copy with the row (`Merged`) counts right even if it
  revives what was cancelled.
- `CopyIsBalance`: unless another request has booked meanwhile, the balance read
  at the beginning of a cycle is the balance when it is written back.

The model counts the payments of all rows as the size of a set, `AllMade`, which
holds the first, the second, ... payment of each row; `Coins` of
`BetweenAccounts` does the same for the cents. One more payment, or one cent
moved, is then one element more, or one for another, and the proof needs no
induction over rows or accounts.

### The screens of the payments

`PaymentScreensProofs` is about every visit of `PaymentScreens`, for any numbers
of accounts, retries, submissions, lookups and refreshes:

| theorem | statement |
|---|---|
| `ClaimsHold` | `VisitSpec => []ClaimsAreBacked` |
| `MoneyIsKept` | `VisitSpec => []MoneyKept`, if the bank starts within its overdraft |
| `TablesNeverGoBack` | `VisitSpec => NeverGoesBack` |
| `TypesHold` | `VisitSpec => []TypesOK` |

`MoneyKept` of the Fed tab says two things of the master account: until two
transfers have met at the gateway, it is what the gateway settled (`Position`);
and the balance *recorded* there keeps to the overdraft, unless FedNow is in use,
which compares a transfer with nothing (section 6). Of what was settled the
second is not true: two wires that meet are compared with the same balance, one
of the two writes is lost, and more is settled than the limit allows. Each screen
has its inductive invariant:

- `FedInv`: what the bank believes settled is settled, and the gateway has not
  seen what is still with the bank (`BankKnows`); the form's call is the last
  request the bank has received, so that its answer speaks of the transfer it
  announces (`CallIsLatest`).
- `FedBooks`: until two transfers have met, the gateway has one in hand at most,
  read from the balance that is still there; the balance then is the reserve and
  what was collected less what was paid out (`FedCounts`). `Headroom`: a wire the
  gateway has read has room on the balance it *read*, and the gateway writes that
  balance less the wire, not the current one less the wire.
- `BetweenInv`: the coins in the accounts are `Total`, those displayed as well,
  since what is displayed was all there was at one moment; a form that offers a
  choice names two accounts; and no more transfers were announced than calls
  have ended that were carried out. The guessed id of the form without accounts
  need not be the customer's, but then nothing is found and nothing moves.
- `VaultAccounts`, `VaultTold`, `VaultCreations`: every request names the
  customer's own accounts, whatever became of its call; the last one is that of
  the transfer under way and was carried out before it is reported; confirmations
  are no more than the creations that ended and were carried out, and those no
  more than the sub-accounts there are.
- `HubReceipt`, `HubLookups`: a receipt stands only while nothing is being sent,
  so that no step makes another transfer behind it; the last lookup under way is
  that of the number entered, and when there is none its institution is shown.
- `SendForm`: one call at most was sent by the form that is still mounted, and
  until it ends its entry had no success. A form that is left keeps its calls,
  and they may end after it; they no longer count for the new one.
- `InStep`: a refresh was read no earlier than those before it, and no earlier
  than what is shown, unless ClickHouse failed it. The table can go back to
  nothing at such an answer, and in no other way.

Calls, refreshes and requests are sequences of which steps append, remove or
replace one element; `Appended`, `Removed`, `Replaced` and `CallsAreFew` are the
lemmas about that.

### The screens around a customer

`CustomerScreensProofs` proves, for every visit of `CustomerScreens`,
`SessionsAreGuarded` (`[]SessionIsGuarded`), `OnceOnlyHolds` (`[]OnceOnly`),
`BooksKeptHolds` (`[]BooksKept`), `ScreensAgreeHold` (`[]ScreensAgree`) and
`CustomerTypesHold` (`[]TypesOK`), for any tabs, lifetimes, thresholds, payees, dialogs, intents, schedules, cards,
users and requests:

- `SessionInv`: what is taken for a token has been issued; the timers of a tab
  are those of its token; a tab that shows pages has a token and knows its user,
  or is logging out.
- `CaptchaInv`: tokens are spent after they are issued, and the token of a form
  that can be submitted is unspent.
- `BookInv`: at most one call changes the contacts, the flag of the page stands
  for it; for a page that is alone, `OnTheWay` relates what each call has done to
  the book with what is displayed.
- `DepositInv`: as many intents as dialogs at most. `KeysInOrder`: the key
  of the top-up tells how often an intent was credited (absent, never; pending,
  once; completed, twice), and one that is not `doubted` is credited once, the
  key of its confirmation pending only while that stands between its two commits; `PressesInOrder`: what a press of
  the button asks for is one intent, in every attempt; `AnswersInOrder`: what is
  answered, and with it what is announced, has its key completed, so that
  nothing will credit it again.
- `PaidInv`, `PaidOnceInv`: `HandledAlone`, for a request that was never in two
  hands, follows the one hand: what is in hand has not been paid, nothing is paid
  while the request is pending, and nothing after. That a second payment needs
  two calls to overlap is the most that can be claimed of a status that is read
  without a lock; section 6 has what happens when they do.
- `ScheduledInv`, `LongInv`: the invariants of `ScheduledPaymentsProofs`, whose
  lemmas are cited through an `INSTANCE` for each of the two visits.
- `UsersInv`: a deletion under way was confirmed with the masked email of its
  own user, and once it has succeeded that user has no account.
- `PagesInv`, `WindowPages`: the numbers offered are pages there are, the current
  one among them. Users are finitely many and a page holds one at least
  (`PagesConstants`).
- `CardsInv`: in every tab the copy by id (`Latest`) is that of the list, the
  selected card is in the list, and the one asked about is the selected one; the
  physical cards are in every list, and numbers to be given out are above all of
  them. It is stated for any set of tabs and used for both visits of the cards.
- `HidesInv`: details that are shown have a timer that goes off before they have
  been shown for `HideAfter`; timers left by earlier showings only come sooner.
- `PatientInv`: who waits for each answer has one dialog in hand; its intent, its
  deposits and its timers are those of this dialog, of the amount displayed.
- `PassInv`, `MailInv`, `PrefsInv`: while requests of a kind are `calm`, one is
  waited for at most, and a relation holds at each of its stages between what it
  carries, what is stored and what is announced. A change of the password was
  confirmed with what it carries unless the dialog was clicked as it left
  (`behind`).

The types bound what the screens count, and some of these bounds are claims
about the code that needed invariants of their own:

- `RegistryTypes`, for both visits: the page that is shown is at most one beyond
  the pages there can be, since a list has no more pages than users (`FewPages`,
  `TurnedPage`), and every erasure is of a user and of an email that can be typed.
- `CardTypes`: every copy of a card has a limit the slider offers; what a tab
  displays is the copy on its list (`CardShown`), so that freezing or limiting
  it puts nothing else into the storage.
- `SentTypes`: requests under way and logouts that are due are, together, no more
  than were sent. Neither part is bounded by itself: a request that ends with a
  stored password turns into a logout (`SentLess`).
- `PassWaits`, `MailWaits`, `SaveWaits`: the spinner of a form turns only while a
  request of this session is waited for. For the backup email this is an
  equivalence, and at most one request is waited for, because the form is closed
  meanwhile.
- `IntentsCounted`: a dialog asks for one intent, so there are no more intents
  than dialogs, although their answers come in any order.
- The sessions, the captcha, the contacts and the scheduled payments have their
  types from the invariants above.

`PassInv` was not inductive at first, and the model was at fault.
`handlePasswordUpdate` leaves `passSuccess` as it is, so that a request confirmed
in the dialog as it leaves is made below the announcement of the one before; if
it is carried out and its answer is lost, the page announces a password that is
no longer the one stored. This takes a fourth request, and the run has
fewer; with four TLC shows it. `calm` is now given up by a request made below an
announcement (`Announced`), and section 6 has the behaviour.

### The screens of the records

Two modules prove, for every visit of `RecordScreens` and for any rows, page
sizes, filters, records, times, digits and numbers of calls:

| theorem | statement | module |
|---|---|---|
| `ShownHolds` | `VisitSpec => []ShownIsAsked` | `RecordScreensProofs` |
| `DamageHolds` | `VisitSpec => []DamageNeedsFaults` | `RecordScreensProofs` |
| `FiguresHold` | `VisitSpec => []((At("chart") => ~DaylightSaving) => FiguresAddUp)` | `RecordFiguresProofs` |
| `RecordTypesHold` | `VisitSpec => []TypesOK` | `RecordFiguresProofs` |

The visits of `ShownHolds` are those in which answers come in the order of their
requests, none fails, and the amounts typed into the filter of the transactions
are integers (`TransactionsConstants`; any other is refused by the route, and
the list stays as it was). Of the chart, and of nothing else, `FiguresHold`
supposes a clock that is never changed (as on a machine set to UTC, and in the
run): when daylight saving begins or ends, two intervals overlap or leave an
hour out, and no claim about them is true then. Section 6 has what happens
otherwise.

- `ListInv`, `AuditInv`: the last call under way is that of the filter (of the
  timeframe) as it is now, and when none is under way, that is what is shown.
  Answers in order remove the first call and leave the last (`LastRemains`).
- `TablesInv`: the rows are numbered from 1, and the page there is exists unless
  rows were taken away under it. That the pages are a partition of the rows that
  pass is arithmetic: a place belongs to the page of its quotient (`Quotient`,
  `PlacesPaged`, `ListPaged`).
- `LogInv`, `LogCalls`: an offset is a multiple of the page, below the number of
  events the category holds. Events are only added (`HeldGrows`), so a total
  that was true is never too large, and the page turned to has a row when it is
  read, whatever is stored meanwhile (`RowsThere`).
- `AccountInv`: the two balances, those displayed and those on their way are of
  one moment: their sum is what the customer has in both accounts.
- `PoisonedInv`: the consumer with malformed messages has the invariants of
  `ConsumerProofs`, whose lemmas are cited through an `INSTANCE` of it with the
  other constants and variables; `SameNext` says that the visit's consumer is
  that one.

The rows that pass a filter are listed by `Ascending`, the smallest first. That
such a list exists is the lemma `InOrder`: the place of a number is how many are
smaller (`Ranked`), which needs no induction over the list. `Lists` holds
`Ascending` and the few operators of `SequencesExt` the screens use. An instance
copies all that its module extends, and with `SequencesExt` each of the dozen
screens would bring bags and their theorems along, at five times the cost of
every proof.

The figures (`FiguresAddUp`):

- Sums. The studio's maps and totals are sums over records and the check digits
  sums over places, which the community modules define by recursion over a set.
  The theorems of the library for induction take an operator, which the provers
  cannot instantiate; `SubsetsGrow` and `NumbersGrow` state induction with a
  *set* of the good cases instead, from the well-foundedness of the strict
  subsets of a finite set (`WellFoundedInduction`). With them a sum has its
  definition for every finite set (`SumIsTaken`), may be taken in any order
  (`OneTotal`, `AnyFirst`), and falls into the sums of the parts of a partition
  (`SumParts`), which is what `PartsAddUp` and `NetFlowsAgree` are about.
- `AnalyticsInv`: `BankInv`, of each movement ClickHouse was told `failed` if it
  failed, and never otherwise; `WorkerInv`, the worker has never heard a failed
  status, so that its late commit overwrites none; `PageInv`, a record that was
  fetched is that of the bank but for its status, which is one ClickHouse was
  told. "Declined" is therefore true of the bank whenever it is shown, and shown
  whenever it is true. Of "Settled" that cannot be said (section 6).
- `ChartInv`: the chart is looked at within a year of the transaction. That no
  month is skipped and none found twice (`MonthFound`, `MonthsGoOn`,
  `InOneInterval`) is arithmetic on the days of a year.
- `DigitsInv`: what was typed is a right number with one mistake. A wrong digit
  changes the weighted sum by a multiple of its weight, which is prime to ten
  (`Weighted`), and a swap by a multiple of the difference of the two digits
  (`RoutingSwap`, `NeighbourWeights`): two digits that differ by five are the
  exception in a routing number, 0 and 9 in a card number.
- The direction of a record is found by a chain of `if`s, more than one of which
  can hold. The model had them as the arms of a `CASE`, of which TLC takes the
  first and a proof may take any; it now says which comes first.

The types (`RecordTypesHold`) need invariants where they bound what is under way:
`AuditTypesInv` (a fetch carries transactions there were), `LogTypesInv` (an
offset is as many pages as actions were taken at most) and `AccountTypesInv`
with `ReadsFew` (balances being read are no more than the polls and transfers
that asked for them).

### What stays with TLC

Every invariant and action property of the passing runs is proved. TLC alone
has shown:

- Liveness: `EveryRequestEnds`, `EveryTransactionReported`, `OpenIsCleared`,
  `ReportConverges`, `EveryCallSettles`, `PaymentsSettle`, `ScreensCatchUp`,
  `MalformedBlocksNothing`, `EverythingEnds`, and `NothingIsLost` of the
  channel. The prover does not reason about fairness and ENABLED.
- The refinement of the liveness of `Channel` (the safety of `ImplementsChannel`
  is proved).

And it has checked that the hypotheses can be met, with the constants of the
runs.

## 6. Where code and claims part

Violation runs show four disagreements with what the repository says of itself
(`findings` in `PROJECT.json`). Modelling the rest showed these as well; no
property claims otherwise, and the modules behave as the code does.

Money and payments

- The client's own retry of a keyed p2p transfer executes it a second time, for
  the first success leaves the key pending (`idempotency.py:30-41`); only the
  second completes it. An error can be answered after the money has moved: a
  500 for the second commit (`accounts.py:171`), a 502 or 504 of the proxy, a
  502 of a wire that was settled.
- A deposit is credited twice when its confirmation dies between the credit and
  the second commit, or is sent again meanwhile (`deposit_service.py:69-71`,
  `deposit.py:152-154`).
- A vendor call that times out after the vendor executed the bill is recorded as
  failed, with the balance debited (`transfer_service.py:68`). When the simulator
  is down, `get_vendors` is empty and a scheduled bill fails for good
  (`scheduled_payments_worker.py:31`, 91).
- A request read while another payment holds the accounts is paid a second
  time (`transfer_service.py:148`, against "Request inactive", 154).
- `postRequest` (`lib/api/transfers.ts:76-83`) carries no key, against
  `frontend/README.md:66` "Idempotent money requests": a lost answer creates up
  to three requests. The requester, not the target, gets the notification
  (`routers/transfers.py:173`).
- The smart hub sends `parseFloat` of dollars where the routes count cents
  (`SmartTransferHub.tsx:145`, against `backend/schemas/transfers.py:76`), and
  its receipt shows the form, not the transfer (509).
- A cancelled scheduled payment whose balance is short becomes `Retrying` again
  (`scheduled_payments_worker.py:144`); the form's "daily", "weekly", "monthly"
  are unknown to `calculate_next_run_at` (`date_utils.py:50`), and such a
  payment is never made; `retry_count` is never reset (133).
- The Fed endpoints compare the balance with the amount and take nothing from
  it (`routers/transfers.py:324`); two wires that meet at the gateway are compared
  with the same master balance, and one of their two effects is lost
  (`fedwire.py:79`), so that more is settled than the limit allows; the transfer
  is called again without a key
  and settled again; an outgoing ACH payment is added to the master account
  (`ach.py:147`); FedNow ignores the overdraft limit (`fednow.py:79`).
- A missing vault is provisioned and the transfer goes to a guessed id
  (`VaultTransferModal.tsx:96`); the limit of sub-accounts is counted before
  the insert (`account_service.py:77`).
- The deposit dialog confirms the intent answered last, of another amount if it
  was opened again (`DepositModal.tsx:44`), tells the end of an earlier deposit
  (97), calls a lost answer "Deposit Declined" (101), and shows
  "Initialization Failed" over a deposit under way (70).

Session and captcha

- A renewal answered after a logout signs the browser in again
  (`AuthContext.tsx:148`); a tab's expiry timer signs out a token another tab
  has renewed (137).
- The password dialog says "You will be logged out globally"
  (`profile/page.tsx:477-478`); `get_current_user` (`auth_utils.py:85-124`)
  checks the JWT alone, so other sessions live on. The timer that signs out
  after the change may find a later session; the form can be edited behind the
  dialog. A click on the dialog as it leaves sends a request below the
  announcement of the last one, which stays whatever becomes of it (90-128).

Lists and lookups

- Answers of older lookups and filters replace newer ones:
  `SmartTransferHub.tsx:91`, `FedTransferTab.tsx:73`, `send/page.tsx:94`,
  `activity/page.tsx:115`, `transactions/page.tsx:52`, `BankingDashboard.tsx:56`.
- A page number survives the rows it belonged to
  (`RequestHistoryTable.tsx:84`, `activity/page.tsx:291`).
- Errors of ClickHouse are empty lists (`dashboard.py:105`, 216): the history of
  the Transfer Center vanishes until the next refresh (`send/page.tsx:94`); a minimum of
  "12.50" is refused (174); the account page's filter is ignored (171).
- No route accepts the WebSocket the activity page listens to (`main.py:24`).
- The admin ledger's query has parameters clickhouse-connect does not bind
  (`admin_service.py:210-232`): it fails, and PostgreSQL answers with the newest
  rows whatever the filter (258-263). Failed metrics are shown as invented
  figures (`admin/page.tsx:132`, 166); the inspector says "CLEARED & SETTLED"
  whatever the status (`BankingDashboard.tsx:527`).

Copies and figures

- Editing a contact empties its merchant and bank fields
  (`contact_service.py:74`); two additions that both checked are both inserted
  (46).
- The user erased need not be the one the dialog was opened for
  (`UserManagement.tsx:111`); a failed ClickHouse purge is logged only
  (`admin_service.py:44`); a user with a subscription cannot be erased (28); the
  window of pages repeats numbers (`UserManagement.tsx:358`).
- A card deleted in one tab is saved again by another
  (`CardSecurityHub.tsx:134`); the preview keeps the frozen state of the first
  card (`DigitalCardPreview.tsx:28`) and hides after 12 s, not 10 (40).
- The daily check reports what the bank has as `sent_to_kafka` as `cleared`
  (`sync_checker.py:71`), and the screens show it as settled before the bank
  clears it; so they do when the worker takes the bank's `cleared` back
  (`outbox_service.py:103`).
- Chart intervals leave out the end of a range (`utils.ts:381`) and overlap
  when the clock changes (402); shares divide inflows by outflows
  (`AnalyticsStudio.tsx:74`); `processing` is unknown to
  `transactionUtils.ts:10`; a refused bill has a receipt headed "Payment Cleared
  & Settled" (`ReceiptModal.tsx:108`); two tables of Fed districts differ
  (`routingUtils.ts:363`).

## 7. Not modelled

- `v2/`: the dispatcher calls the settlement engine's coroutine without
  awaiting it (`gateway.py:78`), so no message is ever settled; nothing else in
  the system calls it.
- `financial-life-simulator`: a client of the routes `Ledger` models.
- Returns, statements and the registry of the Fed gateway; cancellation of
  subscriptions; `POST /transfer`, which records without moving.
- The toasts of a deposit; the answer 200 without a credit of
  `deposit_service.py:48-50`, for a customer without a main account, whom
  `create_payment_method` refuses before anything is confirmed
  (`deposit.py:112-114`).
- Registration, password hashing, encryption of account numbers.
- The rest of the frontend: `QueryBuilder`, `DatabaseConfig`, the log tables and
  simulator buttons of the admin page, `SimLabDrawer`, stories and carousels,
  headers and error boundaries show what other parts hold, or make one call
  whose answer is displayed. `lib/errorLogger.ts` is imported by nobody.
- Migrations, scripts, deployment.
