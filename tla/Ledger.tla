------------------------------- MODULE Ledger -------------------------------
(***************************************************************************)
(* The handlers of the backend that move money, run concurrently against   *)
(* Postgres (READ COMMITTED), each in an SQLAlchemy session of its own:    *)
(* routers/transfers.py (p2p), routers/accounts.py (internal),             *)
(* routers/admin.py (credit), services/transfer_service.py (p2p, vendor)   *)
(* and services/deposit_service.py (top-up, subscription), together with   *)
(* the idempotency protocol of idempotency.py that wraps every one.        *)
(*                                                                         *)
(* An intent is what a client (or a webhook) wants done and carries one    *)
(* idempotency key; an attempt is one HTTP request for an intent.  A       *)
(* client may send any number of attempts, concurrently or after an        *)
(* earlier one was answered, failed or was lost.                           *)
(*                                                                         *)
(* Two facts of the session decide everything here.  A row that the        *)
(* session already holds is not refreshed by a later SELECT ... FOR UPDATE *)
(* (the query does not ask for populate_existing), and a changed row is    *)
(* written back as an absolute value when the session commits.  And the    *)
(* session does not autoflush, so the key row that check_idempotency adds  *)
(* is not visible to complete_idempotency before a commit.                 *)
(***************************************************************************)
EXTENDS Integers, FiniteSets, FiniteSetsExt

CONSTANTS Account,   \* rows of accounts
          Intent,    \* client intents, one idempotency key each
          Attempt,   \* HTTP requests, the bound on retries
          Amount,    \* positive amounts of cents
          Opening,   \* the balance of each account at the start
          Kinds,     \* the handlers that are in play
          NoOne      \* the holder of a lock nobody holds

Debits == {"p2p", "internal", "vendor", "subscription"}
Credits == {"p2p", "internal", "topup", "admin"}

(* Mutant: an internal transfer fetches its accounts before it locks them. *)
ReadsFirst_Internal == {"p2p", "admin", "internal"}
(* Handlers that SELECT the account without a lock before anything else.   *)
ReadsFirst == {"p2p", "admin"}
(* Handlers that SELECT ... FOR UPDATE the accounts they change.           *)
LocksRows == {"p2p", "internal", "vendor", "topup", "subscription"}
(* Handlers whose service commits before complete_idempotency runs.        *)
CommitsTwice == {"internal", "vendor"}

ASSUME LedgerAssumption ==
    /\ Amount \subseteq Nat \ {0}
    /\ Opening \in [Account -> Nat]
    /\ Kinds \subseteq Debits \cup Credits
    /\ NoOne \notin Attempt

VARIABLES
    \* the database
    balance,      \* accounts.balance
    posted,       \* the movements committed: rows of transactions/subscriptions
    keyRow,       \* idempotency_keys.status per intent, "absent" without a row
    rowLock,      \* who holds the row lock of an account
    keyLock,      \* who holds the row lock of an idempotency key
    \* the request handlers
    order,        \* what each intent asks for
    serving,      \* the intent an attempt is for
    pc,           \* how far an attempt is
    loaded,       \* the accounts in the session's identity map
    seen,         \* their balance attribute in the session
    insertsKey,   \* the session will INSERT the pending key when it flushes
    \* the vendor simulator
    vendorSays,   \* the status the handler got back
    vendorPaid    \* the attempts whose bill the vendor executed

db == <<balance, posted, keyRow>>
locks == <<rowLock, keyLock>>
session == <<loaded, seen, insertsKey>>
vendor == <<vendorSays, vendorPaid>>
vars == <<balance, posted, keyRow, rowLock, keyLock, order, serving, pc,
          loaded, seen, insertsKey, vendorSays, vendorPaid>>

Order == {o \in [kind : Kinds, from : Account, to : Account, amount : Amount] :
             o.from # o.to}

Working == {"check", "load", "call", "complete", "commit", "recheck"}
Answered == {"replayed", "rejected", "failed", "done"}
Over == Answered \cup {"crashed"}

Movement == [by : Attempt, account : Account, amount : Int]

TypeOK ==
    /\ balance \in [Account -> Int]
    /\ posted \subseteq Movement
    /\ keyRow \in [Intent -> {"absent", "pending", "completed"}]
    /\ rowLock \in [Account -> Attempt \cup {NoOne}]
    /\ keyLock \in [Intent -> Attempt \cup {NoOne}]
    /\ order \in [Intent -> Order]
    /\ serving \in [Attempt -> Intent]
    /\ pc \in [Attempt -> {"idle"} \cup Working \cup Over]
    /\ loaded \in [Attempt -> SUBSET Account]
    /\ seen \in [Attempt -> [Account -> Int]]
    /\ insertsKey \in [Attempt -> BOOLEAN]
    /\ vendorSays \in [Attempt -> {"nothing", "CLEARED", "FAILED"}]
    /\ vendorPaid \subseteq Attempt

-----------------------------------------------------------------------------
Ask(p) == order[serving[p]]

Touched(o) == (IF o.kind \in Debits THEN {o.from} ELSE {})
              \cup (IF o.kind \in Credits THEN {o.to} ELSE {})

(* What an order adds to the balance of account a.                         *)
Delta(o, a) ==
    IF a = o.from /\ o.kind \in Debits THEN 0 - o.amount
    ELSE IF a = o.to /\ o.kind \in Credits THEN o.amount ELSE 0

Movements(p) ==
    {[by |-> p, account |-> a, amount |-> Delta(Ask(p), a)] : a \in Touched(Ask(p))}

Executed(i) == {p \in Attempt : serving[p] = i /\ \E m \in posted : m.by = p}

(* The rows the session has still to lock.                                 *)
Unlocked(p) == IF Ask(p).kind \in LocksRows
               THEN {a \in Touched(Ask(p)) : rowLock[a] # p} ELSE {}

(* The rows the session has still to read before it locks any.             *)
Unread(p) == IF Ask(p).kind \in ReadsFirst THEN Touched(Ask(p)) \ loaded[p] ELSE {}

Init ==
    /\ balance = Opening
    /\ posted = {}
    /\ keyRow = [i \in Intent |-> "absent"]
    /\ rowLock = [a \in Account |-> NoOne]
    /\ keyLock = [i \in Intent |-> NoOne]
    /\ order \in [Intent -> Order]
    /\ serving \in [Attempt -> Intent]
    /\ pc = [p \in Attempt |-> "idle"]
    /\ loaded = [p \in Attempt |-> {}]
    /\ seen = [p \in Attempt |-> [a \in Account |-> 0]]
    /\ insertsKey = [p \in Attempt |-> FALSE]
    /\ vendorSays = [p \in Attempt |-> "nothing"]
    /\ vendorPaid = {}

(* The end of a database transaction gives up all its row locks.           *)
Release(p) ==
    /\ rowLock' = [a \in Account |-> IF rowLock[a] = p THEN NoOne ELSE rowLock[a]]
    /\ keyLock' = [i \in Intent |-> IF keyLock[i] = p THEN NoOne ELSE keyLock[i]]

(* ROLLBACK, and the answer the client gets.                               *)
Rollback(p, answer) ==
    /\ pc' = [pc EXCEPT ![p] = answer]
    /\ Release(p)
    /\ UNCHANGED <<db, order, serving, session, vendor>>

Goto(p, where) == pc' = [pc EXCEPT ![p] = where]

-----------------------------------------------------------------------------
Receive(p) ==
    /\ pc[p] = "idle"
    /\ Goto(p, "check")
    /\ UNCHANGED <<db, locks, order, serving, session, vendor>>

(* Mutant: the pending key is committed before the operation runs.         *)
FirstCall_Commits(p) ==
    /\ pc[p] = "check" /\ keyRow[serving[p]] = "absent"
    /\ keyRow' = [keyRow EXCEPT ![serving[p]] = "pending"]
    /\ Goto(p, "load")
    /\ UNCHANGED <<balance, posted, locks, order, serving, session, vendor>>

(* check_idempotency: no row, so one is added to the session, unflushed.   *)
FirstCall(p) ==
    /\ pc[p] = "check" /\ keyRow[serving[p]] = "absent"
    /\ insertsKey' = [insertsKey EXCEPT ![p] = TRUE]
    /\ Goto(p, "load")
    /\ UNCHANGED <<db, locks, order, serving, loaded, seen, vendor>>

(* Mutant: check_idempotency selects the row without FOR UPDATE.           *)
InFlight_Unlocked(p) ==
    /\ pc[p] = "check" /\ keyRow[serving[p]] = "pending"
    /\ Goto(p, "load")
    /\ UNCHANGED <<db, locks, order, serving, session, vendor>>

(* check_idempotency: the row is locked, found pending, and the call       *)
(* proceeds.                                                               *)
InFlight(p) ==
    /\ pc[p] = "check" /\ keyRow[serving[p]] = "pending"
    /\ keyLock[serving[p]] = NoOne
    /\ keyLock' = [keyLock EXCEPT ![serving[p]] = p]
    /\ Goto(p, "load")
    /\ UNCHANGED <<db, rowLock, order, serving, session, vendor>>

(* check_idempotency: the saved response is returned.                      *)
Replay(p) ==
    /\ pc[p] = "check" /\ keyRow[serving[p]] = "completed"
    /\ keyLock[serving[p]] = NoOne
    /\ Goto(p, "replayed")
    /\ UNCHANGED <<db, locks, order, serving, session, vendor>>

(* A plain SELECT puts the row, as committed now, into the identity map.   *)
ReadAccount(p, a) ==
    /\ pc[p] = "load" /\ a \in Unread(p)
    /\ loaded' = [loaded EXCEPT ![p] = @ \cup {a}]
    /\ seen' = [seen EXCEPT ![p][a] = balance[a]]
    /\ UNCHANGED <<db, locks, order, serving, pc, insertsKey, vendor>>

(* SELECT ... FOR UPDATE locks its rows one by one, in the order of the    *)
(* plan's scan (there is no ORDER BY), and fills the identity map only     *)
(* with rows that are not in it yet.                                       *)
LockAccount(p, a) ==
    /\ pc[p] = "load" /\ Unread(p) = {} /\ a \in Unlocked(p)
    /\ rowLock[a] = NoOne
    /\ rowLock' = [rowLock EXCEPT ![a] = p]
    /\ loaded' = [loaded EXCEPT ![p] = @ \cup {a}]
    /\ seen' = IF a \in loaded[p] THEN seen ELSE [seen EXCEPT ![p][a] = balance[a]]
    /\ UNCHANGED <<db, keyLock, order, serving, pc, insertsKey, vendor>>

HasRows(p) == pc[p] = "load" /\ Unread(p) = {} /\ Unlocked(p) = {}

(* Mutant: the balance is not compared with the amount.                    *)
Covered_Unchecked(p) == pc[p] = "load"

Covered(p) == Ask(p).kind \in Debits => seen[p][Ask(p).from] >= Ask(p).amount

(* "Insufficient funds": the request ends and its session rolls back.      *)
Reject(p) == HasRows(p) /\ ~Covered(p) /\ Rollback(p, "rejected")

(* Mutant: a bill is booked without calling the vendor.                    *)
Accept_SkipsVendor(p) ==
    /\ HasRows(p) /\ Covered(p)
    /\ Goto(p, IF Ask(p).kind \in CommitsTwice THEN "commit" ELSE "complete")
    /\ UNCHANGED <<db, locks, order, serving, session, vendor>>

(* The balances are changed in the session; what comes next is the call of *)
(* the vendor, the service's own commit, or complete_idempotency.          *)
Accept(p) ==
    /\ HasRows(p) /\ Covered(p)
    /\ Goto(p, IF Ask(p).kind = "vendor" THEN "call"
               ELSE IF Ask(p).kind \in CommitsTwice THEN "commit" ELSE "complete")
    /\ UNCHANGED <<db, locks, order, serving, session, vendor>>

(* execute_vendor_payment_immediate, with the row lock held: the bill is   *)
(* executed and reported so, refused, or executed with the answer lost.    *)
CallVendor(p) ==
    /\ pc[p] = "call"
    /\ \E executed \in BOOLEAN, says \in {"CLEARED", "FAILED"} :
          /\ says = "CLEARED" => executed
          /\ vendorSays' = [vendorSays EXCEPT ![p] = says]
          /\ vendorPaid' = IF executed THEN vendorPaid \cup {p} ELSE vendorPaid
    /\ Goto(p, "commit")
    /\ UNCHANGED <<db, locks, order, serving, session>>

(* complete_idempotency before the only commit: FOR UPDATE waits for the   *)
(* row if one is committed; a row this session only added is not found.    *)
Complete(p) ==
    /\ pc[p] = "complete"
    /\ \/ keyRow[serving[p]] = "absent" /\ keyLock' = keyLock
       \/ /\ keyRow[serving[p]] # "absent"
          /\ keyLock[serving[p]] \in {p, NoOne}
          /\ keyLock' = [keyLock EXCEPT ![serving[p]] = p]
    /\ Goto(p, "commit")
    /\ UNCHANGED <<db, rowLock, order, serving, session, vendor>>

(* Mutant: idempotency_keys.key is not UNIQUE.                             *)
KeyTaken_NotUnique(p) == insertsKey[p] /\ pc[p] = "idle"

KeyTaken(p) == insertsKey[p] /\ keyRow[serving[p]] # "absent"

(* What the commit leaves in the key row: the pending row it inserts, the  *)
(* pending row it only locked, or the row complete_idempotency marked.     *)
KeyAfterCommit(p) ==
    IF insertsKey[p] \/ Ask(p).kind \in CommitsTwice THEN "pending" ELSE "completed"

(* Flush and COMMIT: balances are written as absolute values; a row that   *)
(* was never locked (admin credit) is waited for here.                     *)
Commit(p) ==
    /\ pc[p] = "commit" /\ ~KeyTaken(p)
    /\ \A a \in Touched(Ask(p)) : rowLock[a] \in {p, NoOne}
    /\ balance' = [a \in Account |-> IF a \in Touched(Ask(p))
                                     THEN seen[p][a] + Delta(Ask(p), a) ELSE balance[a]]
    /\ posted' = posted \cup Movements(p)
    /\ keyRow' = [keyRow EXCEPT ![serving[p]] = KeyAfterCommit(p)]
    /\ Release(p)
    /\ Goto(p, IF Ask(p).kind \in CommitsTwice THEN "recheck" ELSE "done")
    /\ UNCHANGED <<order, serving, session, vendor>>

(* The flush inserts a key that another request has committed meanwhile:   *)
(* the UNIQUE constraint raises IntegrityError and all of it rolls back.   *)
DuplicateKey(p) == pc[p] = "commit" /\ KeyTaken(p) /\ Rollback(p, "failed")

(* Mutants: the key gets a status that check_idempotency does not know;    *)
(* the handler answers without completing the key.                         *)
FinishKey_WrongStatus(p) ==
    /\ pc[p] = "recheck" /\ keyLock[serving[p]] = NoOne
    /\ keyRow' = [keyRow EXCEPT ![serving[p]] = "success"]
    /\ Goto(p, "done")
    /\ UNCHANGED <<balance, posted, locks, order, serving, session, vendor>>

FinishKey_Skipped(p) ==
    /\ pc[p] = "recheck" /\ keyLock[serving[p]] = NoOne
    /\ Goto(p, "done")
    /\ UNCHANGED <<db, locks, order, serving, session, vendor>>

(* complete_idempotency and the second commit of the two-commit handlers.  *)
FinishKey(p) ==
    /\ pc[p] = "recheck" /\ keyLock[serving[p]] = NoOne
    /\ keyRow' = [keyRow EXCEPT ![serving[p]] = "completed"]
    /\ Goto(p, "done")
    /\ UNCHANGED <<balance, posted, locks, order, serving, session, vendor>>

(* The API process dies: Postgres rolls its open transactions back.        *)
Crash(p) == pc[p] \in Working /\ Rollback(p, "crashed")

(* Whom p's statement is waiting for.                                      *)
WaitsFor(p) ==
    LET key == {keyLock[serving[p]]} \ {p, NoOne}
        rows(S) == {rowLock[a] : a \in S} \ {p, NoOne}
    IN CASE pc[p] \in {"check", "complete"} ->
                IF keyRow[serving[p]] = "absent" THEN {} ELSE key
         [] pc[p] = "recheck" -> key
         [] pc[p] = "commit" -> rows(Touched(Ask(p)))
         [] pc[p] = "load" /\ Unread(p) = {}
            /\ \A a \in Unlocked(p) : rowLock[a] # NoOne -> rows(Unlocked(p))
         [] OTHER -> {}

(* Mutant: a circular wait goes undetected.                                *)
Deadlocked_Undetected(p) == pc[p] = "idle" /\ WaitsFor(p) # {}

Deadlocked(p) ==
    \E S \in SUBSET Attempt :
        /\ p \in S
        /\ \A q \in S : (\E r \in S : r \in WaitsFor(q)) /\ (\E r \in S : q \in WaitsFor(r))

(* Postgres' deadlock detector aborts one of the transactions.             *)
AbortDeadlock(p) == Deadlocked(p) /\ Rollback(p, "failed")

Handle(p) ==
    \/ FirstCall(p) \/ InFlight(p) \/ Replay(p)
    \/ \E a \in Account : ReadAccount(p, a) \/ LockAccount(p, a)
    \/ Reject(p) \/ Accept(p) \/ CallVendor(p)
    \/ Complete(p) \/ Commit(p) \/ DuplicateKey(p) \/ FinishKey(p)
    \/ AbortDeadlock(p)

(* Every request has been sent and has ended.                              *)
Quiet == (\A p \in Attempt : pc[p] \in Over) /\ UNCHANGED vars

Next == (\E p \in Attempt : Receive(p) \/ Handle(p) \/ Crash(p)) \/ Quiet

Spec == Init /\ [][Next]_vars

(* The event loop runs every handler that can proceed; clients need not    *)
(* send anything and nothing needs to crash.                               *)
FairSpec == Spec /\ \A p \in Attempt : WF_vars(Handle(p))

-----------------------------------------------------------------------------
Atomic == INSTANCE AtomicLedger

(* Handlers that read every row they write under its lock                  *)
(* (execute_internal_transfer, _handle_vendor_payment,                     *)
(* _atomic_topup_balance, handle_checkout_completed) are serializable:     *)
(* each commit finds the funds it takes and changes the balances by        *)
(* exactly the movements it books, whatever ran in between.                *)
ImplementsAtomic == Atomic!Spec

(* No interleaving of any handlers drives an account below zero: the check *)
(* "balance < amount" and the value written back are of the same session   *)
(* copy, even where that copy is stale.                                    *)
NoOverdraft == \A a \in Account : balance[a] >= 0

(* An idempotency key exists in the database exactly when its operation    *)
(* has been executed: check_idempotency's row is committed with the        *)
(* movements and never before or after them.                               *)
KeyIffExecuted == \A i \in Intent : keyRow[i] = "absent" <=> Executed(i) = {}

(* Where the service leaves the commit to the router (p2p, credit, top-up, *)
(* subscription), no number of retries, concurrent or not, executes an     *)
(* intent more than twice.                                                 *)
AtMostTwice == \A i \in Intent :
    order[i].kind \notin CommitsTwice => Cardinality(Executed(i)) <= 2

(* For the same handlers, once a key is completed not even an attempt that *)
(* passed check_idempotency before executes the intent again.              *)
CompletedKeyIsFinal ==
    [][\A i \in Intent : order[i].kind \notin CommitsTwice /\ keyRow[i] = "completed"
          => Executed(i)' = Executed(i)]_vars

(* An internal transfer or a vendor payment that was answered is replayed  *)
(* from then on: the second commit has completed its key.                  *)
AnsweredIsReplayed == \A p \in Attempt :
    pc[p] = "done" /\ Ask(p).kind \in CommitsTwice => keyRow[serving[p]] = "completed"

(* The bank books a bill as paid only if the vendor said so and executed   *)
(* it, and a bill the vendor executed is booked unless the handler failed  *)
(* between the call and its commit.                                        *)
VendorBooked == \A p \in Attempt : Ask(p).kind = "vendor" =>
    /\ (\E m \in posted : m.by = p) => vendorSays[p] # "nothing"
    /\ vendorSays[p] = "CLEARED" => p \in vendorPaid
    /\ p \in vendorPaid => \/ \E m \in posted : m.by = p
                           \/ pc[p] \in {"commit", "failed", "crashed"}

(* Every request that is received ends: row locks that are taken in        *)
(* opposite orders are a deadlock, and the database resolves it.           *)
EveryRequestEnds == \A p \in Attempt : pc[p] = "check" ~> pc[p] \in Over

(* "Atomically update balances for both accounts" (_execute_p2p_balances): *)
(* the balances are the opening ones plus all that was booked.             *)
BooksBalance == \A a \in Account :
    balance[a] = Opening[a] + MapThenSumSet(LAMBDA m : m.amount,
                                            {m \in posted : m.account = a})

(* "Without this, the key stays 'pending' forever and a redelivered        *)
(* webhook reprocesses the deposit every time instead of being deduped"    *)
(* (_atomic_topup_balance): with it, an intent is executed once.           *)
ExecutedOnce == \A i \in Intent : Cardinality(Executed(i)) <= 1
=============================================================================
