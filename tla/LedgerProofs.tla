---------------------------- MODULE LedgerProofs ----------------------------
(* Theorems about Ledger, for every set of accounts, intents and attempts, *)
(* every set of amounts and every choice of handlers.                      *)
EXTENDS Ledger, FiniteSetTheorems, TLAPS

(* The states of a request whose database transaction is open and has      *)
(* passed check_idempotency.                                               *)
InTx == {"load", "call", "complete", "commit"}

(* No session copy of a balance is negative, and what was checked against  *)
(* the copy still holds of it when the copy is written back.               *)
Funds ==
    /\ \A a \in Account : balance[a] >= 0
    /\ \A p \in Attempt, a \in Account : seen[p][a] >= 0
    /\ \A p \in Attempt : pc[p] \in {"call", "complete", "commit"} => Covered(p)

(* A request that did not add the key holds the lock of a pending key.     *)
HoldsKey == \A p \in Attempt :
    pc[p] \in InTx /\ ~insertsKey[p] =>
        keyLock[serving[p]] = p /\ keyRow[serving[p]] = "pending"

(* The status of the key bounds the number of executions.                  *)
KeyCounts == \A i \in Intent : order[i].kind \notin CommitsTwice =>
    /\ keyRow[i] = "pending" => \E x \in Attempt : Executed(i) \subseteq {x}
    /\ keyRow[i] = "completed" => \E x, y \in Attempt : Executed(i) \subseteq {x, y}

(* Only a two-commit handler finishes its key separately, after the first  *)
(* commit has put it there, and it is not done before the key is.          *)
Finished == \A p \in Attempt :
    /\ pc[p] = "recheck" => Ask(p).kind \in CommitsTwice /\ keyRow[serving[p]] # "absent"
    /\ pc[p] = "done" /\ Ask(p).kind \in CommitsTwice => keyRow[serving[p]] = "completed"

(* The inductive invariant of the idempotency protocol.                    *)
KeyInv == TypeOK /\ HoldsKey /\ KeyIffExecuted /\ KeyCounts /\ Finished

(* Where every row is read under its lock, the rows a session has loaded   *)
(* are exactly those it has locked, and they equal the committed ones.     *)
Isolated == \A p \in Attempt :
    /\ pc[p] \in {"idle", "check"} => loaded[p] = {}
    /\ pc[p] = "load" => \A a \in loaded[p] : rowLock[a] = p
    /\ pc[p] \in {"call", "complete", "commit"} =>
          \A a \in Touched(Ask(p)) : rowLock[a] = p
    /\ \A a \in Account : rowLock[a] = p =>
          pc[p] \in InTx /\ a \in loaded[p] /\ seen[p][a] = balance[a]
    /\ pc[p] \in {"idle", "check"} \cup InTx => \A m \in posted : m.by # p

-----------------------------------------------------------------------------
LEMMA TouchedAccounts ==
    ASSUME NEW o \in Order
    PROVE  /\ Touched(o) \subseteq Account
           /\ Touched(o) # {}
BY LedgerAssumption DEF Order, Touched, Debits, Credits

LEMMA DeltaType ==
    ASSUME NEW o \in Order, NEW a \in Account
    PROVE  /\ Delta(o, a) \in Int
           /\ o.amount \in Nat
           /\ ~(a = o.from /\ o.kind \in Debits) => Delta(o, a) >= 0
           /\ a = o.from /\ o.kind \in Debits => Delta(o, a) = 0 - o.amount
<1>1. o.amount \in Nat
  BY LedgerAssumption DEF Order
<1> QED
  BY <1>1 DEF Delta

LEMMA AskType ==
    ASSUME TypeOK, NEW p \in Attempt
    PROVE  Ask(p) \in Order /\ serving[p] \in Intent
BY DEF TypeOK, Ask

(* Every state keeps the types.                                            *)
LEMMA TypeInit == Init => TypeOK
BY LedgerAssumption DEF Init, TypeOK

LEMMA RollbackType ==
    ASSUME TypeOK, NEW p \in Attempt, NEW answer \in Over, Rollback(p, answer)
    PROVE  TypeOK'
BY DEF TypeOK, Rollback, Release, db, session, vendor, Over

LEMMA TypeStep == TypeOK /\ [Next]_vars => TypeOK'
<1> SUFFICES ASSUME TypeOK, [Next]_vars PROVE TypeOK'
  OBVIOUS
<1> USE DEF Over, Answered, Working
<1>1. ASSUME NEW p \in Attempt, Receive(p) PROVE TypeOK'
  BY <1>1 DEF TypeOK, Receive, Goto, db, locks, session, vendor
<1>2. ASSUME NEW p \in Attempt, FirstCall(p) PROVE TypeOK'
  BY <1>2 DEF TypeOK, FirstCall, Goto, db, locks, vendor
<1>3. ASSUME NEW p \in Attempt, InFlight(p) PROVE TypeOK'
  BY <1>3 DEF TypeOK, InFlight, Goto, db, session, vendor
<1>4. ASSUME NEW p \in Attempt, Replay(p) PROVE TypeOK'
  BY <1>4 DEF TypeOK, Replay, Goto, db, locks, session, vendor
<1>5. ASSUME NEW p \in Attempt, NEW a \in Account, ReadAccount(p, a) PROVE TypeOK'
  BY <1>5 DEF TypeOK, ReadAccount, db, locks, vendor
<1>6. ASSUME NEW p \in Attempt, NEW a \in Account, LockAccount(p, a) PROVE TypeOK'
  BY <1>6 DEF TypeOK, LockAccount, db, vendor
<1>7. ASSUME NEW p \in Attempt, Reject(p) PROVE TypeOK'
  BY <1>7, RollbackType DEF Reject
<1>8. ASSUME NEW p \in Attempt, Accept(p) PROVE TypeOK'
  BY <1>8 DEF TypeOK, Accept, Goto, db, locks, session, vendor
<1>9. ASSUME NEW p \in Attempt, CallVendor(p) PROVE TypeOK'
  BY <1>9 DEF TypeOK, CallVendor, Goto, db, locks, session
<1>10. ASSUME NEW p \in Attempt, Complete(p) PROVE TypeOK'
  BY <1>10 DEF TypeOK, Complete, Goto, db, session, vendor
<1>11. ASSUME NEW p \in Attempt, Commit(p) PROVE TypeOK'
  <2> Ask(p) \in Order /\ Touched(Ask(p)) \subseteq Account
    BY AskType, TouchedAccounts
  <2>1. \A a \in Account : Delta(Ask(p), a) \in Int /\ seen[p][a] \in Int
    BY DeltaType DEF TypeOK
  <2>2. balance' \in [Account -> Int]
    BY <1>11, <2>1 DEF Commit, TypeOK
  <2>3. posted' \subseteq Movement
    <3>1. Movements(p) \subseteq Movement
      BY <2>1 DEF Movements, Movement
    <3> QED BY <1>11, <3>1 DEF Commit, TypeOK
  <2>4. keyRow' \in [Intent -> {"absent", "pending", "completed"}]
    BY <1>11 DEF Commit, TypeOK, KeyAfterCommit
  <2>5. /\ rowLock' \in [Account -> Attempt \cup {NoOne}]
        /\ keyLock' \in [Intent -> Attempt \cup {NoOne}]
    BY <1>11 DEF Commit, TypeOK, Release
  <2> QED
    BY <1>11, <2>2, <2>3, <2>4, <2>5 DEF Commit, TypeOK, Goto, session, vendor
<1>12. ASSUME NEW p \in Attempt, DuplicateKey(p) PROVE TypeOK'
  BY <1>12, RollbackType DEF DuplicateKey
<1>13. ASSUME NEW p \in Attempt, FinishKey(p) PROVE TypeOK'
  BY <1>13 DEF TypeOK, FinishKey, Goto, locks, session, vendor
<1>14. ASSUME NEW p \in Attempt, AbortDeadlock(p) PROVE TypeOK'
  BY <1>14, RollbackType DEF AbortDeadlock
<1>15. ASSUME NEW p \in Attempt, Crash(p) PROVE TypeOK'
  BY <1>15, RollbackType DEF Crash
<1>16. ASSUME UNCHANGED vars PROVE TypeOK'
  BY <1>16 DEF vars, TypeOK
<1> QED
  BY <1>1, <1>2, <1>3, <1>4, <1>5, <1>6, <1>7, <1>8, <1>9, <1>10, <1>11,
     <1>12, <1>13, <1>14, <1>15, <1>16 DEF Next, Handle, Quiet

(* Every reachable state is of its type, whatever the constants: in        *)
(* particular the keys have only the statuses check_idempotency knows.     *)
THEOREM TypeCorrect == Spec => []TypeOK
BY TypeInit, TypeStep, PTL DEF Spec

-----------------------------------------------------------------------------
(* No overdraft.                                                           *)
LEMMA FundsInit == Init => Funds
BY LedgerAssumption DEF Init, Funds

LEMMA FundsStep == TypeOK /\ Funds /\ [Next]_vars => Funds'
<1> SUFFICES ASSUME TypeOK, Funds, [Next]_vars PROVE Funds'
  OBVIOUS
<1> USE DEF Funds, Covered, Ask
<1>b. ASSUME NEW p \in Attempt, NEW answer \in Over, Rollback(p, answer) PROVE Funds'
  BY <1>b DEF Rollback, db, session, TypeOK, Over, Answered
<1>1. ASSUME NEW p \in Attempt, Receive(p) PROVE Funds'
  BY <1>1 DEF TypeOK, Receive, Goto, db, session
<1>2. ASSUME NEW p \in Attempt, FirstCall(p) PROVE Funds'
  BY <1>2 DEF TypeOK, FirstCall, Goto, db
<1>3. ASSUME NEW p \in Attempt, InFlight(p) PROVE Funds'
  BY <1>3 DEF TypeOK, InFlight, Goto, db, session
<1>4. ASSUME NEW p \in Attempt, Replay(p) PROVE Funds'
  BY <1>4 DEF TypeOK, Replay, Goto, db, session
<1>5. ASSUME NEW p \in Attempt, NEW a \in Account, ReadAccount(p, a) PROVE Funds'
  <2> UNCHANGED <<balance, pc, order, serving>> /\ pc[p] = "load"
    BY <1>5 DEF ReadAccount, db
  <2>1. \A q \in Attempt, b \in Account : seen'[q][b] >= 0
    BY <1>5 DEF ReadAccount, TypeOK
  <2>2. \A q \in Attempt : q # p => seen'[q] = seen[q]
    BY <1>5 DEF ReadAccount, TypeOK
  <2> QED BY <2>1, <2>2
<1>6. ASSUME NEW p \in Attempt, NEW a \in Account, LockAccount(p, a) PROVE Funds'
  <2> UNCHANGED <<balance, pc, order, serving>> /\ pc[p] = "load"
    BY <1>6 DEF LockAccount, db
  <2>1. \A q \in Attempt, b \in Account : seen'[q][b] >= 0
    BY <1>6 DEF LockAccount, TypeOK
  <2>2. \A q \in Attempt : q # p => seen'[q] = seen[q]
    BY <1>6 DEF LockAccount, TypeOK
  <2> QED BY <2>1, <2>2
<1>8. ASSUME NEW p \in Attempt, Accept(p) PROVE Funds'
  BY <1>8 DEF TypeOK, Accept, Goto, db, session
<1>9. ASSUME NEW p \in Attempt, CallVendor(p) PROVE Funds'
  BY <1>9 DEF TypeOK, CallVendor, Goto, db, session
<1>10. ASSUME NEW p \in Attempt, Complete(p) PROVE Funds'
  BY <1>10 DEF TypeOK, Complete, Goto, db, session
<1>11. ASSUME NEW p \in Attempt, Commit(p) PROVE Funds'
  <2> DEFINE o == Ask(p)
  <2> o \in Order
    BY AskType
  <2>1. \A a \in Account : seen[p][a] + Delta(o, a) >= 0
    <3> SUFFICES ASSUME NEW a \in Account PROVE seen[p][a] + Delta(o, a) >= 0
      OBVIOUS
    <3> seen[p][a] \in Int /\ seen[p][a] >= 0
      BY DEF TypeOK
    <3>1. CASE a = o.from /\ o.kind \in Debits
      BY <1>11, <3>1, DeltaType DEF Commit
    <3>2. CASE ~(a = o.from /\ o.kind \in Debits)
      BY <3>2, DeltaType
    <3> QED BY <3>1, <3>2
  <2>2. \A a \in Account : balance'[a] >= 0
    BY <1>11, <2>1 DEF Commit
  <2>3. UNCHANGED <<order, serving, seen>>
        /\ \A q \in Attempt : pc'[q] \in {"call", "complete", "commit"} => pc'[q] = pc[q]
    BY <1>11 DEF Commit, Goto, session, TypeOK
  <2> QED BY <2>2, <2>3
<1>13. ASSUME NEW p \in Attempt, FinishKey(p) PROVE Funds'
  BY <1>13 DEF TypeOK, FinishKey, Goto, session
<1>16. ASSUME UNCHANGED vars PROVE Funds'
  BY <1>16 DEF vars
<1> QED
  BY <1>b, <1>1, <1>2, <1>3, <1>4, <1>5, <1>6, <1>8, <1>9, <1>10, <1>11, <1>13, <1>16
  DEF Next, Handle, Quiet, Reject, DuplicateKey, AbortDeadlock, Crash, Over, Answered

(* No interleaving of the handlers, however many of them run, overdraws an *)
(* account: not even those that work on a stale copy.                      *)
THEOREM NeverOverdrawn == Spec => []NoOverdraft
<1>1. Funds => NoOverdraft
  BY DEF Funds, NoOverdraft
<1> QED
  BY <1>1, TypeInit, TypeStep, FundsInit, FundsStep, PTL DEF Spec

-----------------------------------------------------------------------------
(* The idempotency protocol.                                               *)
LEMMA CommitExecutes ==
    ASSUME TypeOK, NEW p \in Attempt, Commit(p), NEW i \in Intent
    PROVE  Executed(i)' = IF i = serving[p] THEN Executed(i) \cup {p} ELSE Executed(i)
<1> Ask(p) \in Order /\ Touched(Ask(p)) # {}
  BY AskType, TouchedAccounts
<1>1. \A m \in Movements(p) : m.by = p
  BY DEF Movements
<1>2. \E m \in Movements(p) : m.by = p
  <2>1. PICK a \in Touched(Ask(p)) : TRUE
    OBVIOUS
  <2>2. [by |-> p, account |-> a, amount |-> Delta(Ask(p), a)] \in Movements(p)
    BY <2>1 DEF Movements
  <2> QED BY <2>2
<1> posted' = posted \cup Movements(p) /\ serving' = serving
  BY DEF Commit
<1> QED
  BY <1>1, <1>2 DEF Executed

LEMMA ExecutedKept ==
    ASSUME UNCHANGED <<posted, serving>>, NEW i \in Intent
    PROVE  Executed(i)' = Executed(i)
BY DEF Executed

(* A commit that gets as far as writing finds the key absent, or pending   *)
(* and locked by itself.                                                   *)
LEMMA CommitFinds ==
    ASSUME KeyInv, NEW p \in Attempt, Commit(p)
    PROVE  \/ insertsKey[p] /\ keyRow[serving[p]] = "absent"
           \/ ~insertsKey[p] /\ keyRow[serving[p]] = "pending" /\ keyLock[serving[p]] = p
BY DEF KeyInv, TypeOK, HoldsKey, Commit, KeyTaken, InTx

LEMMA KeyInit == Init => KeyInv
<1> SUFFICES ASSUME Init PROVE KeyInv
  OBVIOUS
<1>1. HoldsKey /\ Finished
  BY DEF Init, HoldsKey, Finished, InTx
<1>2. KeyIffExecuted /\ KeyCounts
  BY DEF Init, KeyIffExecuted, KeyCounts, Executed
<1> QED
  BY <1>1, <1>2, TypeInit DEF KeyInv

(* A step that leaves keys and movements alone keeps the counts; it keeps  *)
(* the rest if no request enters a transaction, or is done, by it.         *)
LEMMA KeyQuiet ==
    ASSUME KeyInv, TypeOK', UNCHANGED <<posted, keyRow, order, serving, insertsKey>>,
           \A q \in Attempt : pc'[q] \in InTx => pc[q] \in InTx,
           \A q \in Attempt : pc'[q] \in {"recheck", "done"} => pc[q] = pc'[q],
           \A q \in Attempt : keyLock[serving[q]] = q /\ pc'[q] \in InTx
                                => keyLock'[serving[q]] = q
    PROVE  KeyInv'
<1>1. HoldsKey'
  BY DEF KeyInv, HoldsKey
<1>2. KeyIffExecuted' /\ KeyCounts'
  BY ExecutedKept DEF KeyInv, KeyIffExecuted, KeyCounts
<1>3. Finished'
  BY DEF KeyInv, Finished, Ask
<1> QED
  BY <1>1, <1>2, <1>3 DEF KeyInv

LEMMA KeyRollback ==
    ASSUME KeyInv, TypeOK', NEW p \in Attempt, NEW answer \in Over \ {"done"},
           Rollback(p, answer)
    PROVE  KeyInv'
<1>1. UNCHANGED <<posted, keyRow, order, serving, insertsKey>>
  BY DEF Rollback, db, session
<1>2. \A q \in Attempt : q # p => pc'[q] = pc[q]
  BY DEF Rollback, KeyInv, TypeOK
<1>3. pc'[p] \notin InTx \cup {"recheck", "done"}
  BY DEF Rollback, KeyInv, TypeOK, InTx, Over, Answered
<1>4. \A q \in Attempt : q # p /\ keyLock[serving[q]] = q => keyLock'[serving[q]] = q
  BY DEF Rollback, Release, KeyInv, TypeOK
<1> QED
  <2>1. \A q \in Attempt : pc'[q] \in InTx => pc[q] \in InTx
    BY <1>2, <1>3
  <2>2. \A q \in Attempt : pc'[q] \in {"recheck", "done"} => pc[q] = pc'[q]
    BY <1>2, <1>3
  <2>3. \A q \in Attempt : keyLock[serving[q]] = q /\ pc'[q] \in InTx
                              => keyLock'[serving[q]] = q
    BY <1>3, <1>4
  <2> QED BY <1>1, <2>1, <2>2, <2>3, KeyQuiet

LEMMA KeyStep == KeyInv /\ [Next]_vars => KeyInv'
<1> SUFFICES ASSUME KeyInv, [Next]_vars PROVE KeyInv'
  OBVIOUS
<1> TypeOK /\ TypeOK'
  BY TypeStep DEF KeyInv
<1>1. ASSUME NEW p \in Attempt, Receive(p) PROVE KeyInv'
  BY <1>1, KeyQuiet DEF TypeOK, Receive, Goto, db, locks, session, InTx
<1>2. ASSUME NEW p \in Attempt, FirstCall(p) PROVE KeyInv'
  <2>1. HoldsKey'
    BY <1>2 DEF KeyInv, HoldsKey, TypeOK, FirstCall, Goto, db, locks, InTx
  <2>2. KeyIffExecuted' /\ KeyCounts'
    BY <1>2, ExecutedKept DEF KeyInv, KeyIffExecuted, KeyCounts, FirstCall, db
  <2>3. Finished'
    BY <1>2 DEF KeyInv, Finished, Ask, TypeOK, FirstCall, Goto, db
  <2> QED BY <2>1, <2>2, <2>3 DEF KeyInv
<1>3. ASSUME NEW p \in Attempt, InFlight(p) PROVE KeyInv'
  <2>1. HoldsKey'
    <3> SUFFICES ASSUME NEW q \in Attempt, pc'[q] \in InTx, ~insertsKey'[q]
                 PROVE  keyLock'[serving'[q]] = q /\ keyRow'[serving'[q]] = "pending"
      BY DEF HoldsKey
    <3>1. UNCHANGED <<keyRow, serving, insertsKey>>
      BY <1>3 DEF InFlight, db, session
    <3>2. CASE q = p
      BY <1>3, <3>1, <3>2 DEF InFlight, TypeOK
    <3>3. CASE q # p
      <4> keyLock[serving[q]] = q /\ keyRow[serving[q]] = "pending"
        BY <1>3, <3>1, <3>3 DEF KeyInv, HoldsKey, InFlight, Goto, TypeOK
      <4> q # NoOne
        BY LedgerAssumption
      <4> QED BY <1>3, <3>1, <3>3 DEF InFlight, TypeOK
    <3> QED BY <3>2, <3>3
  <2>2. KeyIffExecuted' /\ KeyCounts'
    BY <1>3, ExecutedKept DEF KeyInv, KeyIffExecuted, KeyCounts, InFlight, db
  <2>3. Finished'
    BY <1>3 DEF KeyInv, Finished, Ask, TypeOK, InFlight, Goto, db
  <2> QED BY <2>1, <2>2, <2>3 DEF KeyInv
<1>4. ASSUME NEW p \in Attempt, Replay(p) PROVE KeyInv'
  BY <1>4, KeyQuiet DEF TypeOK, Replay, Goto, db, locks, session, InTx
<1>5. ASSUME NEW p \in Attempt, NEW a \in Account, ReadAccount(p, a) PROVE KeyInv'
  BY <1>5, KeyQuiet DEF ReadAccount, db, locks
<1>6. ASSUME NEW p \in Attempt, NEW a \in Account, LockAccount(p, a) PROVE KeyInv'
  BY <1>6, KeyQuiet DEF LockAccount, db
<1>7. ASSUME NEW p \in Attempt, Reject(p) PROVE KeyInv'
  BY <1>7, KeyRollback DEF Reject, Over, Answered
<1>8. ASSUME NEW p \in Attempt, Accept(p) PROVE KeyInv'
  BY <1>8, KeyQuiet DEF TypeOK, Accept, HasRows, Goto, db, locks, session, InTx
<1>9. ASSUME NEW p \in Attempt, CallVendor(p) PROVE KeyInv'
  BY <1>9, KeyQuiet DEF TypeOK, CallVendor, Goto, db, locks, session, InTx
<1>10. ASSUME NEW p \in Attempt, Complete(p) PROVE KeyInv'
  <2>1. UNCHANGED <<posted, keyRow, order, serving, insertsKey>>
    BY <1>10 DEF Complete, db, session
  <2>2. /\ \A q \in Attempt : pc'[q] \in InTx => pc[q] \in InTx
        /\ \A q \in Attempt : pc'[q] \in {"recheck", "done"} => pc[q] = pc'[q]
    BY <1>10 DEF Complete, Goto, TypeOK, InTx
  <2>3. \A q \in Attempt : keyLock[serving[q]] = q => keyLock'[serving[q]] = q
    BY <1>10, LedgerAssumption DEF Complete, TypeOK
  <2> QED BY <2>1, <2>2, <2>3, KeyQuiet
<1>11. ASSUME NEW p \in Attempt, Commit(p) PROVE KeyInv'
  <2> DEFINE i == serving[p]
  <2>1. /\ i \in Intent
        /\ UNCHANGED <<order, serving, insertsKey>>
        /\ keyRow' = [keyRow EXCEPT ![i] = KeyAfterCommit(p)]
        /\ KeyAfterCommit(p) \in {"pending", "completed"}
    BY <1>11 DEF Commit, session, TypeOK, KeyAfterCommit
  <2>2. \/ insertsKey[p] /\ keyRow[i] = "absent"
        \/ ~insertsKey[p] /\ keyRow[i] = "pending" /\ keyLock[i] = p
    BY <1>11, CommitFinds
  <2>3. HoldsKey'
    <3> SUFFICES ASSUME NEW q \in Attempt, pc'[q] \in InTx, ~insertsKey'[q]
                 PROVE  keyLock'[serving'[q]] = q /\ keyRow'[serving'[q]] = "pending"
      BY DEF HoldsKey
    <3>1. q # p /\ pc[q] \in InTx
      BY <1>11 DEF Commit, Goto, TypeOK, InTx
    <3>2. keyLock[serving[q]] = q /\ keyRow[serving[q]] = "pending"
      BY <2>1, <3>1 DEF KeyInv, HoldsKey
    <3>3. serving[q] # i
      BY <2>2, <3>1, <3>2
    <3> QED
      BY <1>11, <2>1, <3>1, <3>2, <3>3 DEF Commit, Release, TypeOK
  <2>4. KeyIffExecuted'
    <3> SUFFICES ASSUME NEW j \in Intent
                 PROVE  keyRow'[j] = "absent" <=> Executed(j)' = {}
      BY DEF KeyIffExecuted
    <3>1. Executed(j)' = IF j = i THEN Executed(j) \cup {p} ELSE Executed(j)
      BY <1>11, CommitExecutes
    <3>2. keyRow'[j] = IF j = i THEN KeyAfterCommit(p) ELSE keyRow[j]
      BY <2>1 DEF TypeOK
    <3>3. keyRow[j] = "absent" <=> Executed(j) = {}
      BY DEF KeyInv, KeyIffExecuted
    <3> QED BY <2>1, <3>1, <3>2, <3>3
  <2>5. KeyCounts'
    <3> SUFFICES ASSUME NEW j \in Intent, order[j].kind \notin CommitsTwice
                 PROVE /\ keyRow'[j] = "pending" => \E x \in Attempt : Executed(j)' \subseteq {x}
                       /\ keyRow'[j] = "completed" =>
                              \E x, y \in Attempt : Executed(j)' \subseteq {x, y}
      BY <2>1 DEF KeyCounts
    <3>1. CASE j # i
      <4> Executed(j)' = Executed(j) /\ keyRow'[j] = keyRow[j]
        BY <1>11, <2>1, <3>1, CommitExecutes DEF TypeOK
      <4> QED BY DEF KeyInv, KeyCounts
    <3>2. CASE j = i /\ insertsKey[p]
      <4>1. Executed(j) = {} /\ Executed(j)' = Executed(j) \cup {p}
        BY <1>11, <2>2, <3>2, CommitExecutes DEF KeyInv, KeyIffExecuted
      <4> QED BY <4>1
    <3>3. CASE j = i /\ ~insertsKey[p]
      <4>1. PICK x \in Attempt : Executed(j) \subseteq {x}
        BY <2>2, <3>3 DEF KeyInv, KeyCounts
      <4>2. Executed(j)' \subseteq {x, p}
        BY <1>11, <3>3, <4>1, CommitExecutes
      <4>3. keyRow'[j] = "completed"
        BY <2>1, <3>3 DEF KeyAfterCommit, Ask, TypeOK
      <4> QED BY <4>2, <4>3
    <3> QED BY <3>1, <3>2, <3>3
  <2>6. Finished'
    <3>1. keyRow'[i] # "absent" /\ keyRow[i] # "completed"
      BY <2>1, <2>2 DEF TypeOK
    <3>2. \A q \in Attempt : q # p => pc'[q] = pc[q]
      BY <1>11 DEF Commit, Goto, TypeOK
    <3>3. pc'[p] = IF Ask(p).kind \in CommitsTwice THEN "recheck" ELSE "done"
      BY <1>11 DEF Commit, Goto, TypeOK
    <3>4. \A q \in Attempt : keyRow'[serving[q]] = keyRow[serving[q]] \/ serving[q] = i
      BY <2>1 DEF TypeOK
    <3> QED
      BY <2>1, <3>1, <3>2, <3>3, <3>4 DEF KeyInv, Finished, Ask
  <2> QED BY <2>3, <2>4, <2>5, <2>6 DEF KeyInv
<1>12. ASSUME NEW p \in Attempt, DuplicateKey(p) PROVE KeyInv'
  BY <1>12, KeyRollback DEF DuplicateKey, Over, Answered
<1>13. ASSUME NEW p \in Attempt, FinishKey(p) PROVE KeyInv'
  <2> DEFINE i == serving[p]
  <2>1. UNCHANGED <<posted, order, serving, insertsKey, keyLock>> /\ keyLock[i] = NoOne
    BY <1>13 DEF FinishKey, locks, session
  <2>2. HoldsKey'
    <3> SUFFICES ASSUME NEW q \in Attempt, pc'[q] \in InTx, ~insertsKey'[q]
                 PROVE  keyLock'[serving'[q]] = q /\ keyRow'[serving'[q]] = "pending"
      BY DEF HoldsKey
    <3>1. pc[q] \in InTx
      BY <1>13 DEF FinishKey, Goto, TypeOK, InTx
    <3>2. keyLock[serving[q]] = q /\ keyRow[serving[q]] = "pending"
      BY <2>1, <3>1 DEF KeyInv, HoldsKey
    <3> QED BY <1>13, <2>1, <3>2, LedgerAssumption DEF FinishKey, TypeOK
  <2>3. /\ \A j \in Intent : Executed(j)' = Executed(j)
        /\ keyRow' = [keyRow EXCEPT ![i] = "completed"]
        /\ i \in Intent
    BY <1>13, <2>1, ExecutedKept DEF FinishKey, TypeOK
  <2>4. keyRow[i] # "absent" /\ order[i].kind \in CommitsTwice
    BY <1>13 DEF FinishKey, KeyInv, Finished, Ask
  <2>5. KeyIffExecuted' /\ KeyCounts'
    BY <2>1, <2>3, <2>4 DEF KeyInv, KeyIffExecuted, KeyCounts, TypeOK
  <2>6. Finished'
    BY <1>13, <2>1, <2>3 DEF KeyInv, Finished, FinishKey, Goto, Ask, TypeOK
  <2> QED BY <2>2, <2>5, <2>6 DEF KeyInv
<1>14. ASSUME NEW p \in Attempt, AbortDeadlock(p) PROVE KeyInv'
  BY <1>14, KeyRollback DEF AbortDeadlock, Over, Answered
<1>15. ASSUME NEW p \in Attempt, Crash(p) PROVE KeyInv'
  BY <1>15, KeyRollback DEF Crash, Over, Answered
<1>16. ASSUME UNCHANGED vars PROVE KeyInv'
  BY <1>16, KeyQuiet DEF vars
<1> QED
  BY <1>1, <1>2, <1>3, <1>4, <1>5, <1>6, <1>7, <1>8, <1>9, <1>10, <1>11,
     <1>12, <1>13, <1>14, <1>15, <1>16 DEF Next, Handle, Quiet

LEMMA KeyInvariant == Spec => []KeyInv
BY KeyInit, KeyStep, PTL DEF Spec

(* A key is in the database exactly when its operation has been executed.  *)
THEOREM KeyMeansExecuted == Spec => []KeyIffExecuted
<1>1. KeyInv => KeyIffExecuted
  BY DEF KeyInv
<1> QED
  BY <1>1, KeyInvariant, PTL

(* Retries of a handler that commits once execute it at most twice, with   *)
(* any number of attempts, crashes and deadlocks.                          *)
THEOREM TwiceAtMost == Spec => []AtMostTwice
<1>1. KeyInv => AtMostTwice
  <2> SUFFICES ASSUME KeyInv, NEW i \in Intent, order[i].kind \notin CommitsTwice
               PROVE  Cardinality(Executed(i)) <= 2
    BY DEF AtMostTwice
  <2>1. \E x, y : Executed(i) \subseteq {x, y}
    <3>1. CASE keyRow[i] = "absent"
      BY <3>1 DEF KeyInv, KeyIffExecuted
    <3>2. CASE keyRow[i] = "pending"
      BY <3>2 DEF KeyInv, KeyCounts
    <3>3. CASE keyRow[i] = "completed"
      BY <3>3 DEF KeyInv, KeyCounts
    <3> QED BY <3>1, <3>2, <3>3 DEF KeyInv, TypeOK
  <2>2. PICK x, y : Executed(i) \subseteq {x, y}
    BY <2>1
  <2>3. IsFiniteSet({x}) /\ Cardinality({x}) = 1
    BY FS_Singleton
  <2>4. IsFiniteSet({x} \cup {y}) /\ Cardinality({x} \cup {y}) <= 2
    BY <2>3, FS_AddElement
  <2>5. {x, y} = {x} \cup {y}
    OBVIOUS
  <2>6. Cardinality(Executed(i)) <= Cardinality({x, y}) /\ IsFiniteSet(Executed(i))
    BY <2>2, <2>4, <2>5, FS_Subset
  <2>7. Cardinality(Executed(i)) \in Nat /\ Cardinality({x, y}) \in Nat
    BY <2>4, <2>5, <2>6, FS_CardinalityType
  <2> QED BY <2>4, <2>5, <2>6, <2>7
<1> QED
  BY <1>1, KeyInvariant, PTL

(* A two-commit handler that answered has completed its key.               *)
THEOREM AnswersReplayed == Spec => []AnsweredIsReplayed
<1>1. KeyInv => AnsweredIsReplayed
  BY DEF KeyInv, Finished, AnsweredIsReplayed
<1> QED
  BY <1>1, KeyInvariant, PTL

(* Only a commit books movements, and it finds its key absent or pending.  *)
LEMMA CompletedStep ==
    ASSUME KeyInv, [Next]_vars, NEW i \in Intent, keyRow[i] = "completed"
    PROVE  Executed(i)' = Executed(i)
<1>1. ASSUME NEW p \in Attempt, Commit(p) PROVE Executed(i)' = Executed(i)
  BY <1>1, CommitFinds, CommitExecutes DEF KeyInv
<1>2. CASE UNCHANGED <<posted, serving>>
  BY <1>2, ExecutedKept
<1>3. UNCHANGED <<posted, serving>> \/ \E p \in Attempt : Commit(p)
  BY DEF Next, vars, db, Handle, Quiet, Receive, FirstCall, InFlight, Replay, ReadAccount,
     LockAccount, Reject, Accept, CallVendor, Complete, DuplicateKey, FinishKey,
     AbortDeadlock, Crash, Rollback
<1> QED
  BY <1>1, <1>2, <1>3

(* A completed key is final, even for the attempts that got past it before.*)
THEOREM CompletedFinal == Spec => CompletedKeyIsFinal
<1>1. KeyInv /\ [Next]_vars =>
        [\A i \in Intent : order[i].kind \notin CommitsTwice /\ keyRow[i] = "completed"
           => Executed(i)' = Executed(i)]_vars
  BY CompletedStep
<1> QED
  BY <1>1, KeyInvariant, PTL DEF Spec, CompletedKeyIsFinal

-----------------------------------------------------------------------------
(* The bill, the answer of the vendor and the booking.                     *)
Paid(p) == p \in vendorPaid
Booked(p) == \E m \in posted : m.by = p

(* Until its vendor is called, a payment has no answer and paid nothing;   *)
(* what has an answer is booked by the first commit, or ended before it.   *)
VendorInv == \A p \in Attempt : Ask(p).kind = "vendor" =>
    /\ pc[p] # "complete"
    /\ pc[p] \in {"idle", "check", "load", "call", "replayed", "rejected"} =>
          ~Paid(p) /\ vendorSays[p] = "nothing" /\ ~Booked(p)
    /\ pc[p] = "commit" => vendorSays[p] # "nothing"
    /\ Booked(p) => vendorSays[p] # "nothing"
    /\ vendorSays[p] = "CLEARED" => Paid(p)
    /\ Paid(p) => Booked(p) \/ pc[p] \in {"commit", "failed", "crashed"}

LEMMA VendorInit == Init => VendorInv
BY DEF Init, VendorInv, Paid, Booked

(* A request that moves on, and neither calls the vendor nor commits.      *)
LEMMA VendorGoto ==
    ASSUME TypeOK, VendorInv, NEW p \in Attempt, NEW where,
           pc' = [pc EXCEPT ![p] = where],
           UNCHANGED <<posted, order, serving, vendorSays, vendorPaid>>,
           Ask(p).kind = "vendor" =>
               \/ where \in {"check", "load", "call", "replayed", "rejected"}
                  /\ pc[p] \in {"idle", "check", "load"}
               \/ where \in {"failed", "crashed"}
               \/ where = "done" /\ pc[p] = "recheck"
    PROVE  VendorInv'
BY DEF TypeOK, VendorInv, Paid, Booked, Ask

LEMMA VendorStep == TypeOK /\ VendorInv /\ [Next]_vars => VendorInv'
<1> SUFFICES ASSUME TypeOK, VendorInv, [Next]_vars PROVE VendorInv'
  OBVIOUS
<1>0. ASSUME UNCHANGED <<pc, posted, order, serving, vendorSays, vendorPaid>> PROVE VendorInv'
  BY <1>0 DEF VendorInv, Paid, Booked, Ask
<1>1. ASSUME NEW p \in Attempt, Receive(p) PROVE VendorInv'
  BY <1>1, VendorGoto DEF Receive, Goto, db, vendor
<1>2. ASSUME NEW p \in Attempt, FirstCall(p) PROVE VendorInv'
  BY <1>2, VendorGoto DEF FirstCall, Goto, db, vendor
<1>3. ASSUME NEW p \in Attempt, InFlight(p) PROVE VendorInv'
  BY <1>3, VendorGoto DEF InFlight, Goto, db, vendor
<1>4. ASSUME NEW p \in Attempt, Replay(p) PROVE VendorInv'
  BY <1>4, VendorGoto DEF Replay, Goto, db, vendor
<1>5. ASSUME NEW p \in Attempt, NEW a \in Account, ReadAccount(p, a) PROVE VendorInv'
  BY <1>5, <1>0 DEF ReadAccount, db, vendor
<1>6. ASSUME NEW p \in Attempt, NEW a \in Account, LockAccount(p, a) PROVE VendorInv'
  BY <1>6, <1>0 DEF LockAccount, db, vendor
<1>7. ASSUME NEW p \in Attempt, Reject(p) PROVE VendorInv'
  BY <1>7, VendorGoto DEF Reject, HasRows, Rollback, db, vendor
<1>8. ASSUME NEW p \in Attempt, Accept(p) PROVE VendorInv'
  <2>1. Ask(p).kind = "vendor" => pc' = [pc EXCEPT ![p] = "call"]
    BY <1>8 DEF Accept, Goto
  <2>2. PICK where : pc' = [pc EXCEPT ![p] = where]
    BY <1>8 DEF Accept, Goto
  <2>3. Ask(p).kind = "vendor" => where = "call"
    BY <2>1, <2>2 DEF TypeOK
  <2> QED BY <1>8, <2>2, <2>3, VendorGoto DEF Accept, HasRows, db, vendor
<1>9. ASSUME NEW p \in Attempt, CallVendor(p) PROVE VendorInv'
  BY <1>9 DEF CallVendor, Goto, db, TypeOK, VendorInv, Paid, Booked, Ask
<1>10. ASSUME NEW p \in Attempt, Complete(p) PROVE VendorInv'
  <2>1. Ask(p).kind # "vendor"
    BY <1>10 DEF Complete, VendorInv
  <2> QED BY <1>10, <2>1, VendorGoto DEF Complete, Goto, db, vendor
<1>11. ASSUME NEW p \in Attempt, Commit(p) PROVE VendorInv'
  <2>1. /\ pc[p] = "commit"
        /\ UNCHANGED <<order, serving, vendorSays, vendorPaid>>
        /\ pc' = [pc EXCEPT ![p] = IF Ask(p).kind \in CommitsTwice THEN "recheck" ELSE "done"]
    BY <1>11 DEF Commit, Goto, vendor
  <2>2. \A q \in Attempt : Booked(q)' <=> Booked(q) \/ q = p
    <3>1. PICK a : a \in Touched(Ask(p))
      BY AskType, TouchedAccounts
    <3>2. posted' = posted \cup Movements(p)
      BY <1>11 DEF Commit
    <3>3. \A m \in Movements(p) : m.by = p
      BY DEF Movements
    <3>4. [by |-> p, account |-> a, amount |-> Delta(Ask(p), a)] \in Movements(p)
      BY <3>1 DEF Movements
    <3>5. \E m \in Movements(p) : m.by = p
      BY <3>4
    <3> QED BY <3>2, <3>3, <3>5 DEF Booked
  <2> QED
    BY <2>1, <2>2 DEF TypeOK, VendorInv, Paid, Ask
<1>12. ASSUME NEW p \in Attempt, DuplicateKey(p) PROVE VendorInv'
  BY <1>12, VendorGoto DEF DuplicateKey, Rollback, db, vendor
<1>13. ASSUME NEW p \in Attempt, FinishKey(p) PROVE VendorInv'
  BY <1>13, VendorGoto DEF FinishKey, Goto, vendor
<1>14. ASSUME NEW p \in Attempt, AbortDeadlock(p) PROVE VendorInv'
  BY <1>14, VendorGoto DEF AbortDeadlock, Rollback, db, vendor
<1>15. ASSUME NEW p \in Attempt, Crash(p) PROVE VendorInv'
  BY <1>15, VendorGoto DEF Crash, Rollback, db, vendor
<1>16. ASSUME UNCHANGED vars PROVE VendorInv'
  BY <1>16, <1>0 DEF vars
<1> QED
  BY <1>1, <1>2, <1>3, <1>4, <1>5, <1>6, <1>7, <1>8, <1>9, <1>10, <1>11,
     <1>12, <1>13, <1>14, <1>15, <1>16 DEF Next, Handle, Quiet

(* A bill is booked only after the vendor was asked, and a bill the vendor *)
(* executed is booked unless the handler failed or died in between: what   *)
(* execute_vendor_payment_immediate is answered while it holds the lock of *)
(* the account.                                                            *)
THEOREM BillsBooked == Spec => []VendorBooked
<1>1. VendorInv => VendorBooked
  BY DEF VendorInv, VendorBooked, Paid, Booked
<1> QED
  BY <1>1, VendorInit, VendorStep, TypeCorrect, PTL DEF Spec

-----------------------------------------------------------------------------
(* Serializability of the handlers that lock what they read.               *)
LEMMA IsolatedInit == Init => Isolated
<1> SUFFICES ASSUME Init PROVE Isolated
  OBVIOUS
<1> QED
  BY LedgerAssumption DEF Init, Isolated, InTx

(* A session that ends its transaction, or never had a row, holds none;    *)
(* the others keep their rows, and the rows keep their values.             *)
LEMMA IsolatedRollback ==
    ASSUME TypeOK, Isolated, NEW p \in Attempt, NEW answer \in Over, Rollback(p, answer)
    PROVE  Isolated'
<1>1. UNCHANGED <<balance, posted, order, serving, loaded, seen>>
  BY DEF Rollback, db, session
<1>2. pc'[p] = answer /\ \A q \in Attempt : q # p => pc'[q] = pc[q]
  BY DEF Rollback, TypeOK
<1>3. /\ \A a \in Account : rowLock'[a] # p
      /\ \A a \in Account, q \in Attempt : q # p => (rowLock'[a] = q <=> rowLock[a] = q)
  BY LedgerAssumption DEF Rollback, Release
<1>4. \A q \in Attempt : Touched(Ask(q)) \subseteq Account /\ loaded[q] \subseteq Account
  BY AskType, TouchedAccounts DEF TypeOK
<1> QED
  BY <1>1, <1>2, <1>3, <1>4 DEF Isolated, Ask, InTx, Over, Answered

(* The handlers in play read no row before they lock it.                   *)
LocksWhatItReads == Kinds \cap ReadsFirst = {}

LEMMA LockingKinds ==
    ASSUME LocksWhatItReads, TypeOK, NEW p \in Attempt
    PROVE  Ask(p).kind \in LocksRows /\ Unread(p) = {}
<1>1. Ask(p).kind \in Kinds
  BY AskType DEF Order
<1> QED
  BY <1>1, LedgerAssumption
  DEF LocksWhatItReads, Unread, ReadsFirst, LocksRows, Debits, Credits

LEMMA IsolatedStep == LocksWhatItReads /\ TypeOK /\ Isolated /\ [Next]_vars => Isolated'
<1> SUFFICES ASSUME LocksWhatItReads, TypeOK, Isolated, [Next]_vars PROVE Isolated'
  OBVIOUS
<1>0. /\ \A q \in Attempt : Touched(Ask(q)) \subseteq Account
      /\ \A q \in Attempt : loaded[q] \subseteq Account
  BY AskType, TouchedAccounts DEF TypeOK
<1>a. ASSUME NEW p \in Attempt, NEW answer \in Over, Rollback(p, answer) PROVE Isolated'
  BY <1>a, IsolatedRollback
<1>b. ASSUME UNCHANGED <<balance, posted, rowLock, order, serving, loaded, seen>>,
             NEW p \in Attempt, \A q \in Attempt : q # p => pc'[q] = pc[q],
             \/ pc[p] = "idle" /\ pc'[p] = "check"
             \/ pc[p] = "check" /\ pc'[p] = "load"
             \/ pc[p] \in InTx /\ pc'[p] \in InTx \ {"load"}
                /\ \A a \in Touched(Ask(p)) : rowLock[a] = p
             \/ pc[p] \in {"check", "recheck"} /\ pc'[p] \in {"replayed", "done"}
      PROVE  Isolated'
  BY <1>0, <1>b DEF Isolated, Ask, InTx
<1>1. ASSUME NEW p \in Attempt, Receive(p) PROVE Isolated'
  BY <1>1, <1>b DEF TypeOK, Receive, Goto, db, locks, session
<1>2. ASSUME NEW p \in Attempt, FirstCall(p) PROVE Isolated'
  BY <1>2, <1>b DEF TypeOK, FirstCall, Goto, db, locks
<1>3. ASSUME NEW p \in Attempt, InFlight(p) PROVE Isolated'
  BY <1>3, <1>b DEF TypeOK, InFlight, Goto, db, session
<1>4. ASSUME NEW p \in Attempt, Replay(p) PROVE Isolated'
  BY <1>4, <1>b DEF TypeOK, Replay, Goto, db, locks, session
<1>5. ASSUME NEW p \in Attempt, NEW a \in Account, ReadAccount(p, a) PROVE Isolated'
  BY <1>5, LockingKinds DEF ReadAccount
<1>6. ASSUME NEW p \in Attempt, NEW a \in Account, LockAccount(p, a) PROVE Isolated'
  <2>1. /\ UNCHANGED <<balance, posted, order, serving, pc>>
        /\ pc[p] = "load" /\ rowLock[a] = NoOne
        /\ rowLock' = [rowLock EXCEPT ![a] = p]
        /\ loaded' = [loaded EXCEPT ![p] = @ \cup {a}]
    BY <1>6 DEF LockAccount, db
  <2>2. a \notin loaded[p]
    BY <2>1, LedgerAssumption DEF Isolated
  <2>3. seen' = [seen EXCEPT ![p][a] = balance[a]]
    BY <1>6, <2>2 DEF LockAccount
  <2>4. \A q \in Attempt : q # p => loaded'[q] = loaded[q] /\ seen'[q] = seen[q]
    BY <2>1, <2>3 DEF TypeOK
  <2>5. \A b \in Account : rowLock'[b] = IF b = a THEN p ELSE rowLock[b]
    BY <2>1 DEF TypeOK
  <2>6. /\ loaded'[p] = loaded[p] \cup {a}
        /\ \A b \in Account : seen'[p][b] = IF b = a THEN balance[a] ELSE seen[p][b]
    BY <2>1, <2>3 DEF TypeOK
  <2>7. \A q \in Attempt : q # NoOne
    BY LedgerAssumption
  <2> SUFFICES ASSUME NEW q \in Attempt
               PROVE  /\ pc[q] \in {"idle", "check"} => loaded'[q] = {}
                      /\ pc[q] = "load" => \A b \in loaded'[q] : rowLock'[b] = q
                      /\ pc[q] \in {"call", "complete", "commit"} =>
                            \A b \in Touched(Ask(q)) : rowLock'[b] = q
                      /\ \A b \in Account : rowLock'[b] = q =>
                            pc[q] \in InTx /\ b \in loaded'[q] /\ seen'[q][b] = balance[b]
                      /\ pc[q] \in {"idle", "check"} \cup InTx => \A m \in posted : m.by # q
    BY <2>1 DEF Isolated, Ask
  <2>8. CASE q = p
    BY <1>0, <2>1, <2>5, <2>6, <2>8 DEF Isolated, InTx
  <2>9. CASE q # p
    BY <1>0, <2>1, <2>4, <2>5, <2>7, <2>9 DEF Isolated, InTx
  <2> QED BY <2>8, <2>9
<1>8. ASSUME NEW p \in Attempt, Accept(p) PROVE Isolated'
  <2>1. \A a \in Touched(Ask(p)) : rowLock[a] = p
    BY <1>8, LockingKinds DEF Accept, HasRows, Unlocked
  <2> QED
    BY <1>8, <1>b, <2>1 DEF TypeOK, Accept, HasRows, Goto, db, locks, session, InTx
<1>9. ASSUME NEW p \in Attempt, CallVendor(p) PROVE Isolated'
  <2>1. \A a \in Touched(Ask(p)) : rowLock[a] = p
    BY <1>9 DEF CallVendor, Isolated
  <2> QED
    BY <1>9, <1>b, <2>1 DEF TypeOK, CallVendor, Goto, db, locks, session, InTx
<1>10. ASSUME NEW p \in Attempt, Complete(p) PROVE Isolated'
  <2>1. \A a \in Touched(Ask(p)) : rowLock[a] = p
    BY <1>10 DEF Complete, Isolated
  <2> QED
    BY <1>10, <1>b, <2>1 DEF TypeOK, Complete, Goto, db, session, InTx
<1>11. ASSUME NEW p \in Attempt, Commit(p) PROVE Isolated'
  <2>1. UNCHANGED <<order, serving, loaded, seen>> /\ pc[p] = "commit"
    BY <1>11 DEF Commit, session
  <2>2. pc'[p] \in {"recheck", "done"} /\ \A q \in Attempt : q # p => pc'[q] = pc[q]
    BY <1>11 DEF Commit, Goto, TypeOK
  <2>3. /\ \A a \in Account : rowLock'[a] # p
        /\ \A a \in Account, q \in Attempt : q # p => (rowLock'[a] = q <=> rowLock[a] = q)
    BY <1>11, LedgerAssumption DEF Commit, Release
  <2>4. \A a \in Account : rowLock[a] # p => balance'[a] = balance[a]
    BY <1>11 DEF Commit, Isolated
  <2>5. \A m \in posted' : m \in posted \/ m.by = p
    BY <1>11 DEF Commit, Movements
  <2> QED
    BY <1>0, <2>1, <2>2, <2>3, <2>4, <2>5 DEF Isolated, Ask, InTx
<1>13. ASSUME NEW p \in Attempt, FinishKey(p) PROVE Isolated'
  BY <1>13, <1>b DEF TypeOK, FinishKey, Goto, locks, session
<1>16. ASSUME UNCHANGED vars PROVE Isolated'
  BY <1>16 DEF vars, Isolated, Ask
<1> QED
  BY <1>a, <1>1, <1>2, <1>3, <1>4, <1>5, <1>6, <1>8, <1>9, <1>10, <1>11, <1>13, <1>16
  DEF Next, Handle, Quiet, Reject, DuplicateKey, AbortDeadlock, Crash, Over, Answered

(* A commit is a step of the atomic ledger.                                *)
LEMMA CommitMoves ==
    ASSUME LocksWhatItReads, TypeOK, Funds, Isolated, NEW p \in Attempt, Commit(p)
    PROVE  Atomic!Move(p)
<1> DEFINE o == Ask(p)
<1>1. /\ o \in Order /\ o.kind \in {"internal", "vendor", "topup", "subscription"}
      /\ o.from \in Account /\ o.to \in Account /\ o.from # o.to
      /\ o.amount \in Amount /\ o.amount \in Int
  <2>1. o \in Order
    BY AskType
  <2>2. o.kind \in Kinds /\ o.amount \in Amount
    BY <2>1 DEF Order
  <2>3. o.kind \in {"internal", "vendor", "topup", "subscription"}
    BY <2>2, LedgerAssumption DEF LocksWhatItReads, ReadsFirst, Debits, Credits
  <2>4. o.amount \in Int
    <3>1. o.amount \in Nat
      BY <2>2, LedgerAssumption
    <3> QED BY <3>1
  <2> QED BY <2>1, <2>2, <2>3, <2>4 DEF Order
<1>2. \A m \in posted : m.by # p
  BY DEF Commit, Isolated, InTx
<1>3. \A a \in Touched(o) : a \in Account /\ seen[p][a] = balance[a]
  BY <1>1, TouchedAccounts DEF Commit, Isolated
<1>4. o.kind \in Debits => balance[o.from] >= o.amount
  BY <1>1, <1>3 DEF Commit, Funds, Covered, Touched
<1>5. \A a \in Account : balance'[a] = balance[a] + Delta(o, a)
  <2> SUFFICES ASSUME NEW a \in Account PROVE balance'[a] = balance[a] + Delta(o, a)
    OBVIOUS
  <2>1. CASE a \in Touched(o)
    BY <1>3, <2>1 DEF Commit
  <2>2. CASE a \notin Touched(o)
    <3> Delta(o, a) = 0
      BY <2>2 DEF Delta, Touched
    <3> QED BY <2>2 DEF Commit, TypeOK
  <2> QED BY <2>1, <2>2
<1>6. balance \in [Account -> Int] /\ balance' = [a \in Account |-> balance'[a]]
  BY DEF Commit, TypeOK
<1>7. posted' = posted \cup Movements(p)
  BY DEF Commit
<1>8. CASE o.kind = "internal"
  <2>1. Touched(o) = {o.from, o.to}
    BY <1>8 DEF Touched, Debits, Credits
  <2>2. Delta(o, o.from) = 0 - o.amount /\ Delta(o, o.to) = o.amount
        /\ \A a \in Account \ {o.from, o.to} : Delta(o, a) = 0
    BY <1>1, <1>8 DEF Delta, Debits, Credits
  <2>3. Movements(p) = {[by |-> p, account |-> o.from, amount |-> 0 - o.amount],
                        [by |-> p, account |-> o.to, amount |-> o.amount]}
    BY <2>1, <2>2 DEF Movements
  <2>4. balance' = [balance EXCEPT ![o.from] = @ - o.amount, ![o.to] = @ + o.amount]
    BY <1>1, <1>5, <1>6, <2>2
  <2>5. Atomic!Transfer(p, o.from, o.to, o.amount)
    BY <1>1, <1>4, <1>7, <1>8, <2>3, <2>4 DEF Atomic!Transfer, Debits
  <2> QED BY <1>1, <1>2, <2>5 DEF Atomic!Move
<1>9. CASE o.kind = "topup"
  <2>1. Touched(o) = {o.to}
    BY <1>9 DEF Touched, Debits, Credits
  <2>2. Delta(o, o.to) = o.amount /\ \A a \in Account \ {o.to} : Delta(o, a) = 0
    BY <1>1, <1>9 DEF Delta, Debits, Credits
  <2>3. Movements(p) = {[by |-> p, account |-> o.to, amount |-> o.amount]}
    BY <2>1, <2>2 DEF Movements
  <2>4. balance' = [balance EXCEPT ![o.to] = @ + o.amount]
    BY <1>1, <1>5, <1>6, <2>2
  <2>5. Atomic!Deposit(p, o.to, o.amount)
    BY <1>1, <1>7, <2>3, <2>4 DEF Atomic!Deposit
  <2> QED BY <1>1, <1>2, <2>5 DEF Atomic!Move
<1>10. CASE o.kind \in {"vendor", "subscription"}
  <2>1. Touched(o) = {o.from}
    BY <1>10 DEF Touched, Debits, Credits
  <2>2. Delta(o, o.from) = 0 - o.amount /\ \A a \in Account \ {o.from} : Delta(o, a) = 0
    BY <1>1, <1>10 DEF Delta, Debits, Credits
  <2>3. Movements(p) = {[by |-> p, account |-> o.from, amount |-> 0 - o.amount]}
    BY <2>1, <2>2 DEF Movements
  <2>4. balance' = [balance EXCEPT ![o.from] = @ - o.amount]
    BY <1>1, <1>5, <1>6, <2>2
  <2>5. Atomic!Payment(p, o.from, o.amount)
    BY <1>1, <1>4, <1>7, <1>10, <2>3, <2>4 DEF Atomic!Payment, Debits
  <2> QED BY <1>1, <1>2, <2>5 DEF Atomic!Move
<1> QED
  BY <1>1, <1>8, <1>9, <1>10

LEMMA StepRefines ==
    LocksWhatItReads /\ TypeOK /\ Funds /\ Isolated /\ [Next]_vars
        => [Atomic!Next]_(Atomic!vars)
<1> SUFFICES ASSUME LocksWhatItReads, TypeOK, Funds, Isolated, [Next]_vars
             PROVE  [Atomic!Next]_(Atomic!vars)
  OBVIOUS
<1>1. CASE UNCHANGED <<balance, posted>>
  BY <1>1 DEF Atomic!vars
<1>2. ASSUME NEW p \in Attempt, Commit(p) PROVE Atomic!Next
  BY <1>2, CommitMoves DEF Atomic!Next
<1>3. UNCHANGED <<balance, posted>> \/ \E p \in Attempt : Commit(p)
  BY DEF Next, vars, db, Handle, Quiet, Receive, FirstCall, InFlight, Replay, ReadAccount,
     LockAccount, Reject, Accept, CallVendor, Complete, DuplicateKey, FinishKey,
     AbortDeadlock, Crash, Rollback
<1> QED
  BY <1>1, <1>2, <1>3

(* Handlers that lock every row they read implement the atomic ledger:     *)
(* whatever runs in between, each commit finds the funds it takes and      *)
(* changes the balances by exactly the movements it books.                 *)
THEOREM Serializable == ASSUME LocksWhatItReads PROVE Spec => ImplementsAtomic
<1>1. Init => Atomic!Init
  BY DEF Init, Atomic!Init
<1>2. TypeOK /\ Funds /\ Isolated /\ [Next]_vars => [Atomic!Next]_(Atomic!vars)
  BY StepRefines
<1>3. TypeOK /\ Isolated /\ [Next]_vars => Isolated'
  BY IsolatedStep
<1> QED
  BY <1>1, <1>2, <1>3, TypeInit, TypeStep, FundsInit, FundsStep, IsolatedInit, PTL
  DEF Spec, ImplementsAtomic, Atomic!Spec
=============================================================================
