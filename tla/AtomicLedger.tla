---------------------------- MODULE AtomicLedger ----------------------------
(***************************************************************************)
(* What the account balances of the bank promise: a money movement is one  *)
(* indivisible step that finds the funds it takes and books exactly what   *)
(* it moves.  Ledger.tla, the model of the handlers and their database     *)
(* sessions, is checked (and proved) to implement this specification when  *)
(* every handler reads the rows it writes under their row locks.           *)
(***************************************************************************)
EXTENDS Integers

CONSTANTS Account,   \* rows of the accounts table
          Attempt,   \* executions of a handler
          Amount,    \* the positive amounts of cents that can be moved
          Opening    \* the balance each account starts with

VARIABLES balance,   \* accounts.balance
          posted     \* the movements that have been booked

vars == <<balance, posted>>

Movement == [by: Attempt, account: Account, amount: Int]

Init ==
    /\ balance = Opening
    /\ posted = {}

(***************************************************************************)
(* A transfer between two accounts of the bank: both legs or none.         *)
(***************************************************************************)
Transfer(p, from, to, amount) ==
    /\ from # to
    /\ balance[from] >= amount
    /\ balance' = [balance EXCEPT ![from] = @ - amount, ![to] = @ + amount]
    /\ posted' = posted \cup {[by |-> p, account |-> from, amount |-> 0 - amount],
                              [by |-> p, account |-> to,   amount |-> amount]}

Deposit(p, to, amount) ==
    /\ balance' = [balance EXCEPT ![to] = @ + amount]
    /\ posted' = posted \cup {[by |-> p, account |-> to, amount |-> amount]}

Payment(p, from, amount) ==
    /\ balance[from] >= amount
    /\ balance' = [balance EXCEPT ![from] = @ - amount]
    /\ posted' = posted \cup {[by |-> p, account |-> from, amount |-> 0 - amount]}

(***************************************************************************)
(* No attempt books twice.                                                 *)
(***************************************************************************)
Move(p) ==
    /\ \A m \in posted : m.by # p
    /\ \E amount \in Amount :
          \/ \E from, to \in Account : Transfer(p, from, to, amount)
          \/ \E to \in Account : Deposit(p, to, amount)
          \/ \E from \in Account : Payment(p, from, amount)

Next == \E p \in Attempt : Move(p)

Spec == Init /\ [][Next]_vars

=============================================================================
