------------------------------ MODULE MCLedger ------------------------------
(* Values of Ledger's constants for TLC: two accounts that open with one   *)
(* unit, so that a second debit of an account finds no funds.              *)
EXTENDS Ledger, TLC

MCOpening == [a \in Account |-> 1]

Symmetry == Permutations(Attempt) \cup Permutations(Intent)
=============================================================================
