------------------------------ MODULE MCPayments ------------------------------
EXTENDS PaymentScreens

(* Two numbers whose banks prefer different rails, both quick recipients.  *)
MCDirectory == [r1 |-> "fednow", r2 |-> "wire"]
MCSuggested == {[routing |-> r, rail |-> MCDirectory[r]] : r \in {"r1", "r2"}}
===============================================================================
