----------------------------- MODULE Analytics ------------------------------
(***************************************************************************)
(* What the customer's pages make of the transactions they fetch: money in *)
(* or out (isTransactionIncome), the totals of the Analytics Studio and of *)
(* the dashboard (dashboardUtils), the status shown by the feed, the       *)
(* receipt and the list of an account.                                     *)
(*                                                                         *)
(* A transfer inside the bank is booked as two legs.  A record may reach   *)
(* the page without its side, its merchant or its e-mail addresses: those  *)
(* fields are blank in older rows.                                         *)
(*                                                                         *)
(* The page reads ClickHouse.  Which rows are there, and with which of the *)
(* statuses that events have told of them, is module Outbox's matter.      *)
(***************************************************************************)
EXTENDS Lists, Functions

CONSTANTS Kind,         \* the kinds of movements that are booked
          Blank,        \* the sets of fields that may be blank
          MaxCents,     \* bound: amount of a movement
          MaxMovements  \* bound: movements

Type == [p2p |-> "transfer", internal |-> "transfer", bill |-> "expense",
         simulation |-> "expense", deposit |-> "deposit",
         wire |-> "wire", fednow |-> "fednow", ach |-> "ach"]
Category == [p2p |-> "p2p", internal |-> "Internal Transfer", bill |-> "Bill Pay",
             simulation |-> "Simulation", deposit |-> "Top-up",
             wire |-> "Wire Transfer", fednow |-> "Instant Payment", ach |-> "ACH Transfer"]
TwoLegs == {"p2p", "internal"}

Status == {"sent_to_kafka", "processing", "cleared", "failed"}
Record == [kind : Kind, leg : {"DEBIT", "CREDIT"}, blank : Blank,
           cents : 1..MaxCents, status : Status]

VARIABLES booked,   \* the customer's transactions, in the order of booking
          told,     \* of each, the statuses events report to ClickHouse
          heard,    \* the one the outbox worker has found open; 0: none
          fetched   \* the page's copy of some of them

vars == <<booked, told, heard, fetched>>

-----------------------------------------------------------------------------
(* Money in or out: the first rule that decides.                           *)

Rule == {"in", "out", "open"}

BySide(r) ==
    IF "side" \in r.blank THEN "open" ELSE IF r.leg = "CREDIT" THEN "in" ELSE "out"

ByType(r) ==
    CASE Type[r.kind] \in {"income", "salary", "deposit", "interest", "cashback"} -> "in"
      [] Type[r.kind] \in {"expense", "payment", "purchase", "withdrawal", "fee"} -> "out"
      [] OTHER -> "open"

(* Both legs of a transfer name the other party: "To ..." or "From ...".   *)
ByMarker(r) ==
    IF "merchant" \in r.blank \/ r.kind \notin TwoLegs THEN "open"
    ELSE IF r.leg = "CREDIT" THEN "in" ELSE "out"

(* Only for callers that tell whose page it is; between a user's own       *)
(* accounts both addresses are the same.                                   *)
ByEmail(r, known) ==
    IF ~known \/ "emails" \in r.blank \/ r.kind \notin TwoLegs THEN "open"
    ELSE IF r.kind = "p2p" /\ r.leg = "CREDIT" THEN "in" ELSE "out"

(* A merchant that is no deposit, salary or payroll is paid.               *)
ByMerchant(r) == IF "merchant" \in r.blank THEN "open" ELSE "out"

ByCategory(r) ==
    CASE Category[r.kind] \in {"Income", "Salary", "Deposit"} -> "in"
      [] Category[r.kind] \in {"Dining", "Transport", "Utilities", "Shopping"} -> "out"
      [] OTHER -> "open"

(* Mutant: a merchant decides before its "From" is read.                   *)
Rules_MerchantFirst(r, known) ==
    <<BySide(r), ByType(r), ByMerchant(r), ByMarker(r), ByEmail(r, known), ByCategory(r)>>
Rules(r, known) ==
    <<BySide(r), ByType(r), ByMarker(r), ByEmail(r, known), ByMerchant(r), ByCategory(r)>>

IsTransactionIncome(r, known) ==
    LET rules == Rules(r, known)
    IN  \E i \in DOMAIN rules : rules[i] = "in" /\ \A j \in 1..(i - 1) : rules[j] = "open"

-----------------------------------------------------------------------------
(* Totals: of records numbered in S.                                       *)

Cents(txs, S) == SumFunctionOnSet([i \in DOMAIN txs |-> txs[i].cents], S)
Income(txs) == {i \in DOMAIN txs : IsTransactionIncome(txs[i], FALSE)}
Expense(txs) == DOMAIN txs \ Income(txs)

RailOf(r) == IF Type[r.kind] \in {"fednow", "wire", "ach"} THEN Type[r.kind] ELSE "internal"
RailMap(txs) ==
    [rail \in {"fednow", "wire", "ach", "internal"} |->
        Cents(txs, {i \in DOMAIN txs : RailOf(txs[i]) = rail})]

CategoryMap(txs) ==
    [c \in {Category[k] : k \in Kind} |->
        Cents(txs, {i \in DOMAIN txs : Category[txs[i].kind] = c})]

(* Math.round of a share in percent; 0 of nothing.                         *)
Percent(part, whole) ==
    IF whole > 0 THEN (200 * part + whole) \div (2 * whole) ELSE 0

SavingsRate(txs) ==
    LET rate == Percent(Cents(txs, Income(txs)) - Cents(txs, Expense(txs)), Cents(txs, Income(txs)))
    IN  IF rate > 0 THEN rate ELSE 0

(* calculateStats leaves out what moves between the customer's accounts.   *)
External(txs) == {i \in DOMAIN txs : Category[txs[i].kind] # "Internal Transfer"}
TotalIncome(txs) == Cents(txs, Income(txs) \cap External(txs))
TotalExpenses(txs) == Cents(txs, Expense(txs) \cap External(txs))

(* calculateSpendingByCategory: categories, and transfers as one.          *)
SpendingCategory(r) == IF Type[r.kind] = "transfer" THEN "Transfers" ELSE Category[r.kind]
ByCategoryOf(txs) ==
    LET spent == Expense(txs) \cap External(txs)
    IN  [c \in {SpendingCategory(txs[i]) : i \in spent} |->
            Cents(txs, {i \in spent : SpendingCategory(txs[i]) = c})]

-----------------------------------------------------------------------------
(* The status.                                                             *)

(* formatTransactionStatus: feed, receipt and history.                     *)
FeedLabel(status) ==
    CASE status \in {"sent_to_kafka", "pending", "processing", "in_progress"} -> "Processing"
      [] status \in {"failed", "rejected", "declined"} -> "Declined"
      [] status \in {"reversed", "refunded"} -> "Refunded"
      [] OTHER -> "Settled"

(* getTransactionStatus and getStatusLabel: the list of an account.        *)
ListLabel(status) ==
    CASE status \in {"pending", "sent_to_kafka"} -> "Pending"
      [] status = "cleared" -> "Cleared"
      [] status = "failed" -> "Failed"
      [] OTHER -> "Unknown Status"

-----------------------------------------------------------------------------
TypeOK ==
    /\ ToSet(booked) \subseteq Record
    /\ told \in [DOMAIN booked -> SUBSET Status]
    /\ heard \in 0..Len(booked)
    /\ DOMAIN fetched \subseteq DOMAIN booked
    /\ \A i \in DOMAIN fetched : /\ fetched[i].status \in told[i]
                                /\ [fetched[i] EXCEPT !.status = booked[i].status] = booked[i]
    /\ SavingsRate(fetched) \in 0..100

Init == booked = <<>> /\ told = <<>> /\ heard = 0 /\ fetched = <<>>

(* A bill the vendor refuses is booked as failed; an administrator's       *)
(* simulation writes the transaction alone.                                *)
Outcome(kind) ==
    CASE kind = "bill" -> {"cleared", "failed"}
      [] kind = "simulation" -> {"sent_to_kafka"}
      [] OTHER -> {"cleared"}

(* No event is written about the legs of an internal transfer and about a  *)
(* simulation: the daily check finds that ClickHouse has no such row.      *)
Told(kind, status) == IF kind \in {"internal", "simulation"} THEN {} ELSE {status}

Leg(kind, leg, blank, cents, status) ==
    [kind |-> kind, leg |-> leg, blank |-> blank, cents |-> cents, status |-> status]

(* A transfer between the customer's accounts books both legs; one with    *)
(* somebody else the customer's.                                           *)
Book ==
    /\ Len(booked) < MaxMovements
    /\ \E kind \in Kind, blank \in Blank, cents \in 1..MaxCents :
       \E status \in Outcome(kind), leg \in {"DEBIT", "CREDIT"} :
         /\ leg = "CREDIT" => kind \in {"p2p", "deposit"}
         /\ leg = "DEBIT" => kind # "deposit"
         /\ LET legs == IF kind = "internal"
                        THEN <<Leg(kind, "DEBIT", blank, cents, status),
                               Leg(kind, "CREDIT", blank, cents, status)>>
                        ELSE <<Leg(kind, leg, blank, cents, status)>>
            IN  /\ booked' = booked \o legs
                /\ told' = told \o [i \in DOMAIN legs |-> Told(kind, status)]
    /\ UNCHANGED <<heard, fetched>>

Open(i) == booked[i].status \in {"sent_to_kafka", "processing"}

(* The daily check tells ClickHouse this of a transaction it has missing   *)
(* or otherwise: that a simulation is cleared while the bank is at it.     *)
Effective(s) == IF s \in {"cleared", "sent_to_kafka"} THEN "cleared" ELSE s

SyncCheck ==
    \E i \in DOMAIN booked :
        /\ told' = [told EXCEPT ![i] = @ \cup {Effective(booked[i].status)}]
        /\ UNCHANGED <<booked, heard, fetched>>

(* The outbox worker has sent an event about a transaction and looks at    *)
(* its status ...                                                          *)
LookAtTransaction ==
    \E i \in DOMAIN booked :
        /\ heard = 0
        /\ told[i] # {} /\ Open(i)
        /\ heard' = i
        /\ UNCHANGED <<booked, told, fetched>>

(* ... which it overwrites, though the settlement may have come between.   *)
MarkProcessing ==
    /\ heard # 0
    /\ booked' = [booked EXCEPT ![heard].status = "processing"]
    /\ heard' = 0
    /\ UNCHANGED <<told, fetched>>

AutoSettle ==
    \E i \in DOMAIN booked :
        /\ Open(i)
        /\ booked' = [booked EXCEPT ![i].status = "cleared"]
        /\ told' = [told EXCEPT ![i] = @ \cup {"cleared"}]
        /\ UNCHANGED <<heard, fetched>>

(* The rows ClickHouse has by now, each with a status it was told of.      *)
FetchTransactions ==
    /\ \E S \in SUBSET {i \in DOMAIN booked : told[i] # {}} :
         /\ \E status \in [S -> Status] :
              /\ \A i \in S : status[i] \in told[i]
              /\ fetched' = [i \in S |-> [booked[i] EXCEPT !.status = status[i]]]
    /\ UNCHANGED <<booked, told, heard>>

Next ==
    \/ Book \/ LookAtTransaction \/ MarkProcessing \/ AutoSettle \/ SyncCheck
    \/ FetchTransactions

Spec == Init /\ [][Next]_vars

-----------------------------------------------------------------------------
(* A record that kept its side, or its merchant, is shown in its           *)
(* direction, whichever other fields are blank, whoever asks.              *)
DirectionRight ==
    \A i \in DOMAIN fetched, known \in BOOLEAN :
        ({"side", "merchant"} \subseteq fetched[i].blank)
        \/ (IsTransactionIncome(fetched[i], known) <=> fetched[i].leg = "CREDIT")

(* Rails and categories divide the turnover: nothing is counted twice or   *)
(* left out.                                                               *)
PartsAddUp ==
    LET turnover == Cents(fetched, Income(fetched)) + Cents(fetched, Expense(fetched))
    IN  /\ SumFunction(RailMap(fetched)) = turnover
        /\ SumFunction(CategoryMap(fetched)) = turnover
        /\ SumFunction(ByCategoryOf(fetched)) = TotalExpenses(fetched)

(* The studio counts transfers between the customer's accounts, the        *)
(* dashboard does not: when both legs have arrived, and are told apart,    *)
(* the net flow is the same.                                               *)
InternalCents(leg) ==
    Cents(fetched, {i \in DOMAIN fetched \ External(fetched) : fetched[i].leg = leg})
NetFlowsAgree ==
    /\ \A i \in DOMAIN fetched : ~({"side", "merchant"} \subseteq fetched[i].blank)
    /\ InternalCents("DEBIT") = InternalCents("CREDIT")
    => Cents(fetched, Income(fetched)) - Cents(fetched, Expense(fetched))
         = TotalIncome(fetched) - TotalExpenses(fetched)

(* The page shows a transaction as declined if and only if it failed at    *)
(* the bank, in the feed and in the list of an account: neither the        *)
(* settlement nor the worker that overwrites it, nor the daily check,      *)
(* which calls settled what is not cleared yet, confuses the two.          *)
DeclinedIsFailed ==
    \A i \in DOMAIN fetched :
        /\ FeedLabel(fetched[i].status) = "Declined" <=> booked[i].status = "failed"
        /\ ListLabel(fetched[i].status) = "Failed" <=> booked[i].status = "failed"
=============================================================================
