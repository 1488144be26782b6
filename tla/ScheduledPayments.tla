-------------------------- MODULE ScheduledPayments --------------------------
(***************************************************************************)
(* Scheduled payments from the form (ScheduledTransferTab.tsx) through the *)
(* routes that create and cancel them (routers/transfers.py) to the worker *)
(* that makes them (scheduled_payments_worker.py).                         *)
(*                                                                         *)
(* A cycle of the worker selects all due payments and makes one: its       *)
(* commit or rollback expires the others, and touching an expired object   *)
(* raises outside the cycle's handler.  Until the commit the worker works  *)
(* on copies; the commit writes the changed columns, with the value that   *)
(* was computed from the copies.                                           *)
(***************************************************************************)
EXTENDS Integers, FiniteSets, FiniteSetsExt

CONSTANTS Payment,         \* scheduled payments
          Kind,            \* of each payee: "p2p", "vendor" or "unknown"
          Period,          \* days between payments of the known frequencies
          FormChoice,      \* the frequencies of the form that are tried
          ApiChoice,       \* the frequencies other clients send
          Target,          \* numbers of payments that are asked for
          Opening,         \* the funding account's balance, in payments
          NullKeyAllowed,  \* scheduled_payments.idempotency_key may be NULL
          LastDay,         \* bound: the days that are followed
          MaxRequests,     \* bound: other bookings on the account
          MaxCrashes,      \* bound: cycles that do not reach their commit
          Never            \* no date: NULL

Day == 0..LastDay
Status == {"Active", "Retrying", "Completed", "Failed", "Cancelled"}
Over == {"Completed", "Failed", "Cancelled"}

(* calculate_next_run_at: None for every other string, "One-time" too.     *)
NextRun(now, frequency) ==
    IF frequency \in DOMAIN Period THEN now + Period[frequency] ELSE Never

VARIABLES
    clock,       \* the day
    row,         \* scheduled_payments, absent or a record
    asked,       \* history: the day on which
    balance,     \* the funding account
    booked,      \* history: what other requests booked on it
    requests,    \* history: how many there were
    overtaken,   \* history: one committed while the worker held its copy
    cancelling,  \* payments whose cancellation has read a cancellable row
    worker,      \* "idle", or the payment in hand with the copies
    paid,        \* history: the payments each vendor executed
    crashes      \* history: cycles that were lost

account == <<balance, booked, requests, overtaken>>
vendors == <<paid, crashes>>
vars == <<clock, row, asked, account, cancelling, worker, vendors>>

Frequency == {"daily", "weekly", "monthly"} \cup ApiChoice
Row == [status : Status, frequency : Frequency,
        end : {"never", "target", "date", "occurrences"},
        target : Nat, until : Nat \cup {Never}, next : Nat \cup {Never},
        made : Nat, retries : 0..3]

TypeOK ==
    /\ clock \in Day
    /\ \A p \in Payment : row[p] # Never => row[p] \in Row
    /\ balance \in Int /\ booked \in Int
    /\ requests \in 0..MaxRequests /\ overtaken \in BOOLEAN
    /\ cancelling \subseteq Payment
    /\ worker.at \in {"idle", "selected", "paid"}
    /\ paid \in [Payment -> Nat]
    /\ crashes \in 0..MaxCrashes

Idle == [at |-> "idle"]

Init ==
    /\ clock = 0
    /\ row = [p \in Payment |-> Never]
    /\ asked = [p \in Payment |-> Never]
    /\ balance = Opening
    /\ booked = 0
    /\ requests = 0
    /\ overtaken = FALSE
    /\ cancelling = {}
    /\ worker = Idle
    /\ paid = [p \in Payment |-> 0]
    /\ crashes = 0

-----------------------------------------------------------------------------
(* The form and the routes.                                                *)

(* freqMap: what it does not know becomes monthly.                         *)
FormFrequency(choice) ==
    CASE choice = "Daily" -> "daily"
      [] choice = "Weekly" -> "weekly"
      [] OTHER -> "monthly"

(* create_scheduled_payment.  The start date and the reservation are       *)
(* stored and used by nothing.                                             *)
Create(p, frequency, end, target, until) ==
    /\ row[p] = Never
    /\ row' = [row EXCEPT ![p] =
            [status |-> "Active", frequency |-> frequency, end |-> end,
             target |-> target, until |-> until,
             next |-> NextRun(clock, frequency), made |-> 0, retries |-> 0]]
    /\ asked' = [asked EXCEPT ![p] = clock]
    /\ UNCHANGED <<clock, account, cancelling, worker, vendors>>

(* handleSubmit sends max_occurrences, which the route does not know, and  *)
(* no idempotency key: where the column is NOT NULL the insert fails.      *)
HandleSubmit(p) ==
    /\ NullKeyAllowed
    /\ \E choice \in FormChoice, end \in {"never", "date", "occurrences"} :
          Create(p, FormFrequency(choice), end, 0,
                 IF end = "date" THEN LastDay ELSE Never)

CreateByApi(p) ==
    \E frequency \in ApiChoice, n \in Target, end \in {"never", "target", "date"} :
        Create(p, frequency, end, IF end = "target" THEN n ELSE 0,
               IF end = "date" THEN clock + 2 ELSE Never)

(* cancel_scheduled_payment reads the row without a lock...                *)
CancelReads(p) ==
    /\ row[p] # Never
    /\ row[p].status \notin Over
    /\ p \notin cancelling
    /\ cancelling' = cancelling \cup {p}
    /\ UNCHANGED <<clock, row, asked, account, worker, vendors>>

(* ... and commits what it decided.                                        *)
CancelCommits(p) ==
    /\ p \in cancelling
    /\ cancelling' = cancelling \ {p}
    /\ row' = [row EXCEPT ![p].status = "Cancelled", ![p].next = Never]
    /\ UNCHANGED <<clock, asked, account, worker, vendors>>

(* Another request books on the funding account.                           *)
Book ==
    /\ requests < MaxRequests
    /\ requests' = requests + 1
    /\ \E d \in {-1, 1} :
        /\ balance + d >= 0
        /\ balance' = balance + d
        /\ booked' = booked + d
    /\ overtaken' = (overtaken \/ worker.at # "idle")
    /\ UNCHANGED <<clock, row, asked, cancelling, worker, vendors>>

-----------------------------------------------------------------------------
(* The worker.                                                             *)

(* Mutant: a payment that is retried is not selected.                      *)
Due_ActiveOnly == {p \in Payment : /\ row[p] # Never
                                   /\ row[p].status = "Active"
                                   /\ row[p].next # Never /\ row[p].next <= clock}
(* The select of process_scheduled_payments.                               *)
Due == {p \in Payment : /\ row[p] # Never
                        /\ row[p].status \in {"Active", "Retrying"}
                        /\ row[p].next # Never /\ row[p].next <= clock}

(* The select has no order: any due payment may be the one it begins with. *)
Select ==
    /\ worker = Idle
    /\ \E p \in Due :
          worker' = [at |-> "selected", payment |-> p, copy |-> row[p],
                     seen |-> balance]
    /\ UNCHANGED <<clock, row, asked, account, cancelling, vendors>>

(* The commit: the columns that differ from the copy are written.          *)
Commit(new) ==
    LET p == worker.payment  old == worker.copy
    IN  /\ row' = [row EXCEPT ![p] =
                [c \in DOMAIN old |-> IF new[c] # old[c] THEN new[c] ELSE @[c]]]
        /\ worker' = Idle
        /\ UNCHANGED <<clock, asked, booked, requests, overtaken, cancelling, vendors>>

Stop(r, status) == [r EXCEPT !.status = status, !.next = Never]

(* Mutant: the next date is not advanced.                                  *)
Rescheduled_SameDay(r) ==
    LET next == NextRun(clock, r.frequency)
    IN  IF \/ r.end = "target" /\ r.made >= r.target
           \/ r.end = "date" /\ next > r.until
        THEN Stop(r, "Completed") ELSE r

(* _update_schedule                                                        *)
Rescheduled(r) ==
    LET next == NextRun(clock, r.frequency)
    IN  IF \/ r.end = "target" /\ r.made >= r.target
           \/ r.end = "date" /\ next > r.until
        THEN Stop(r, "Completed") ELSE [r EXCEPT !.next = next]

Made(r) == Rescheduled([r EXCEPT !.made = @ + 1])

(* The balance is written as an absolute value; nothing was locked.        *)
Pay == /\ balance' = worker.seen - 1
       /\ Commit(Made(worker.copy))

(* handle_fail: two more days, then it has failed for good.                *)
HandleFail ==
    LET r == [worker.copy EXCEPT !.retries = @ + 1]
    IN  /\ Commit(IF r.retries >= 3 THEN Stop(r, "Failed")
                  ELSE [r EXCEPT !.status = "Retrying", !.next = clock + 1])
        /\ UNCHANGED balance

(* Nobody has the address.  get_vendors answers with an empty list when    *)
(* the simulator is down: the payment of a vendor then fails for good.     *)
NoPayee ==
    /\ worker.at = "selected"
    /\ Kind[worker.payment] \in {"vendor", "unknown"}
    /\ Commit(Stop(worker.copy, "Failed"))
    /\ UNCHANGED balance

Short ==
    /\ worker.at = "selected"
    /\ Kind[worker.payment] # "unknown"
    /\ worker.seen < 1
    /\ HandleFail

PayPerson ==
    /\ worker.at = "selected"
    /\ Kind[worker.payment] = "p2p"
    /\ worker.seen >= 1
    /\ Pay

(* execute_vendor_payment, before anything is committed.  A bill that the  *)
(* simulator refuses, or that times out, is booked like one it executed.   *)
ExecuteVendorPayment ==
    /\ worker.at = "selected"
    /\ Kind[worker.payment] = "vendor"
    /\ worker.seen >= 1
    /\ \E executed \in {0, 1} :
          paid' = [paid EXCEPT ![worker.payment] = @ + executed]
    /\ worker' = [worker EXCEPT !.at = "paid"]
    /\ UNCHANGED <<clock, row, asked, account, cancelling, crashes>>

(* Mutant: a vendor payment is executed and not booked.                    *)
BookVendorPayment_Unbooked ==
    /\ worker.at = "paid"
    /\ worker' = Idle
    /\ UNCHANGED <<clock, row, asked, account, cancelling, vendors>>
BookVendorPayment ==
    /\ worker.at = "paid"
    /\ Pay

(* The worker is restarted, or the database refuses: rollback.             *)
Crash ==
    /\ crashes < MaxCrashes
    /\ worker # Idle
    /\ worker' = Idle
    /\ crashes' = crashes + 1
    /\ UNCHANGED <<clock, row, asked, account, cancelling, paid>>

(* A cycle a minute: a day passes when no payment is left to make.         *)
Tick ==
    /\ clock < LastDay
    /\ worker = Idle
    /\ Due = {}
    /\ clock' = clock + 1
    /\ UNCHANGED <<row, asked, account, cancelling, worker, vendors>>

Cycle == Select \/ NoPayee \/ Short \/ PayPerson
         \/ ExecuteVendorPayment \/ BookVendorPayment

Next == \/ \E p \in Payment : HandleSubmit(p) \/ CreateByApi(p)
                              \/ CancelReads(p) \/ CancelCommits(p)
        \/ Book \/ Cycle \/ Crash \/ Tick

Spec == Init /\ [][Next]_vars
(* The worker's loop never ends.                                           *)
FairSpec == Spec /\ WF_vars(Cycle)

-----------------------------------------------------------------------------
Stored == {p \in Payment : row[p] # Never}

(* No payment is made more often than its frequency says, whatever was     *)
(* cancelled, retried or lost meanwhile.                                   *)
MadeOncePerPeriod ==
    \A p \in Stored : row[p].made > 0 =>
        row[p].made * Period[row[p].frequency] <= clock - asked[p]

(* "A total of N payments" is never exceeded.                              *)
TargetIsKept ==
    \A p \in Stored : row[p].end = "target" => row[p].made <= Max({1, row[p].target})

(* The payments made and those a vendor executed, the first, the second... *)
(* of each scheduled payment.                                              *)
AllMade == UNION {{p} \X (1..row[p].made) : p \in Stored}
AllExecuted == UNION {{p} \X (1..paid[p]) : p \in Payment}

(* While nobody else books during a cycle, the account has paid for        *)
(* exactly the payments that were made.                                    *)
BooksBalance ==
    ~overtaken => balance + Cardinality(AllMade) = Opening + booked

(* A vendor is paid without a booking only by a cycle that was lost.       *)
UnbookedNeedsCrash ==
    Cardinality(AllExecuted) <=
        Cardinality(AllMade) + crashes + (IF worker.at = "paid" THEN 1 ELSE 0)

(* Every due payment is dealt with: made, put off, failed or cancelled.    *)
Waits(p) == row[p] # Never /\ row[p].status \notin Over /\ row[p].next # Never /\ row[p].next <= clock
DueIsProcessed == \A p \in Payment : Waits(p) ~> ~Waits(p)
=============================================================================
