---------------------- MODULE ScheduledPaymentsProofs -----------------------
(***************************************************************************)
(* Theorems about ScheduledPayments, for any payments, frequencies and     *)
(* bounds: however often the worker is restarted, fails or is raced by a   *)
(* cancellation, a payment is made no more often than was asked for.       *)
(***************************************************************************)
EXTENDS ScheduledPayments, FiniteSetTheorems, TLAPS

End == {"never", "target", "date", "occurrences"}

Constants ==
    /\ Period \in [DOMAIN Period -> Nat \ {0}]
    /\ Target \subseteq Nat
    /\ LastDay \in Nat /\ MaxRequests \in Nat /\ MaxCrashes \in Nat
    /\ Opening \in Int
    /\ Never \notin Int /\ Never \notin Row

Hand == [at : {"selected", "paid"}, payment : Payment, copy : Row, seen : Int]

(* A row that will be paid again has its next date a period behind the     *)
(* last payment, and has not failed three times; every payment made had    *)
(* its period before it.                                                   *)
InStep(r, day, now) ==
    /\ r.next # Never => r.retries <= 2
    /\ r.next # Never => /\ r.frequency \in DOMAIN Period
                         /\ day + (r.made + 1) * Period[r.frequency] <= r.next
    /\ r.made > 0 => /\ r.frequency \in DOMAIN Period
                     /\ day + r.made * Period[r.frequency] <= now

(* A row with a target that will be paid again has not reached it.         *)
BelowTarget(r) == r.end = "target" =>
    /\ r.made <= 1 \/ r.made <= r.target
    /\ r.next # Never => r.made = 0 \/ r.made < r.target

(* What is in hand was due, and only a cancellation touches its row.       *)
InHand == worker # Idle =>
    /\ worker \in Hand
    /\ row[worker.payment] # Never
    /\ worker.copy.next # Never /\ worker.copy.next <= clock
    /\ \A c \in {"frequency", "end", "target", "until", "made", "retries"} :
          row[worker.payment][c] = worker.copy[c]

Types ==
    /\ clock \in Nat
    /\ balance \in Int
    /\ DOMAIN row = Payment /\ DOMAIN asked = Payment
    /\ \A p \in Payment : row[p] # Never => row[p] \in Row /\ asked[p] \in Int

(* A cancellation has read a row.                                          *)
Cancellable == \A p \in cancelling : p \in Payment /\ row[p] # Never

Inv ==
    /\ Types
    /\ InHand
    /\ Cancellable
    /\ \A p \in Payment : row[p] # Never => InStep(row[p], asked[p], clock) /\ BelowTarget(row[p])
    /\ worker # Idle => InStep(worker.copy, asked[worker.payment], clock) /\ BelowTarget(worker.copy)

-----------------------------------------------------------------------------
(* The arithmetic of one more payment of an amount.                        *)
LEMMA OneMore ==
    ASSUME NEW m \in Int, NEW k \in Int
    PROVE  (m + 1) * k = m * k + k /\ 0 * k = 0 /\ m * k \in Int
  OBVIOUS

(* An empty table keeps the invariant.                                     *)
LEMMA InitInv == Constants /\ Init => Inv
<1> SUFFICES ASSUME Constants, Init PROVE Inv
  OBVIOUS
<1>1. Types
  BY DEF Constants, Init, Types
<1>2. worker = Idle /\ cancelling = {} /\ \A p \in Payment : row[p] = Never
  BY DEF Init
<1>3. QED
  BY <1>1, <1>2 DEF Inv, InHand, Cancellable

(* The next date is a period ahead.                                        *)
LEMMA NextRunAhead ==
    ASSUME Constants, NEW now \in Nat, NEW f
    PROVE  /\ f \in DOMAIN Period => /\ NextRun(now, f) = now + Period[f]
                                     /\ Period[f] \in Nat /\ Period[f] >= 1
           /\ f \notin DOMAIN Period => NextRun(now, f) = Never
           /\ NextRun(now, f) \in Nat \cup {Never}
  BY DEF Constants, NextRun

(* A new row.                                                              *)
LEMMA Created ==
    ASSUME Constants, Inv, NEW p \in Payment, NEW f \in Frequency, NEW end \in End,
           NEW t \in Nat, NEW until \in Nat \cup {Never}, Create(p, f, end, t, until)
    PROVE  Inv'
<1> DEFINE new == [status |-> "Active", frequency |-> f, end |-> end,
                   target |-> t, until |-> until,
                   next |-> NextRun(clock, f), made |-> 0, retries |-> 0]
<1>1. /\ row[p] = Never /\ row' = [row EXCEPT ![p] = new]
      /\ asked' = [asked EXCEPT ![p] = clock]
      /\ UNCHANGED <<clock, balance, worker, cancelling>> /\ Types
  BY DEF Create, account, Inv
<1>2. clock \in Nat
  BY <1>1 DEF Types
<1>3. new \in Row
  BY <1>2, NextRunAhead DEF Row, Status, End
<1>4. InStep(new, clock, clock) /\ BelowTarget(new)
  <2>1. /\ new.next = NextRun(clock, f) /\ new.frequency = f /\ new.made = 0
        /\ new.retries = 0
    OBVIOUS
  <2>2. f \in DOMAIN Period =>
            clock + (0 + 1) * Period[f] <= NextRun(clock, f)
    BY <1>2, NextRunAhead, OneMore
  <2>3. InStep(new, clock, clock)
    BY <2>1, <2>2, NextRunAhead, <1>2 DEF InStep
  <2>4. BelowTarget(new)
    BY <2>1 DEF BelowTarget
  <2>5. QED
    BY <2>3, <2>4
<1>5. /\ row'[p] = new /\ asked'[p] = clock
      /\ \A q \in Payment \ {p} : row'[q] = row[q] /\ asked'[q] = asked[q]
      /\ DOMAIN row' = Payment /\ DOMAIN asked' = Payment
  BY <1>1 DEF Types
<1>6. Types'
  BY <1>1, <1>2, <1>3, <1>5 DEF Types
<1>7. worker # Idle => worker \in Hand /\ worker.payment # p
  BY <1>1 DEF Inv, InHand
<1>8. InHand'
  BY <1>1, <1>5, <1>7 DEF Inv, InHand, Hand
<1>9. ASSUME NEW q \in Payment, row'[q] # Never
      PROVE  InStep(row'[q], asked'[q], clock') /\ BelowTarget(row'[q])
  <2>1. CASE q = p
    BY <1>1, <1>4, <1>5, <2>1
  <2>2. CASE q # p
    BY <1>1, <1>5, <1>9, <2>2 DEF Inv
  <2>3. QED
    BY <2>1, <2>2
<1>10. worker # Idle => /\ InStep(worker.copy, asked'[worker.payment], clock')
                        /\ BelowTarget(worker.copy)
  <2>1. worker # Idle => asked'[worker.payment] = asked[worker.payment]
    BY <1>5, <1>7 DEF Hand
  <2>2. QED
    BY <1>1, <2>1 DEF Inv
<1>11. Cancellable'
  <2>1. \A q \in cancelling : q \in Payment /\ q # p
    BY <1>1 DEF Inv, Cancellable
  <2>2. QED
    BY <1>1, <1>5, <2>1 DEF Inv, Cancellable
<1>12. QED
  BY <1>1, <1>6, <1>8, <1>9, <1>10, <1>11 DEF Inv

(* What the worker writes over a row is its result, but for a status that  *)
(* it left alone: of the row only a cancellation changed something else.   *)
LEMMA Merged ==
    ASSUME NEW old \in Row, NEW new \in Row, NEW now \in Row,
           new.next # old.next,
           now.frequency = old.frequency, now.end = old.end, now.target = old.target,
           now.until = old.until, now.made = old.made, now.retries = old.retries,
           NEW merged,
           merged = [c \in DOMAIN old |-> IF new[c] # old[c] THEN new[c] ELSE now[c]]
    PROVE  /\ merged \in Row
           /\ merged.next = new.next /\ merged.made = new.made
           /\ merged.frequency = new.frequency
           /\ merged.end = new.end /\ merged.target = new.target
           /\ merged.retries = new.retries
<1>1. DOMAIN old = {"status", "frequency", "end", "target", "until", "next", "made", "retries"}
  BY DEF Row
<1>2. \A c \in DOMAIN old : merged[c] = IF new[c] # old[c] THEN new[c] ELSE now[c]
  OBVIOUS
<1>3. /\ merged.next = new.next /\ merged.made = new.made
      /\ merged.frequency = new.frequency
      /\ merged.end = new.end /\ merged.target = new.target
      /\ merged.until = new.until /\ merged.retries = new.retries
      /\ merged.status \in {new.status, now.status}
  BY <1>1, <1>2
<1>4. merged = [status |-> merged.status, frequency |-> new.frequency, end |-> new.end,
                target |-> new.target, until |-> new.until, next |-> new.next,
                made |-> new.made, retries |-> new.retries]
  BY <1>1, <1>3
<1>5. merged \in Row
  BY <1>3, <1>4 DEF Row
<1>6. QED
  BY <1>3, <1>5

(* A commit of the worker that moves the date on, in step and under the    *)
(* target, keeps it.                                                       *)
LEMMA Committed ==
    ASSUME Constants, Inv, worker # Idle, NEW new \in Row,
           new.next # worker.copy.next,
           InStep(new, asked[worker.payment], clock), BelowTarget(new),
           Commit(new), balance' \in Int
    PROVE  Inv'
<1> DEFINE p == worker.payment
           old == worker.copy
           merged == [c \in DOMAIN old |-> IF new[c] # old[c] THEN new[c] ELSE row[p][c]]
<1>1. /\ row' = [row EXCEPT ![p] = merged]
      /\ worker' = Idle /\ UNCHANGED <<clock, asked, cancelling>> /\ Types
  BY DEF Commit, Inv
<1>2. /\ p \in Payment /\ old \in Row /\ row[p] \in Row
      /\ \A c \in {"frequency", "end", "target", "until", "made", "retries"} :
            row[p][c] = old[c]
  BY <1>1 DEF Inv, InHand, Hand, Types
<1>3. /\ merged \in Row
      /\ merged.next = new.next /\ merged.made = new.made
      /\ merged.frequency = new.frequency
      /\ merged.end = new.end /\ merged.target = new.target
      /\ merged.retries = new.retries
  BY <1>2, Merged
<1>4. InStep(merged, asked[p], clock) /\ BelowTarget(merged)
  BY <1>3 DEF InStep, BelowTarget
<1> HIDE DEF merged
<1>5. ASSUME NEW q \in Payment, row'[q] # Never
      PROVE  /\ row'[q] \in Row /\ asked'[q] \in Int
             /\ InStep(row'[q], asked'[q], clock') /\ BelowTarget(row'[q])
  <2>1. CASE q = p
    <3>1. row'[q] = merged /\ asked'[q] = asked[p] /\ clock' = clock
      BY <1>1, <1>2, <2>1 DEF Types
    <3>2. asked[p] \in Int
      BY <1>1, <1>2 DEF Inv, InHand, Types
    <3>3. QED
      BY <1>3, <1>4, <3>1, <3>2
  <2>2. CASE q # p
    <3>1. row'[q] = row[q] /\ asked'[q] = asked[q] /\ clock' = clock
      BY <1>1, <1>2, <2>2 DEF Types
    <3>2. QED
      BY <1>1, <1>5, <3>1 DEF Inv, Types
  <2>3. QED
    BY <2>1, <2>2
<1>6. Types'
  BY <1>1, <1>5 DEF Types
<1>7. InHand'
  BY <1>1 DEF InHand
<1>8. Cancellable'
  <2>1. row'[p] = merged /\ merged # Never
    BY <1>1, <1>2, <1>3 DEF Constants, Types
  <2>2. \A q \in Payment \ {p} : row'[q] = row[q]
    BY <1>1 DEF Types
  <2>3. QED
    BY <1>1, <2>1, <2>2 DEF Inv, Cancellable
<1>9. QED
  BY <1>1, <1>5, <1>6, <1>7, <1>8 DEF Inv

(* The payment made: its next date is a period from today.                 *)
LEMMA MadeInStep ==
    ASSUME Constants, NEW day \in Int, clock \in Nat, NEW r \in Row,
           r.next # Never, r.next <= clock, InStep(r, day, clock), BelowTarget(r)
    PROVE  /\ Made(r) \in Row /\ Made(r).next # r.next
           /\ InStep(Made(r), day, clock) /\ BelowTarget(Made(r))
<1> DEFINE f == r.frequency
           s == [r EXCEPT !.made = @ + 1]
           next == NextRun(clock, f)
<1>1. /\ f \in DOMAIN Period /\ day + (r.made + 1) * Period[f] <= r.next
      /\ Period[f] \in Nat /\ Period[f] >= 1 /\ next = clock + Period[f]
  BY NextRunAhead DEF InStep
<1>2. /\ s \in Row /\ s.made = r.made + 1 /\ s.frequency = f /\ s.next = r.next
      /\ s.end = r.end /\ s.target = r.target /\ r.made \in Nat /\ r.target \in Nat
      /\ r.next \in Int /\ s.retries = r.retries /\ r.retries <= 2
  BY DEF Row, InStep
<1>3. day + s.made * Period[f] <= clock
  BY <1>1, <1>2, OneMore
<1>4. day + (s.made + 1) * Period[f] <= next
  <2>1. (s.made + 1) * Period[f] = s.made * Period[f] + Period[f] /\ s.made * Period[f] \in Int
    BY <1>1, <1>2, OneMore
  <2>2. QED
    BY <1>1, <1>3, <2>1
<1>5. next # r.next /\ next \in Nat /\ Never \notin Int
  BY <1>1, <1>2 DEF Constants
<1>6. s.end = "target" => s.made <= 1 \/ s.made <= s.target
  BY <1>2 DEF BelowTarget
<1>7. CASE Made(r) = Stop(s, "Completed")
  <2>1. /\ Made(r) \in Row /\ Made(r).next = Never /\ Made(r).made = s.made
        /\ Made(r).frequency = f /\ Made(r).end = s.end /\ Made(r).target = s.target
    BY <1>2, <1>7 DEF Stop, Row, Status
  <2>2. QED
    BY <1>1, <1>3, <1>6, <2>1 DEF InStep, BelowTarget
<1>8. CASE /\ Made(r) = [s EXCEPT !.next = next]
           /\ ~(s.end = "target" /\ s.made >= s.target)
  <2>1. /\ Made(r) \in Row /\ Made(r).next = next /\ Made(r).made = s.made
        /\ Made(r).frequency = f /\ Made(r).end = s.end /\ Made(r).target = s.target
        /\ Made(r).retries = s.retries
    BY <1>2, <1>5, <1>8 DEF Row
  <2>2. InStep(Made(r), day, clock)
    BY <1>1, <1>3, <1>4, <2>1 DEF InStep
  <2>3. BelowTarget(Made(r))
    BY <1>2, <1>6, <1>8, <2>1 DEF BelowTarget
  <2>4. QED
    BY <1>5, <2>1, <2>2, <2>3
<1>9. QED
  BY <1>2, <1>7, <1>8 DEF Made, Rescheduled

(* A cancellation that commits keeps it: it leaves the payment without a   *)
(* next date.                                                              *)
LEMMA CancelledInv ==
    ASSUME Constants, Inv, NEW p \in Payment, CancelCommits(p)
    PROVE  Inv'
<1> DEFINE new == [row[p] EXCEPT !.status = "Cancelled", !.next = Never]
<1>1. /\ row' = [row EXCEPT ![p] = new]
      /\ cancelling' = cancelling \ {p} /\ p \in cancelling
      /\ UNCHANGED <<clock, asked, balance, worker>> /\ Types
  BY DEF CancelCommits, account, Inv
<1>2. row[p] \in Row /\ asked[p] \in Int
  BY <1>1 DEF Inv, Cancellable, Types
<1>3. /\ new \in Row /\ new # Never /\ new.next = Never
      /\ \A c \in {"frequency", "end", "target", "until", "made", "retries"} :
            new[c] = row[p][c]
  BY <1>2 DEF Row, Status, Constants
<1>4. InStep(row[p], asked[p], clock) /\ BelowTarget(row[p])
  BY <1>1, <1>2 DEF Inv, Constants
<1>5. InStep(new, asked[p], clock) /\ BelowTarget(new)
  BY <1>3, <1>4 DEF InStep, BelowTarget
<1> HIDE DEF new
<1>6. /\ row'[p] = new /\ \A q \in Payment \ {p} : row'[q] = row[q]
      /\ DOMAIN row' = Payment
  BY <1>1 DEF Types
<1>7. Types'
  BY <1>1, <1>2, <1>3, <1>6 DEF Types
<1>8. InHand'
  <2>1. worker # Idle => worker \in Hand /\ worker.payment \in Payment
    BY DEF Inv, InHand, Hand
  <2>2. worker # Idle /\ worker.payment = p => InHand'
    BY <1>1, <1>3, <1>6 DEF Inv, InHand
  <2>3. worker # Idle /\ worker.payment # p => InHand'
    BY <1>1, <1>6, <2>1 DEF Inv, InHand
  <2>4. QED
    BY <1>1, <2>2, <2>3 DEF InHand
<1>9. Cancellable'
  BY <1>1, <1>6 DEF Inv, Cancellable
<1>10. ASSUME NEW q \in Payment, row'[q] # Never
       PROVE  InStep(row'[q], asked'[q], clock') /\ BelowTarget(row'[q])
  <2>1. CASE q = p
    BY <1>1, <1>5, <1>6, <2>1
  <2>2. CASE q # p
    BY <1>1, <1>6, <1>10, <2>2 DEF Inv
  <2>3. QED
    BY <2>1, <2>2
<1>11. QED
  BY <1>1, <1>7, <1>8, <1>9, <1>10 DEF Inv

(* What the worker has in hand, in one place.                              *)
LEMMA HandFacts ==
    ASSUME Inv, worker # Idle
    PROVE  /\ worker \in Hand /\ worker.copy \in Row /\ worker.payment \in Payment
           /\ worker.seen \in Int /\ balance \in Int /\ clock \in Nat
           /\ asked[worker.payment] \in Int
           /\ worker.copy.next # Never /\ worker.copy.next <= clock
           /\ worker.copy.next \in Int
           /\ InStep(worker.copy, asked[worker.payment], clock)
           /\ BelowTarget(worker.copy)
  BY DEF Inv, InHand, Hand, Types, Row

(* A payment that is made keeps it.                                        *)
LEMMA PaidInv ==
    ASSUME Constants, Inv, worker # Idle, Pay
    PROVE  Inv'
<1>1. /\ Made(worker.copy) \in Row /\ Made(worker.copy).next # worker.copy.next
      /\ InStep(Made(worker.copy), asked[worker.payment], clock)
      /\ BelowTarget(Made(worker.copy))
  BY HandFacts, MadeInStep
<1>2. Commit(Made(worker.copy)) /\ balance' \in Int
  BY HandFacts DEF Pay
<1>3. QED
  BY <1>1, <1>2, Committed

(* A payment that is stopped, or put off to a later day, was made no more  *)
(* often than before.                                                      *)
LEMMA PutOffInv ==
    ASSUME Constants, Inv, worker # Idle, NEW new \in Row,
           Commit(new), UNCHANGED balance,
           new.frequency = worker.copy.frequency, new.made = worker.copy.made,
           new.end = worker.copy.end, new.target = worker.copy.target,
           new.next = Never \/ (new.next = clock + 1 /\ new.retries <= 2)
    PROVE  Inv'
<1> DEFINE old == worker.copy
           day == asked[worker.payment]
<1>1. Never \notin Int
  BY DEF Constants
<1>2. new.next # old.next
  BY <1>1, HandFacts
<1>3. InStep(old, day, clock) /\ BelowTarget(old) /\ old.next # Never /\ old.next <= clock
  BY HandFacts
<1>4. /\ old.made \in Nat
      /\ old.frequency \in DOMAIN Period /\ Period[old.frequency] \in Nat
      /\ day + (old.made + 1) * Period[old.frequency] <= old.next
  BY <1>3, HandFacts DEF InStep, Row, Constants
<1>5. (old.made + 1) * Period[old.frequency] \in Int
  BY <1>4
<1>6. day + (old.made + 1) * Period[old.frequency] <= clock + 1
  BY <1>3, <1>4, <1>5, HandFacts
<1>7. InStep(new, day, clock)
  BY <1>3, <1>4, <1>6 DEF InStep
<1>8. BelowTarget(new)
  BY <1>3 DEF BelowTarget
<1>9. balance' \in Int
  BY HandFacts
<1>10. QED
  BY <1>2, <1>7, <1>8, <1>9, Committed

(* What handle_fail writes.                                                *)
LEMMA Failed ==
    ASSUME Constants, Inv, worker # Idle, HandleFail
    PROVE  \E new \in Row :
              /\ Commit(new) /\ UNCHANGED balance
              /\ new.frequency = worker.copy.frequency /\ new.made = worker.copy.made
              /\ new.end = worker.copy.end /\ new.target = worker.copy.target
              /\ new.next = Never \/ (new.next = clock + 1 /\ new.retries <= 2)
<1> DEFINE r == [worker.copy EXCEPT !.retries = @ + 1]
           new == IF r.retries >= 3 THEN Stop(r, "Failed")
                  ELSE [r EXCEPT !.status = "Retrying", !.next = clock + 1]
<1>1. Commit(new) /\ UNCHANGED balance
  BY DEF HandleFail
<1>2. worker.copy \in Row /\ clock \in Nat /\ worker.copy.retries <= 2
  BY HandFacts DEF InStep
<1>3. /\ new \in Row /\ new.frequency = worker.copy.frequency
      /\ new.made = worker.copy.made /\ new.end = worker.copy.end
      /\ new.target = worker.copy.target
      /\ new.next = Never \/ (new.next = clock + 1 /\ new.retries <= 2)
  <2>1. /\ r \in Row /\ r.frequency = worker.copy.frequency
        /\ r.made = worker.copy.made /\ r.end = worker.copy.end
        /\ r.target = worker.copy.target
    BY <1>2 DEF Row
  <2> HIDE DEF r
  <2>2. CASE r.retries >= 3
    BY <2>1, <2>2 DEF Stop, Row, Status
  <2>3. CASE ~(r.retries >= 3)
    <3>1. new = [r EXCEPT !.status = "Retrying", !.next = clock + 1]
      BY <2>3
    <3>2. clock + 1 \in Nat /\ "Retrying" \in Status
      BY <1>2 DEF Status
    <3> HIDE DEF new
    <3>3. new.next = clock + 1 /\ new.retries = r.retries
      BY <2>1, <3>1 DEF Row
    <3>4. r.retries \in 0..3
      BY <2>1 DEF Row
    <3>5. new.retries <= 2
      BY <2>3, <3>3, <3>4
    <3>6. /\ new \in Row /\ new.frequency = r.frequency /\ new.made = r.made
          /\ new.end = r.end /\ new.target = r.target
      BY <2>1, <3>1, <3>2 DEF Row
    <3>7. QED
      BY <2>1, <3>3, <3>5, <3>6
  <2>4. QED
    BY <2>2, <2>3
<1> HIDE DEF new
<1>4. QED
  BY <1>1, <1>3

(* The selection of a due payment keeps it.                                *)
LEMMA SelectInv ==
    ASSUME Constants, Inv, Select
    PROVE  Inv'
<1>1. PICK p \in Due : worker' = [at |-> "selected", payment |-> p, copy |-> row[p],
                                  seen |-> balance]
  BY DEF Select
<1>2. UNCHANGED <<clock, row, asked, balance, cancelling>>
  BY DEF Select, account
<1>3. /\ p \in Payment /\ row[p] # Never /\ row[p].next # Never /\ row[p].next <= clock
      /\ row[p] \in Row /\ balance \in Int
      /\ InStep(row[p], asked[p], clock) /\ BelowTarget(row[p])
  BY <1>1 DEF Due, Inv, Types
<1>4. /\ worker' \in Hand /\ worker'.payment = p /\ worker'.copy = row[p]
  BY <1>1, <1>3 DEF Hand
<1>5. InHand'
  BY <1>2, <1>3, <1>4 DEF InHand
<1>6. QED
  BY <1>2, <1>3, <1>4, <1>5 DEF Inv, Types, Cancellable

(* The call to the vendor keeps it.                                        *)
LEMMA ExecuteInv ==
    ASSUME Inv, ExecuteVendorPayment
    PROVE  Inv'
<1>1. /\ worker.at = "selected" /\ worker # Idle
      /\ worker' = [worker EXCEPT !.at = "paid"]
      /\ UNCHANGED <<clock, row, asked, balance, cancelling>>
  BY DEF ExecuteVendorPayment, Idle, account
<1>2. /\ worker' \in Hand /\ worker'.payment = worker.payment
      /\ worker'.copy = worker.copy
  BY <1>1, HandFacts DEF Hand
<1>3. InHand'
  BY <1>1, <1>2 DEF Inv, InHand
<1>4. QED
  BY <1>1, <1>2, <1>3 DEF Inv, Types, Cancellable

(* The passing of a day keeps it.                                          *)
LEMMA TickInv ==
    ASSUME Constants, Inv, Tick
    PROVE  Inv'
<1>1. /\ worker = Idle /\ worker' = Idle /\ clock' = clock + 1
      /\ UNCHANGED <<row, asked, balance, cancelling>> /\ clock \in Int
  BY DEF Tick, account, Inv, Types
<1>2. ASSUME NEW p \in Payment, row[p] # Never
      PROVE  InStep(row[p], asked[p], clock + 1)
  <2>1. InStep(row[p], asked[p], clock) /\ row[p].made \in Nat /\ asked[p] \in Int
    BY <1>2 DEF Inv, Types, Row
  <2>2. row[p].frequency \in DOMAIN Period => row[p].made * Period[row[p].frequency] \in Int
    BY <2>1 DEF Constants
  <2>3. QED
    BY <1>1, <2>1, <2>2 DEF InStep
<1>3. QED
  BY <1>1, <1>2 DEF Inv, Types, InHand, Cancellable

(* Every step keeps the invariant.                                         *)
LEMMA StepInv == Constants /\ Inv /\ [Next]_vars => Inv'
<1> SUFFICES ASSUME Constants, Inv, [Next]_vars PROVE Inv'
  OBVIOUS
<1>1. ASSUME NEW p \in Payment, HandleSubmit(p) PROVE Inv'
  <2>1. PICK choice \in FormChoice, end \in {"never", "date", "occurrences"} :
            Create(p, FormFrequency(choice), end, 0, IF end = "date" THEN LastDay ELSE Never)
    BY <1>1 DEF HandleSubmit
  <2>2. /\ FormFrequency(choice) \in Frequency /\ end \in End
        /\ (IF end = "date" THEN LastDay ELSE Never) \in Nat \cup {Never}
    BY DEF FormFrequency, Frequency, End, Constants
  <2>3. QED
    BY <2>1, <2>2, Created
<1>2. ASSUME NEW p \in Payment, CreateByApi(p) PROVE Inv'
  <2>1. PICK frequency \in ApiChoice, n \in Target, end \in {"never", "target", "date"} :
            Create(p, frequency, end, IF end = "target" THEN n ELSE 0,
                   IF end = "date" THEN clock + 2 ELSE Never)
    BY <1>2 DEF CreateByApi
  <2>2. /\ frequency \in Frequency /\ end \in End
        /\ (IF end = "target" THEN n ELSE 0) \in Nat
        /\ (IF end = "date" THEN clock + 2 ELSE Never) \in Nat \cup {Never}
    BY DEF Frequency, End, Constants, Inv, Types
  <2>3. QED
    BY <2>1, <2>2, Created
<1>3. ASSUME NEW p \in Payment, CancelReads(p) PROVE Inv'
  BY <1>3 DEF CancelReads, account, Inv, Types, InHand, Cancellable
<1>4. ASSUME NEW p \in Payment, CancelCommits(p) PROVE Inv'
  BY <1>4, CancelledInv
<1>5. CASE Book
  BY <1>5 DEF Book, Inv, Types, InHand, Cancellable
<1>6. CASE Select
  BY <1>6, SelectInv
<1>7. CASE NoPayee
  <2>1. worker # Idle /\ Commit(Stop(worker.copy, "Failed")) /\ UNCHANGED balance
    BY <1>7 DEF NoPayee, Idle
  <2>2. worker.copy \in Row
    BY <2>1, HandFacts
  <2>3. QED
    BY <2>1, <2>2, PutOffInv DEF Stop, Row, Status
<1>8. CASE Short
  BY <1>8, Failed, PutOffInv DEF Short, Idle
<1>9. CASE PayPerson
  <2>1. worker # Idle /\ Pay
    BY <1>9 DEF PayPerson, Idle
  <2>2. QED
    BY <2>1, PaidInv
<1>10. CASE ExecuteVendorPayment
  BY <1>10, ExecuteInv
<1>11. CASE BookVendorPayment
  <2>1. worker # Idle /\ Pay
    BY <1>11 DEF BookVendorPayment, Idle
  <2>2. QED
    BY <2>1, PaidInv
<1>12. CASE Crash
  BY <1>12 DEF Crash, account, Inv, Types, InHand, Cancellable
<1>13. CASE Tick
  BY <1>13, TickInv
<1>14. CASE UNCHANGED vars
  BY <1>14 DEF vars, account, vendors, Inv, Types, InHand, Cancellable
<1>15. QED
  BY <1>1, <1>2, <1>3, <1>4, <1>5, <1>6, <1>7, <1>8, <1>9, <1>10, <1>11, <1>12,
     <1>13, <1>14 DEF Next, Cycle

-----------------------------------------------------------------------------
(* What the invariant says of the payments made.                           *)
LEMMA InvMade == ASSUME Constants, Inv PROVE MadeOncePerPeriod
<1> SUFFICES ASSUME NEW p \in Stored, row[p].made > 0
             PROVE  row[p].made * Period[row[p].frequency] <= clock - asked[p]
  BY DEF MadeOncePerPeriod
<1>1. /\ row[p].frequency \in DOMAIN Period
      /\ asked[p] + row[p].made * Period[row[p].frequency] <= clock
  BY DEF Inv, InStep, Stored
<1>2. /\ row[p].made \in Nat /\ asked[p] \in Int /\ clock \in Int
      /\ Period[row[p].frequency] \in Nat
  BY <1>1 DEF Inv, Types, Stored, Row, Constants
<1>3. row[p].made * Period[row[p].frequency] \in Int
  BY <1>2
<1>4. QED
  BY <1>1, <1>2, <1>3

(* The invariant keeps a payment within the number it was asked for.       *)
LEMMA InvTarget == ASSUME Inv PROVE TargetIsKept
<1> SUFFICES ASSUME NEW p \in Stored, row[p].end = "target"
             PROVE  row[p].made <= Max({1, row[p].target})
  BY DEF TargetIsKept
<1>1. /\ row[p].made \in Nat /\ row[p].target \in Nat
      /\ row[p].made <= 1 \/ row[p].made <= row[p].target
  BY DEF Inv, Types, Stored, Row, BelowTarget
<1>2. \A t \in Nat : Max({1, t}) = IF t > 1 THEN t ELSE 1
  BY DEF Max
<1>3. QED
  BY <1>1, <1>2

-----------------------------------------------------------------------------
(* The books.  While nobody else has booked during a cycle, the copy of    *)
(* the balance in hand is the balance.                                     *)
CopyIsBalance == worker # Idle /\ ~overtaken => worker.seen = balance

BooksInv ==
    /\ booked \in Int /\ crashes \in Nat /\ paid \in [Payment -> Nat]
    /\ IsFiniteSet(AllMade) /\ IsFiniteSet(AllExecuted)
    /\ CopyIsBalance
    /\ BooksBalance
    /\ UnbookedNeedsCrash

IsMade(x, p) == row[p] # Never /\ \E n \in 1..row[p].made : x = <<p, n>>

(* The payments counted in the rows, one by one.                           *)
LEMMA InAllMade ==
    /\ \A x : x \in AllMade <=> \E p \in Payment : IsMade(x, p)
    /\ \A x : x \in AllMade' <=> \E p \in Payment : IsMade(x, p)'
  BY DEF AllMade, Stored, IsMade

(* New rows have no payments yet.                                          *)
LEMMA NoneMade ==
    ASSUME \A p \in Payment : row[p] # Never => row'[p] # Never /\ row'[p].made = row[p].made,
           \A p \in Payment : row[p] = Never /\ row'[p] # Never => row'[p].made = 0
    PROVE  AllMade' = AllMade
<1>1. ASSUME NEW p \in Payment
      PROVE  /\ row[p] # Never => row'[p] # Never /\ 1..row'[p].made = 1..row[p].made
             /\ row[p] = Never /\ row'[p] # Never => 1..row'[p].made = {}
  OBVIOUS
<1>2. ASSUME NEW x, NEW p \in Payment PROVE IsMade(x, p)' <=> IsMade(x, p)
  BY <1>1 DEF IsMade
<1>3. QED
  BY <1>2, InAllMade

(* One payment more in one row is one more in all.                         *)
LEMMA OneMade ==
    ASSUME NEW p \in Payment, row[p] # Never, row'[p] # Never, row[p].made \in Nat,
           row'[p].made = row[p].made + 1,
           \A q \in Payment \ {p} : row'[q] = row[q],
           IsFiniteSet(AllMade)
    PROVE  IsFiniteSet(AllMade') /\ Cardinality(AllMade') = Cardinality(AllMade) + 1
<1> DEFINE new == <<p, row[p].made + 1>>
<1>1. new \notin AllMade
  BY InAllMade DEF IsMade
<1>2. 1..row'[p].made = (1..row[p].made) \cup {row[p].made + 1}
  OBVIOUS
<1>3. ASSUME NEW x, NEW q \in Payment
      PROVE  IsMade(x, q)' <=> IsMade(x, q) \/ (q = p /\ x = new)
  <2>1. CASE q = p
    BY <1>2, <2>1 DEF IsMade
  <2>2. CASE q # p
    BY <2>2 DEF IsMade
  <2>3. QED
    BY <2>1, <2>2
<1> HIDE DEF new
<1>4. AllMade' = AllMade \cup {new}
  BY <1>3, InAllMade
<1>5. QED
  BY <1>1, <1>4, FS_AddElement, FS_CardinalityType

IsExecuted(x, p) == \E n \in 1..paid[p] : x = <<p, n>>

(* The payments executed at the vendor, one by one.                        *)
LEMMA InAllExecuted ==
    /\ \A x : x \in AllExecuted <=> \E p \in Payment : IsExecuted(x, p)
    /\ \A x : x \in AllExecuted' <=> \E p \in Payment : IsExecuted(x, p)'
  BY DEF AllExecuted, IsExecuted

(* One call to the vendor adds at most one payment to those executed.      *)
LEMMA OneExecuted ==
    ASSUME NEW p \in Payment, NEW executed \in {0, 1}, paid \in [Payment -> Nat],
           paid' = [paid EXCEPT ![p] = @ + executed], IsFiniteSet(AllExecuted)
    PROVE  /\ paid' \in [Payment -> Nat] /\ IsFiniteSet(AllExecuted')
           /\ Cardinality(AllExecuted') <= Cardinality(AllExecuted) + 1
<1> DEFINE new == <<p, paid[p] + 1>>
<1>1. paid[p] \in Nat /\ paid' \in [Payment -> Nat]
  OBVIOUS
<1>2. CASE executed = 0
  <2>1. paid' = paid
    BY <1>2
  <2>2. AllExecuted' = AllExecuted
    BY <2>1 DEF AllExecuted
  <2>3. QED
    BY <1>1, <2>2, FS_CardinalityType
<1>3. CASE executed = 1
  <2>1. 1..paid'[p] = (1..paid[p]) \cup {paid[p] + 1}
    BY <1>1, <1>3
  <2>2. \A q \in Payment \ {p} : paid'[q] = paid[q]
    OBVIOUS
  <2>3. ASSUME NEW x, NEW q \in Payment
        PROVE  IsExecuted(x, q)' <=> IsExecuted(x, q) \/ (q = p /\ x = new)
    <3>1. CASE q = p
      BY <2>1, <3>1 DEF IsExecuted
    <3>2. CASE q # p
      BY <2>2, <3>2 DEF IsExecuted
    <3>3. QED
      BY <3>1, <3>2
  <2>4. new \notin AllExecuted
    BY <1>1, InAllExecuted DEF IsExecuted
  <2> HIDE DEF new
  <2>5. AllExecuted' = AllExecuted \cup {new}
    BY <2>3, InAllExecuted
  <2>6. /\ IsFiniteSet(AllExecuted')
        /\ Cardinality(AllExecuted') = Cardinality(AllExecuted) + 1
    BY <2>4, <2>5, FS_AddElement
  <2>7. Cardinality(AllExecuted) \in Nat
    BY FS_CardinalityType
  <2>8. QED
    BY <1>1, <2>6, <2>7
<1>4. QED
  BY <1>2, <1>3

(* The row after the worker's commit.                                      *)
LEMMA RowCommitted ==
    ASSUME Constants, Inv, worker # Idle, NEW new \in Row,
           new.next # worker.copy.next, Commit(new)
    PROVE  /\ worker.payment \in Payment /\ row[worker.payment] # Never
           /\ row[worker.payment].made = worker.copy.made /\ worker.copy.made \in Nat
           /\ row'[worker.payment] # Never /\ row'[worker.payment].made = new.made
           /\ \A q \in Payment \ {worker.payment} : row'[q] = row[q]
           /\ worker' = Idle /\ UNCHANGED <<booked, overtaken, paid, crashes>>
<1> DEFINE p == worker.payment
           old == worker.copy
           merged == [c \in DOMAIN old |-> IF new[c] # old[c] THEN new[c] ELSE row[p][c]]
<1>1. /\ row' = [row EXCEPT ![p] = merged]
      /\ worker' = Idle /\ UNCHANGED <<booked, overtaken, paid, crashes>> /\ Types
  BY DEF Commit, Inv, vendors
<1>2. /\ p \in Payment /\ row[p] # Never /\ old \in Row /\ row[p] \in Row
      /\ \A c \in {"frequency", "end", "target", "until", "made", "retries"} :
            row[p][c] = old[c]
  BY <1>1 DEF Inv, InHand, Hand, Types
<1>3. merged \in Row /\ merged.made = new.made
  BY <1>2, Merged
<1>4. merged # Never /\ old.made \in Nat
  BY <1>2, <1>3 DEF Constants, Row
<1> HIDE DEF merged
<1>5. QED
  BY <1>1, <1>2, <1>3, <1>4 DEF Types

(* A payment that is made keeps the books: the balance falls by what the   *)
(* rows rise.                                                              *)
LEMMA PaidBooks ==
    ASSUME Constants, Inv, BooksInv, worker # Idle, Pay
    PROVE  BooksInv'
<1>1. /\ Made(worker.copy) \in Row /\ Made(worker.copy).next # worker.copy.next
      /\ Commit(Made(worker.copy)) /\ balance' = worker.seen - 1
  BY HandFacts, MadeInStep DEF Pay
<1>2. Made(worker.copy).made = worker.copy.made + 1
  <2>1. worker.copy \in Row
    BY HandFacts
  <2>2. QED
    BY <2>1 DEF Made, Rescheduled, Stop, Row
<1>3. /\ worker.payment \in Payment /\ row[worker.payment] # Never
      /\ row[worker.payment].made \in Nat
      /\ row'[worker.payment] # Never
      /\ row'[worker.payment].made = row[worker.payment].made + 1
      /\ \A q \in Payment \ {worker.payment} : row'[q] = row[q]
      /\ worker' = Idle /\ UNCHANGED <<booked, overtaken, paid, crashes>>
  BY <1>1, <1>2, RowCommitted
<1>4. IsFiniteSet(AllMade') /\ Cardinality(AllMade') = Cardinality(AllMade) + 1
  BY <1>3, OneMade DEF BooksInv
<1>5. AllExecuted' = AllExecuted
  BY <1>3 DEF AllExecuted
<1>6. /\ worker.seen \in Int /\ booked \in Int /\ crashes \in Nat /\ Opening \in Int
      /\ Cardinality(AllMade) \in Nat /\ Cardinality(AllExecuted) \in Nat
  BY HandFacts, FS_CardinalityType DEF BooksInv, Constants
<1>7. BooksBalance'
  BY <1>1, <1>3, <1>4, <1>6 DEF BooksInv, BooksBalance, CopyIsBalance
<1>8. UnbookedNeedsCrash'
  <2>1. worker'.at = "idle"
    BY <1>3 DEF Idle
  <2>2. Cardinality(AllExecuted) <= Cardinality(AllMade) + crashes + 1
    BY <1>6 DEF BooksInv, UnbookedNeedsCrash
  <2>3. QED
    BY <1>3, <1>4, <1>5, <1>6, <2>1, <2>2 DEF UnbookedNeedsCrash
<1>9. QED
  BY <1>3, <1>4, <1>5, <1>7, <1>8 DEF BooksInv, CopyIsBalance

(* A payment put off, or given up, leaves the books as they were.          *)
LEMMA PutOffBooks ==
    ASSUME Constants, Inv, BooksInv, worker.at = "selected", NEW new \in Row,
           Commit(new), UNCHANGED balance, new.made = worker.copy.made,
           new.next = Never \/ new.next = clock + 1
    PROVE  BooksInv'
<1>1. worker # Idle
  BY DEF Idle
<1>2. new.next # worker.copy.next
  BY <1>1, HandFacts DEF Constants
<1>3. /\ worker.payment \in Payment /\ row[worker.payment] # Never
      /\ row'[worker.payment] # Never
      /\ row'[worker.payment].made = row[worker.payment].made
      /\ \A q \in Payment \ {worker.payment} : row'[q] = row[q]
      /\ worker' = Idle /\ UNCHANGED <<booked, overtaken, paid, crashes>>
  BY <1>1, <1>2, RowCommitted
<1>4. AllMade' = AllMade
  BY <1>3, NoneMade
<1>5. AllExecuted' = AllExecuted
  BY <1>3 DEF AllExecuted
<1>6. worker'.at = "idle"
  BY <1>3 DEF Idle
<1>7. QED
  BY <1>3, <1>4, <1>5, <1>6 DEF BooksInv, BooksBalance, UnbookedNeedsCrash, CopyIsBalance

(* The books of an empty table agree.                                      *)
LEMMA InitBooks == Constants /\ Init => BooksInv
<1> SUFFICES ASSUME Constants, Init PROVE BooksInv
  OBVIOUS
<1>1. AllMade = {} /\ AllExecuted = {}
  BY DEF Init, AllMade, AllExecuted, Stored
<1>2. /\ IsFiniteSet(AllMade) /\ IsFiniteSet(AllExecuted)
      /\ Cardinality(AllMade) = 0 /\ Cardinality(AllExecuted) = 0
  BY <1>1, FS_EmptySet
<1>3. QED
  BY <1>2 DEF Init, BooksInv, BooksBalance, UnbookedNeedsCrash, CopyIsBalance, Constants, Idle

(* Every step keeps the books.                                             *)
LEMMA StepBooks == Constants /\ Inv /\ BooksInv /\ [Next]_vars => BooksInv'
<1> SUFFICES ASSUME Constants, Inv, BooksInv, [Next]_vars PROVE BooksInv'
  OBVIOUS
<1> USE DEF account, vendors
<1>0. ASSUME AllMade' = AllMade,
             UNCHANGED <<balance, booked, overtaken, worker, paid, crashes>>
      PROVE  BooksInv'
  <2>1. AllExecuted' = AllExecuted
    BY <1>0 DEF AllExecuted
  <2>2. QED
    BY <1>0, <2>1 DEF BooksInv, BooksBalance, UnbookedNeedsCrash, CopyIsBalance
<1>1. ASSUME UNCHANGED row PROVE AllMade' = AllMade
  BY <1>1 DEF AllMade, Stored
<1>2. ASSUME NEW p \in Payment, NEW f, NEW end, NEW t, NEW until,
             Create(p, f, end, t, until)
      PROVE  BooksInv'
  <2>1. PICK new : new = [status |-> "Active", frequency |-> f, end |-> end,
                          target |-> t, until |-> until,
                          next |-> NextRun(clock, f), made |-> 0, retries |-> 0]
    OBVIOUS
  <2>2. /\ row[p] = Never /\ row' = [row EXCEPT ![p] = new] /\ new.made = 0
        /\ UNCHANGED <<balance, booked, overtaken, worker, paid, crashes>>
    BY <1>2, <2>1 DEF Create
  <2>3. AllMade' = AllMade
    BY <2>2, NoneMade
  <2>4. QED
    BY <1>0, <2>2, <2>3
<1>3. ASSUME NEW p \in Payment, HandleSubmit(p) \/ CreateByApi(p) PROVE BooksInv'
  BY <1>2, <1>3 DEF HandleSubmit, CreateByApi
<1>4. ASSUME NEW p \in Payment, CancelReads(p) PROVE BooksInv'
  BY <1>0, <1>1, <1>4 DEF CancelReads
<1>5. ASSUME NEW p \in Payment, CancelCommits(p) PROVE BooksInv'
  <2>1. /\ row' = [row EXCEPT ![p].status = "Cancelled", ![p].next = Never]
        /\ row[p] # Never /\ row[p] \in Row
        /\ UNCHANGED <<balance, booked, overtaken, worker, paid, crashes>>
    BY <1>5 DEF CancelCommits, Inv, Cancellable, Types
  <2>2. PICK new : new = [row[p] EXCEPT !.status = "Cancelled", !.next = Never]
    OBVIOUS
  <2>3. new \in Row /\ new.made = row[p].made
    BY <2>1, <2>2 DEF Row, Status
  <2>4. /\ row'[p] = new /\ new # Never
        /\ \A q \in Payment \ {p} : row'[q] = row[q]
    BY <2>1, <2>2, <2>3 DEF Constants, Inv, Types
  <2>5. /\ \A q \in Payment : row[q] # Never => row'[q] # Never /\ row'[q].made = row[q].made
        /\ \A q \in Payment : row[q] = Never /\ row'[q] # Never => row'[q].made = 0
    BY <2>1, <2>3, <2>4
  <2>6. AllMade' = AllMade
    BY <2>5, NoneMade
  <2>7. QED
    BY <1>0, <2>1, <2>6
<1>6. CASE Book
  <2>1. PICK d \in {-1, 1} : balance' = balance + d /\ booked' = booked + d
    BY <1>6 DEF Book
  <2>2. /\ overtaken' = (overtaken \/ worker.at # "idle")
        /\ UNCHANGED <<row, worker, paid, crashes>>
    BY <1>6 DEF Book
  <2>3. AllMade' = AllMade /\ AllExecuted' = AllExecuted
    BY <1>1, <2>2 DEF AllExecuted
  <2>4. balance \in Int /\ booked \in Int /\ Cardinality(AllMade) \in Nat /\ Opening \in Int
    BY FS_CardinalityType DEF Inv, Types, BooksInv, Constants
  <2>5. BooksBalance'
    <3>1. ~overtaken => balance + Cardinality(AllMade) = Opening + booked
      BY DEF BooksInv, BooksBalance
    <3>2. ~overtaken' => ~overtaken
      BY <2>2
    <3>3. Cardinality(AllMade') = Cardinality(AllMade)
      BY <2>3
    <3> HIDE DEF AllMade
    <3>4. ~overtaken' => balance' + Cardinality(AllMade') = Opening + booked'
      BY <2>1, <2>4, <3>1, <3>2, <3>3
    <3>5. QED
      BY <3>4 DEF BooksBalance
  <2>6. CopyIsBalance'
    BY <2>2 DEF CopyIsBalance, Inv, InHand, Hand
  <2>7. QED
    BY <2>1, <2>2, <2>3, <2>4, <2>5, <2>6 DEF BooksInv, UnbookedNeedsCrash
<1>7. CASE Select
  <2>1. /\ worker = Idle /\ worker'.at = "selected" /\ worker'.seen = balance
        /\ UNCHANGED <<row, balance, booked, overtaken, paid, crashes>>
    BY <1>7 DEF Select
  <2>2. AllMade' = AllMade /\ AllExecuted' = AllExecuted
    BY <1>1, <2>1 DEF AllExecuted
  <2>3. QED
    BY <2>1, <2>2 DEF BooksInv, BooksBalance, UnbookedNeedsCrash, CopyIsBalance, Idle
<1>8. CASE NoPayee
  <2>1. /\ worker.at = "selected" /\ worker # Idle /\ UNCHANGED balance
        /\ Commit(Stop(worker.copy, "Failed"))
    BY <1>8 DEF NoPayee, Idle
  <2>2. worker.copy \in Row
    BY <2>1, HandFacts
  <2>3. /\ Stop(worker.copy, "Failed") \in Row
        /\ Stop(worker.copy, "Failed").made = worker.copy.made
        /\ Stop(worker.copy, "Failed").next = Never
    BY <2>2 DEF Stop, Row, Status
  <2>4. QED
    BY <2>1, <2>3, PutOffBooks
<1>9. CASE Short
  <2>1. worker.at = "selected" /\ worker # Idle /\ HandleFail
    BY <1>9 DEF Short, Idle
  <2>2. PICK new \in Row :
            /\ Commit(new) /\ UNCHANGED balance /\ new.made = worker.copy.made
            /\ new.next = Never \/ new.next = clock + 1
    BY <2>1, Failed
  <2>3. QED
    BY <2>1, <2>2, PutOffBooks
<1>10. CASE PayPerson
  BY <1>10, PaidBooks DEF PayPerson, Idle
<1>11. CASE ExecuteVendorPayment
  <2>1. /\ worker.at = "selected" /\ worker # Idle /\ worker \in Hand
        /\ worker' = [worker EXCEPT !.at = "paid"]
        /\ UNCHANGED <<row, balance, booked, overtaken, crashes>>
    BY <1>11, HandFacts DEF ExecuteVendorPayment, Idle
  <2>2. PICK executed \in {0, 1} : paid' = [paid EXCEPT ![worker.payment] = @ + executed]
    BY <1>11 DEF ExecuteVendorPayment
  <2>3. /\ paid' \in [Payment -> Nat] /\ IsFiniteSet(AllExecuted')
        /\ Cardinality(AllExecuted') <= Cardinality(AllExecuted) + 1
    BY <2>1, <2>2, OneExecuted DEF BooksInv, Hand
  <2>4. AllMade' = AllMade /\ worker'.at = "paid" /\ worker'.seen = worker.seen
    BY <1>1, <2>1 DEF Hand
  <2>5. /\ Cardinality(AllMade) \in Nat /\ Cardinality(AllExecuted) \in Nat
        /\ Cardinality(AllExecuted') \in Nat /\ crashes \in Nat
    BY <2>3, FS_CardinalityType DEF BooksInv
  <2>6. UnbookedNeedsCrash'
    BY <2>1, <2>3, <2>4, <2>5 DEF BooksInv, UnbookedNeedsCrash
  <2>7. QED
    BY <2>1, <2>3, <2>4, <2>6 DEF BooksInv, BooksBalance, CopyIsBalance
<1>12. CASE BookVendorPayment
  BY <1>12, PaidBooks DEF BookVendorPayment, Idle
<1>13. CASE Crash
  <2>1. /\ worker' = Idle /\ crashes' = crashes + 1 /\ worker'.at = "idle"
        /\ UNCHANGED <<row, balance, booked, overtaken, paid>>
    BY <1>13 DEF Crash, Idle
  <2>2. AllMade' = AllMade /\ AllExecuted' = AllExecuted
    BY <1>1, <2>1 DEF AllExecuted
  <2>3. /\ Cardinality(AllMade) \in Nat /\ Cardinality(AllExecuted) \in Nat /\ crashes \in Nat
    BY FS_CardinalityType DEF BooksInv
  <2>4. QED
    BY <2>1, <2>2, <2>3 DEF BooksInv, BooksBalance, UnbookedNeedsCrash, CopyIsBalance
<1>14. CASE Tick
  BY <1>0, <1>1, <1>14 DEF Tick
<1>15. CASE UNCHANGED vars
  BY <1>0, <1>1, <1>15 DEF vars
<1>16. QED
  BY <1>3, <1>4, <1>5, <1>6, <1>7, <1>8, <1>9, <1>10, <1>11, <1>12, <1>13, <1>14,
     <1>15 DEF Next, Cycle

-----------------------------------------------------------------------------
(* What is counted stays within its bound.                                 *)
Bounds ==
    /\ clock \in Day
    /\ requests \in 0..MaxRequests /\ overtaken \in BOOLEAN
    /\ crashes \in 0..MaxCrashes

(* The counters start within their bounds.                                 *)
LEMMA InitBounds == Constants /\ Init => Bounds
<1> SUFFICES ASSUME Constants, Init PROVE Bounds
  OBVIOUS
<1>1. clock = 0 /\ requests = 0 /\ crashes = 0 /\ overtaken = FALSE
  BY DEF Init
<1>2. LastDay \in Nat /\ MaxRequests \in Nat /\ MaxCrashes \in Nat
  BY DEF Constants
<1>3. 0 \in 0..LastDay /\ 0 \in 0..MaxRequests /\ 0 \in 0..MaxCrashes
  BY <1>2
<1>4. QED
  BY <1>1, <1>3 DEF Bounds, Day

(* Every step keeps the counters within them.                              *)
LEMMA StepBounds == Constants /\ Bounds /\ [Next]_vars => Bounds'
<1> SUFFICES ASSUME Constants, Bounds, [Next]_vars PROVE Bounds'
  OBVIOUS
<1> USE DEF account, vendors
<1>0. ASSUME UNCHANGED <<clock, requests, overtaken, crashes>> PROVE Bounds'
  BY <1>0 DEF Bounds
<1>1. ASSUME NEW p \in Payment,
             HandleSubmit(p) \/ CreateByApi(p) \/ CancelReads(p) \/ CancelCommits(p)
      PROVE  Bounds'
  BY <1>0, <1>1 DEF HandleSubmit, CreateByApi, Create, CancelReads, CancelCommits
<1>2. CASE Book
  BY <1>2 DEF Book, Bounds, Constants
<1>3. CASE Cycle
  BY <1>0, <1>3 DEF Cycle, Select, NoPayee, Short, HandleFail, PayPerson, Pay, Commit,
     ExecuteVendorPayment, BookVendorPayment
<1>4. CASE Crash
  BY <1>4 DEF Crash, Bounds, Constants
<1>5. CASE Tick
  BY <1>5 DEF Tick, Bounds, Constants, Day
<1>6. CASE UNCHANGED vars
  BY <1>0, <1>6 DEF vars
<1>7. QED
  BY <1>1, <1>2, <1>3, <1>4, <1>5, <1>6 DEF Next

(* The three invariants give the types.                                    *)
LEMMA InvTypes == ASSUME Inv, BooksInv, Bounds PROVE TypeOK
<1>1. worker.at \in {"idle", "selected", "paid"}
  BY DEF Inv, InHand, Hand, Idle
<1>2. QED
  BY <1>1 DEF Inv, Types, Cancellable, BooksInv, Bounds, TypeOK

-----------------------------------------------------------------------------
(* The rows that the form, the routes and the worker write are rows of the *)
(* table: a payment that has failed three times has no next date.          *)
THEOREM TypeCorrect == ASSUME Constants PROVE Spec => []TypeOK
<1>1. Inv /\ BooksInv /\ Bounds => TypeOK
  BY InvTypes
<1>2. QED
  BY <1>1, InitInv, StepInv, InitBooks, StepBooks, InitBounds, StepBounds, PTL DEF Spec

(* No payment is made more often than its frequency says: whatever is      *)
(* retried, cancelled or lost under way, at most one payment per period    *)
(* has been made since the day it was asked for (_update_schedule).        *)
THEOREM MadeNoMoreOften == ASSUME Constants PROVE Spec => []MadeOncePerPeriod
<1>1. Inv => MadeOncePerPeriod
  BY InvMade
<1>2. QED
  BY <1>1, InitInv, StepInv, PTL DEF Spec

(* "A total of N payments" is never exceeded, but for the one payment that *)
(* a target below one still makes.                                         *)
THEOREM TargetKept == ASSUME Constants PROVE Spec => []TargetIsKept
<1>1. Inv => TargetIsKept
  BY InvTarget
<1>2. QED
  BY <1>1, InitInv, StepInv, PTL DEF Spec

(* While nobody else books during a cycle, the account has paid for        *)
(* exactly the payments that were made: the balance that the worker writes *)
(* as an absolute value is the one it read.                                *)
THEOREM BooksAreBalanced == ASSUME Constants PROVE Spec => []BooksBalance
<1>1. BooksInv => BooksBalance
  BY DEF BooksInv
<1>2. QED
  BY <1>1, InitInv, StepInv, InitBooks, StepBooks, PTL DEF Spec

(* A vendor has executed no more payments than are booked, but for those   *)
(* of the cycles that were lost and the one in hand: execute_vendor_       *)
(* payment runs before anything is committed.                              *)
THEOREM UnbookedWasLost == ASSUME Constants PROVE Spec => []UnbookedNeedsCrash
<1>1. BooksInv => UnbookedNeedsCrash
  BY DEF BooksInv
<1>2. QED
  BY <1>1, InitInv, StepInv, InitBooks, StepBooks, PTL DEF Spec
=============================================================================
