---------------------------- MODULE DepositFlow ----------------------------
(***************************************************************************)
(* Depositing money with a card: app/client/deposit/page.tsx and its       *)
(* dialog components/DepositModal.tsx, with what the bank does for the     *)
(* calls (backend/routers/deposit.py).                                     *)
(*                                                                         *)
(* The dialog is never unmounted: its state, and what its calls and timers *)
(* do to that state, outlives its closing.  Opening it asks for a payment  *)
(* intent of the amount; the button confirms the intent whose answer came  *)
(* last.  Toasts are left out.                                             *)
(*                                                                         *)
(* The bank credits an intent in one commit and completes the key of the   *)
(* confirmation in a second one.  The top-up has a key of its own; the     *)
(* first credit leaves it pending (idempotency.py:41 adds a row that       *)
(* line 54 does not find), so a confirmation that finds both keys pending  *)
(* credits again.  The customer has a main account: without one, there is  *)
(* no payment method to confirm with (deposit.py:112-114).                 *)
(***************************************************************************)
EXTENDS Integers, Sequences

CONSTANTS Amounts,      \* what can be chosen
          Refused,      \* the amount for which a refusal is simulated
          Patient,      \* the customer closes and opens when all is quiet
          MAX_RETRIES,  \* of the API client
          MaxDialogs, MaxPresses \* bounds

VARIABLES
    \* DepositPage
    isOpen, amount, loadingPage,
    dialog,       \* history: how often the dialog was opened
    \* DepositModal
    clientSecret, \* the number of its intent, or 0
    loading, initError, status,
    inits,        \* payment intents asked for
    deposits,     \* runs of handleDeposit under way
    timers,       \* of the dialog: to close after a success, to refuse
    presses,
    \* the bank
    intents,      \* the amounts of the payment intents
    credits,      \* how often each was credited
    topupKey,     \* of each: its deposit_mock_ key,
    confirmKey,   \* and its confirm_ key
    confirmations,\* the confirmations under way in the bank
    doubted       \* history: the intents a confirmation of which died between
                  \* its commits, or was sent while another was under way

opened == <<isOpen, amount, dialog>>
modal == <<clientSecret, loading, initError, status>>
calls == <<inits, deposits, timers, presses>>
keys == <<topupKey, confirmKey>>
bank == <<intents, credits, keys, confirmations, doubted>>
vars == <<loadingPage, opened, modal, calls, bank>>

KeyStatus == {"absent", "pending", "completed"}

Confirmation == [n : 1..MaxPresses, attempt : 0..MAX_RETRIES, intent : 1..Len(intents),
                 stage : {"sent", "credited"}]

TypeOK ==
    /\ isOpen \in BOOLEAN /\ amount \in Amounts /\ dialog \in 0..MaxDialogs
    /\ loadingPage \in BOOLEAN
    /\ clientSecret \in 0..Len(intents)
    /\ loading \in BOOLEAN /\ initError \in BOOLEAN
    /\ status \in {"idle", "success", "error"}
    /\ inits \subseteq [amount : Amounts, dialog : 1..MaxDialogs]
    /\ deposits \subseteq [n : 1..MaxPresses, intent : 1..Len(intents), dialog : 1..MaxDialogs,
                           shown : Amounts, attempt : 0..MAX_RETRIES,
                           stage : {"method", "confirm", "answered"}]
    /\ timers \subseteq [n : 1..MaxPresses, kind : {"close", "refuse"},
                         intent : 0..Len(intents), dialog : 1..MaxDialogs]
    /\ presses \in 0..MaxPresses
    /\ intents \in Seq(Amounts) /\ Len(intents) <= MaxDialogs
    /\ credits \in [1..Len(intents) -> Nat]
    /\ topupKey \in [1..Len(intents) -> KeyStatus]
    /\ confirmKey \in [1..Len(intents) -> KeyStatus]
    /\ confirmations \subseteq Confirmation
    /\ doubted \subseteq 1..Len(intents)

Init ==
    /\ isOpen = FALSE /\ amount \in Amounts /\ dialog = 0
    /\ loadingPage = FALSE
    /\ clientSecret = 0 /\ loading = FALSE /\ initError = FALSE /\ status = "idle"
    /\ inits = {} /\ deposits = {} /\ timers = {} /\ presses = 0
    /\ intents = <<>> /\ credits = <<>> /\ topupKey = <<>> /\ confirmKey = <<>>
    /\ confirmations = {} /\ doubted = {}

Quiet == inits = {} /\ deposits = {} /\ timers = {}

-----------------------------------------------------------------------------
(* The page.                                                               *)

(* To the gateway's checkout, for a subscription, or to its portal.        *)
StartCheckout ==
    /\ ~isOpen /\ ~loadingPage
    /\ loadingPage' = TRUE
    /\ UNCHANGED <<opened, modal, calls, bank>>

(* The browser goes there, or the call failed.                             *)
CheckoutEnds ==
    /\ loadingPage
    /\ loadingPage' = FALSE
    /\ UNCHANGED <<opened, modal, calls, bank>>

-----------------------------------------------------------------------------
(* The dialog opens and closes.                                            *)

ClearResult == initError' = FALSE /\ status' = "idle"

TopUp ==
    /\ ~isOpen /\ ~loadingPage /\ dialog < MaxDialogs
    /\ Patient => Quiet
    /\ amount' \in Amounts
    /\ isOpen' = TRUE
    /\ dialog' = dialog + 1
    /\ loading' = TRUE
    /\ ClearResult
    /\ inits' = inits \cup {[amount |-> amount', dialog |-> dialog']}
    /\ UNCHANGED <<loadingPage, clientSecret, deposits, timers, presses, bank>>

Closed ==
    IF isOpen
    THEN /\ isOpen' = FALSE
         /\ clientSecret' = 0
         /\ ClearResult
    ELSE UNCHANGED <<isOpen, clientSecret, initError, status>>

OnClose ==
    /\ isOpen
    /\ Patient => Quiet
    /\ Closed
    /\ UNCHANGED <<loadingPage, amount, dialog, loading, calls, bank>>

IntentCreated(q) ==
    /\ inits' = inits \ {q}
    /\ intents' = Append(intents, q.amount)
    /\ credits' = Append(credits, 0)
    /\ topupKey' = Append(topupKey, "absent") /\ confirmKey' = Append(confirmKey, "absent")
    /\ clientSecret' = Len(intents')
    /\ loading' = FALSE
    /\ UNCHANGED <<loadingPage, opened, initError, status, deposits, timers, presses,
                   confirmations, doubted>>

IntentFailed(q) ==
    /\ inits' = inits \ {q}
    /\ initError' = TRUE
    /\ loading' = FALSE
    /\ UNCHANGED <<loadingPage, opened, clientSecret, status, deposits, timers, presses, bank>>

-----------------------------------------------------------------------------
(* The deposit.                                                            *)

FormShown == ~(loading /\ status = "idle" /\ clientSecret = 0) /\ ~(initError /\ status = "idle")

HandleDeposit ==
    /\ isOpen /\ FormShown
    /\ ~loading /\ clientSecret # 0
    /\ presses < MaxPresses
    /\ presses' = presses + 1
    /\ loading' = TRUE /\ status' = "idle"
    /\ IF amount = Refused
       THEN /\ timers' = timers \cup
                 {[n |-> presses', kind |-> "refuse", intent |-> 0, dialog |-> dialog]}
            /\ UNCHANGED deposits
       ELSE /\ deposits' = deposits \cup
                 {[n |-> presses', intent |-> clientSecret, dialog |-> dialog, shown |-> amount,
                   attempt |-> 0, stage |-> "method"]}
            /\ UNCHANGED timers
    /\ UNCHANGED <<loadingPage, opened, clientSecret, initError, inits, bank>>

Becomes(d, e) == deposits' = (deposits \ {d}) \cup {e}

(* confirmPayment is sent to the bank.                                     *)
Confirm(n, attempt, i) ==
    /\ confirmations' = confirmations \cup
         {[n |-> n, attempt |-> attempt, intent |-> i, stage |-> "sent"]}
    /\ doubted' = IF \E h \in confirmations : h.intent = i THEN doubted \cup {i} ELSE doubted
    /\ UNCHANGED <<intents, credits, keys>>

CreatePaymentMethod(d) ==
    /\ d.stage = "method"
    /\ Becomes(d, [d EXCEPT !.stage = "confirm"])
    /\ Confirm(d.n, d.attempt, d.intent)
    /\ UNCHANGED <<loadingPage, opened, modal, inits, timers, presses>>

(* The client had no answer: it sends the confirmation once more.          *)
ConfirmAgain(d) ==
    /\ d.stage \in {"confirm", "answered"} /\ d.attempt < MAX_RETRIES
    /\ Becomes(d, [d EXCEPT !.attempt = @ + 1, !.stage = "confirm"])
    /\ Confirm(d.n, d.attempt + 1, d.intent)
    /\ UNCHANGED <<loadingPage, opened, modal, inits, timers, presses>>

(* Only the answer to its last attempt reaches the deposit.                *)
Reported(h) ==
    deposits' = {IF d.n = h.n /\ d.attempt = h.attempt /\ d.stage = "confirm"
                 THEN [d EXCEPT !.stage = "answered"] ELSE d : d \in deposits}

(* _atomic_topup_balance commits the credit, and with it the rows of keys  *)
(* that were new.  A handler that finds a key waits for its row, and one   *)
(* whose new key another has committed meanwhile fails: no two of them are *)
(* between the check and this commit with success.                         *)
CreditCommits(h) ==
    /\ h.stage = "sent" /\ confirmKey[h.intent] # "completed"
    /\ IF topupKey[h.intent] = "completed"
       THEN UNCHANGED <<credits, keys>>
       ELSE /\ credits' = [credits EXCEPT ![h.intent] = @ + 1]
            /\ topupKey' = [topupKey EXCEPT ![h.intent] =
                              IF @ = "absent" THEN "pending" ELSE "completed"]
            /\ confirmKey' = [confirmKey EXCEPT ![h.intent] = "pending"]
    /\ confirmations' = (confirmations \ {h}) \cup {[h EXCEPT !.stage = "credited"]}
    /\ UNCHANGED <<loadingPage, opened, modal, calls, intents, doubted>>

(* confirm_payment_intent completes its key, and answers.                  *)
KeyCommits(h) ==
    /\ h.stage = "credited"
    /\ confirmKey' = [confirmKey EXCEPT ![h.intent] = "completed"]
    /\ confirmations' = confirmations \ {h}
    /\ Reported(h)
    /\ UNCHANGED <<loadingPage, opened, modal, inits, timers, presses, intents, credits, topupKey, doubted>>

(* The saved answer of a key that is completed.                            *)
Replayed(h) ==
    /\ h.stage = "sent" /\ confirmKey[h.intent] = "completed"
    /\ confirmations' = confirmations \ {h}
    /\ Reported(h)
    /\ UNCHANGED <<loadingPage, opened, modal, inits, timers, presses, intents, credits, keys, doubted>>

(* The request was lost, the handler crashed, or one of its commits failed.*)
HandlerFails(h) ==
    /\ confirmations' = confirmations \ {h}
    /\ doubted' = IF h.stage = "credited" THEN doubted \cup {h.intent} ELSE doubted
    /\ UNCHANGED <<loadingPage, opened, modal, calls, intents, credits, keys>>

DepositSucceeds(d) ==
    /\ d.stage = "answered"
    /\ deposits' = deposits \ {d}
    /\ status' = "success" /\ loading' = FALSE
    /\ timers' = timers \cup
         {[n |-> d.n, kind |-> "close", intent |-> d.intent, dialog |-> d.dialog]}
    /\ UNCHANGED <<loadingPage, opened, clientSecret, initError, inits, presses, bank>>

(* A call was refused or not answered; the bank may still be handling it.  *)
DepositFails(d) ==
    /\ deposits' = deposits \ {d}
    /\ status' = "error" /\ initError' = TRUE /\ loading' = FALSE
    /\ UNCHANGED <<loadingPage, opened, clientSecret, inits, timers, presses, bank>>

(* Two seconds after the success: onSuccess.                               *)
HandlePaymentSuccess(t) ==
    /\ t.kind = "close"
    /\ timers' = timers \ {t}
    /\ Closed
    /\ UNCHANGED <<loadingPage, amount, dialog, loading, inits, deposits, presses, bank>>

SimulatedRefusal(t) ==
    /\ t.kind = "refuse"
    /\ timers' = timers \ {t}
    /\ status' = "error" /\ initError' = TRUE
    /\ loading' = FALSE
    /\ UNCHANGED <<loadingPage, opened, clientSecret, inits, deposits, presses, bank>>

-----------------------------------------------------------------------------
IntentAnswered == \E q \in inits : IntentCreated(q) \/ IntentFailed(q)
DepositEnds == \E d \in deposits : DepositSucceeds(d) \/ DepositFails(d)
DepositStep == \E d \in deposits : CreatePaymentMethod(d) \/ ConfirmAgain(d)
ConfirmPaymentIntent ==
    \E h \in confirmations :
        CreditCommits(h) \/ KeyCommits(h) \/ Replayed(h) \/ HandlerFails(h)
TimerFires == \E t \in timers : HandlePaymentSuccess(t) \/ SimulatedRefusal(t)

Next ==
    \/ StartCheckout \/ CheckoutEnds
    \/ TopUp \/ OnClose \/ IntentAnswered
    \/ HandleDeposit \/ DepositStep \/ ConfirmPaymentIntent \/ DepositEnds
    \/ TimerFires

Spec == Init /\ [][Next]_vars

(* Calls are answered or given up, and timers fire.                        *)
FairSpec ==
    /\ Spec
    /\ WF_vars(CheckoutEnds)
    /\ WF_vars(IntentAnswered) /\ WF_vars(DepositStep \/ DepositEnds) /\ WF_vars(TimerFires)

-----------------------------------------------------------------------------
(* An intent is credited at most twice however often it is confirmed, and  *)
(* once unless a confirmation died between its commits or overlapped       *)
(* another: the button works again after a success, after an answer that   *)
(* was lost, and after another dialog's refusal.                           *)
CreditedTwice ==
    \A i \in DOMAIN credits :
        credits[i] <= 2 /\ (credits[i] = 2 => i \in doubted)

(* What is about to be announced as available has been credited, and its   *)
(* key is completed: nothing will credit it again.                         *)
AnnouncedIsFinal ==
    \A t \in timers :
        t.kind = "close" => credits[t.intent] > 0 /\ confirmKey[t.intent] = "completed"

(* DepositModal.tsx:258, "Deposit {formatCurrency(amount)}": the intent    *)
(* that is confirmed is of the amount on the button.                       *)
DepositsWhatIsShown == \A d \in deposits : intents[d.intent] = d.shown

(* DepositModal.tsx:273, "Deposit Successful", is displayed in the dialog  *)
(* whose deposit succeeded.                                                *)
SuccessOfThisDialog ==
    isOpen /\ status = "success" => \E t \in timers : t.kind = "close" /\ t.dialog = dialog
=============================================================================
