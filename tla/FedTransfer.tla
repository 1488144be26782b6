---------------------------- MODULE FedTransfer -----------------------------
(***************************************************************************)
(* A transfer over a Federal Reserve rail, from the form to the master     *)
(* account: components/transfers/FedTransferTab.tsx, the three endpoints   *)
(* of backend/routers/transfers.py (wire, fednow, ach), and the gateway,   *)
(* mock-fed-gateway/routers/{fedwire,fednow,ach}.py.                       *)
(*                                                                         *)
(* The form looks a routing number up when nine digits are typed.  The     *)
(* call carries no key; the API client sends it again after a network      *)
(* error.  The endpoint compares the account's balance with the amount and *)
(* leaves it as it is.  The gateway reads the master account and writes    *)
(* back what it computed from it.  Every transfer is of one unit.          *)
(***************************************************************************)
EXTENDS Lists

CONSTANTS Routing,        \* nine digits with a right check digit
          Listed,         \* those in the gateway's directory
          UsedRails,      \* the rails the customer uses
          Funds,          \* the account's balance
          Reserve,        \* of the bank's master account, at first
          Overdraft,      \* daylight_overdraft_limit
          MAX_RETRIES,
          MaxEdits, MaxSubmissions \* bounds

Rail == {"wire", "fednow", "ach"}
Short == "short"  \* some digits
Wrong == "wrong"  \* nine digits, the check digit wrong
None == "none"

VARIABLES
    \* the form
    rail, routingNumber, directoryInfo, validationError, lookupLoading, loading,
    lookups,    \* under way, oldest first: the number and the answer
    call,       \* the submission that is under way
    announced,  \* history: submissions announced as done
    edits, submissions,
    \* the bank and the gateway
    requests,   \* received by the bank, in order
    master,     \* the balance of the bank's master account
    overlapped  \* history: two transfers were between read and commit at once

form == <<rail, routingNumber, directoryInfo, validationError, lookupLoading, lookups, edits>>
submit == <<loading, call, announced, submissions>>
gateway == <<master, overlapped>>
vars == <<form, submit, requests, gateway>>

NoCall == [n |-> 0, rail |-> "wire", routing |-> None, attempt |-> 0]

TypeOK ==
    /\ rail \in UsedRails
    /\ routingNumber \in Routing \cup {Short, Wrong, None}
    /\ directoryInfo \in Routing \cup {None}
    /\ validationError \in BOOLEAN /\ lookupLoading \in BOOLEAN /\ loading \in BOOLEAN
    /\ loading <=> call # NoCall
    /\ call.n \in 0..MaxSubmissions /\ call.attempt \in 0..MAX_RETRIES
    /\ \A i \in DOMAIN lookups : lookups[i] \in Routing
    /\ \A i \in DOMAIN requests :
         /\ requests[i].bank \in {"received", "calling", "settled", "booked", "refused", "crashed"}
         /\ requests[i].fed \in {"none", "asked", "read", "settled", "rejected"}
    /\ master \in Int /\ overlapped \in BOOLEAN

Init ==
    /\ rail \in UsedRails /\ routingNumber = None
    /\ directoryInfo = None /\ validationError = FALSE /\ lookupLoading = FALSE
    /\ lookups = <<>> /\ edits = 0
    /\ loading = FALSE /\ call = NoCall /\ announced = {} /\ submissions = 0
    /\ requests = <<>>
    /\ master = Reserve /\ overlapped = FALSE

-----------------------------------------------------------------------------
(* The form.                                                               *)

SelectRail ==
    /\ rail' \in UsedRails \ {rail}
    /\ UNCHANGED <<routingNumber, directoryInfo, validationError, lookupLoading, lookups, edits>>
    /\ UNCHANGED <<submit, requests, gateway>>

(* The effect that runs when the number has changed.                       *)
EnterRouting ==
    /\ edits < MaxEdits
    /\ edits' = edits + 1
    /\ routingNumber' \in (Routing \cup {Short, Wrong, None}) \ {routingNumber}
    /\ IF routingNumber' \in Routing
       THEN /\ validationError' = FALSE
            /\ lookupLoading' = TRUE
            /\ lookups' = Append(lookups, routingNumber')
            /\ UNCHANGED directoryInfo
       ELSE /\ directoryInfo' = None
            /\ validationError' = (routingNumber' # None)
            /\ UNCHANGED <<lookups, lookupLoading>>
    /\ UNCHANGED <<rail, submit, requests, gateway>>

LookupAnswered(r, answer) ==
    /\ directoryInfo' = IF answer = "found" THEN r ELSE None
    /\ validationError' = IF answer = "failed" THEN validationError ELSE answer # "found"

(* In any order; "unlisted" also when the bank could not ask.              *)
LookupEnds ==
    /\ \E i \in DOMAIN lookups, answer \in {"found", "unlisted", "failed"} :
         /\ answer = "found" => lookups[i] \in Listed
         /\ lookups' = RemoveAt(lookups, i)
         /\ LookupAnswered(lookups[i], answer)
         /\ lookupLoading' = FALSE
    /\ UNCHANGED <<rail, routingNumber, edits, submit, requests, gateway>>

(* One attempt of the API client.                                          *)
Post(c) ==
    /\ call' = c
    /\ requests' = Append(requests,
         [n |-> c.n, rail |-> c.rail, routing |-> c.routing,
          bank |-> "received", fed |-> "none", seen |-> 0])

(* Nine digits will do: neither their error nor the directory is looked at.*)
HandleSubmit ==
    /\ ~loading
    /\ routingNumber \in Routing \cup {Wrong}
    /\ submissions < MaxSubmissions
    /\ submissions' = submissions + 1
    /\ loading' = TRUE
    /\ Post([n |-> submissions + 1, rail |-> rail, routing |-> routingNumber, attempt |-> 0])
    /\ UNCHANGED <<form, announced, gateway>>

-----------------------------------------------------------------------------
(* The endpoint of the bank and the gateway.                               *)

Set(i, bank, fed) ==
    requests' = [requests EXCEPT ![i].bank = bank, ![i].fed = fed]

CheckFunds(i) ==
    /\ requests[i].bank = "received"
    /\ IF Funds < 1 THEN Set(i, "refused", "none") ELSE Set(i, "calling", "asked")
    /\ UNCHANGED <<form, submit, gateway>>

(* Only a wire is compared with the headroom; an account may be closed.    *)
Acceptable(r) ==
    /\ r.routing \in Listed
    /\ r.rail = "wire" => master + Overdraft >= 1

FedReads(i) ==
    /\ requests[i].fed = "asked"
    /\ \/ /\ Acceptable(requests[i])
          /\ requests' = [requests EXCEPT ![i].fed = "read", ![i].seen = master]
          /\ overlapped' = (overlapped \/ \E j \in DOMAIN requests : requests[j].fed = "read")
       \/ /\ ~Acceptable(requests[i]) \/ requests[i].rail # "wire"
          /\ requests' = [requests EXCEPT ![i].fed = "rejected"]
          /\ UNCHANGED overlapped
    /\ UNCHANGED <<form, submit, master>>

(* An ACH entry of class DEBIT collects from the receiver.                 *)
Effect(r) == IF r.rail = "ach" THEN 1 ELSE -1
Written(r) == r.seen + Effect(r)

FedCommits(i) ==
    /\ requests[i].fed = "read"
    /\ requests' = [requests EXCEPT ![i].fed = "settled"]
    /\ master' = Written(requests[i])
    /\ UNCHANGED <<form, submit, overlapped>>

(* Mutant: the status of the answer is not looked at.                      *)
AfterAnswer_Unread(r) == "settled"
AfterAnswer(r) == IF r.fed = "settled" THEN "settled" ELSE "refused"

GatewayAnswers(i) ==
    /\ requests[i].bank = "calling" /\ requests[i].fed \in {"settled", "rejected"}
    /\ requests' = [requests EXCEPT ![i].bank = AfterAnswer(requests[i])]
    /\ UNCHANGED <<form, submit, gateway>>

(* After eight seconds, or when the connection breaks: 502.                *)
GatewayUnavailable(i) ==
    /\ requests[i].bank = "calling"
    /\ requests' = [requests EXCEPT ![i].bank = "refused"]
    /\ UNCHANGED <<form, submit, gateway>>

(* The transaction is recorded; no balance changes.                        *)
BankCommits(i) ==
    /\ requests[i].bank = "settled"
    /\ requests' = [requests EXCEPT ![i].bank = "booked"]
    /\ UNCHANGED <<form, submit, gateway>>

BankCrashes(i) ==
    /\ requests[i].bank \in {"received", "calling", "settled"}
    /\ requests' = [requests EXCEPT ![i].bank = "crashed"]
    /\ UNCHANGED <<form, submit, gateway>>

-----------------------------------------------------------------------------
(* The end of the call.                                                    *)

Latest == requests[Len(requests)]
Done == loading' = FALSE /\ call' = NoCall

Succeeded ==
    /\ call # NoCall /\ Latest.bank = "booked"
    /\ announced' = announced \cup {[n |-> call.n, rail |-> call.rail]}
    /\ Done
    /\ UNCHANGED <<form, submissions, requests, gateway>>

Failed ==
    /\ call # NoCall /\ Latest.bank = "refused"
    /\ Done
    /\ UNCHANGED <<form, announced, submissions, requests, gateway>>

(* The answer is lost, or there will be none.                              *)
NetworkError ==
    /\ call # NoCall
    /\ IF call.attempt < MAX_RETRIES
       THEN Post([call EXCEPT !.attempt = @ + 1]) /\ UNCHANGED loading
       ELSE Done /\ UNCHANGED requests
    /\ UNCHANGED <<form, announced, submissions, gateway>>

-----------------------------------------------------------------------------
Bank(i) ==
    \/ CheckFunds(i) \/ GatewayAnswers(i) \/ GatewayUnavailable(i)
    \/ BankCommits(i) \/ BankCrashes(i)
Fed(i) == FedReads(i) \/ FedCommits(i)

Next ==
    \/ SelectRail \/ EnterRouting \/ LookupEnds \/ HandleSubmit
    \/ \E i \in DOMAIN requests : Bank(i) \/ Fed(i)
    \/ Succeeded \/ Failed \/ NetworkError

Spec == Init /\ [][Next]_vars

(* Lookups and calls end: the client gives up in the end.                  *)
FairSpec ==
    /\ Spec
    /\ WF_vars(LookupEnds)
    /\ WF_vars(Succeeded \/ Failed \/ NetworkError)

Settled == {i \in DOMAIN requests : requests[i].fed = "settled"}

-----------------------------------------------------------------------------
(* What the bank records, the gateway has settled, whatever timed out or   *)
(* crashed on the way.                                                     *)
BookedIsSettled ==
    \A i \in DOMAIN requests : requests[i].bank \in {"settled", "booked"} => i \in Settled

(* An announced transfer was settled over the rail the announcement names, *)
(* although the customer may choose another rail meanwhile.                *)
AnnouncedIsSettled ==
    \A a \in announced : \E i \in Settled : requests[i].n = a.n /\ requests[i].rail = a.rail

(* What the master account should hold: every settled transfer counts.     *)
Position ==
    Reserve + Cardinality({i \in Settled : requests[i].rail = "ach"})
            - Cardinality({i \in Settled : requests[i].rail # "ach"})

(* The gateway reads, compares and writes the master account without a     *)
(* lock.  Its books are right, and wires settle within the overdraft, as   *)
(* long as no two transfers meet there; what meets, one of them loses, and *)
(* then only the recorded balance keeps to the overdraft.                  *)
OverdraftKept ==
    /\ ~overlapped => master = Position
    /\ "fednow" \notin UsedRails => master >= -Overdraft

(* The form never shows an institution and, below it, that the number is  *)
(* wrong or not in the directory, whichever answer comes last.             *)
BankOrWarning == ~(directoryInfo # None /\ validationError)
=============================================================================
