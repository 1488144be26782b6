--------------------------- MODULE PaymentRequests ---------------------------
(***************************************************************************)
(* Requests for money: the form (RequestTransferTab.tsx) and the table of  *)
(* requests (RequestHistoryTable.tsx) of two users, the routes that create *)
(* and decline (routers/transfers.py) and the payment of a request         *)
(* (services/transfer_service.py).                                         *)
(*                                                                         *)
(* A request is read without a lock.  The accounts are locked, so that two *)
(* payments run one after the other, but the second has read the status,   *)
(* and the copy of the account that it computes on, before it waited: the  *)
(* locking read does not refresh an account that the session has loaded.   *)
(***************************************************************************)
EXTENDS Integers, FiniteSets

CONSTANTS Request,      \* requests, all from "requester" to "target"
          Attempt,      \* bound: calls of p2p-transfer and of decline
          Opening,      \* the target's balance, in requests
          Absent        \* no request, no status

User == {"requester", "target"}
Pending == {"pending_target", "pending_requester"}
Status == Pending \cup {"paid", "declined"}

VARIABLES
    status,      \* payment_requests.status, Absent before the insert
    balance,     \* the target's account
    moved,       \* history: payments made for a request
    lock,        \* the attempt that holds the account rows
    attempt,     \* the calls: what they do, for which request, how far, and
                 \* the balance on their copy of the account, once read
    overlapped,  \* history: requests that two calls had in hand at once
    shown        \* per user: the statuses the page displays

vars == <<status, balance, moved, lock, attempt, overlapped, shown>>

Call == [op : {"pay", "decline", "byHand"}, request : Request, seen : 0..Opening,
         at : {"read", "fetched", "locked", "done", "refused"}]

TypeOK ==
    /\ status \in [Request -> Status \cup {Absent}]
    /\ balance \in 0..Opening
    /\ moved \in [Request -> Nat]
    /\ lock \in Attempt \cup {Absent}
    /\ \A a \in Attempt : attempt[a] # Absent => attempt[a] \in Call
    /\ overlapped \subseteq Request
    /\ shown \in [User -> [Request -> Status \cup {Absent}]]

Init ==
    /\ status = [r \in Request |-> Absent]
    /\ balance = Opening
    /\ moved = [r \in Request |-> 0]
    /\ lock = Absent
    /\ attempt = [a \in Attempt |-> Absent]
    /\ overlapped = {}
    /\ shown = [u \in User |-> status]

(* A transfer by hand does not know the request it is made for.            *)
InHand(r) == {a \in Attempt : /\ attempt[a] # Absent
                              /\ attempt[a].op # "byHand"
                              /\ attempt[a].request = r
                              /\ attempt[a].at \in {"read", "fetched", "locked"}}

-----------------------------------------------------------------------------
(* The pages.                                                              *)

(* handleSubmit and create_payment_request.                                  *)
HandleSubmit(r) ==
    /\ status[r] = Absent
    /\ status' = [status EXCEPT ![r] = "pending_target"]
    /\ UNCHANGED <<balance, moved, lock, attempt, overlapped, shown>>

(* get_payment_requests: both users see the request, once they ask.        *)
Load(u) ==
    /\ shown' = [shown EXCEPT ![u] = status]
    /\ UNCHANGED <<status, balance, moved, lock, attempt, overlapped>>

CanCancel(u, r) == u = "requester" /\ shown[u][r] = "pending_target"
CanPay(u, r) == u = "target" /\ shown[u][r] = "pending_target"

-----------------------------------------------------------------------------
(* The routes.                                                             *)

Begin(a, op, r) ==
    /\ attempt[a] = Absent
    /\ attempt' = [attempt EXCEPT ![a] = [op |-> op, request |-> r, seen |-> 0, at |-> "read"]]
    /\ overlapped' = IF op # "byHand" /\ InHand(r) # {} THEN overlapped \cup {r}
                     ELSE overlapped
    /\ UNCHANGED <<status, balance, moved, lock, shown>>

(* _validate_payment_request: a client that sends payment_request_id.      *)
ValidatePaymentRequest(a, r) ==
    /\ status[r] \in Pending
    /\ Begin(a, "pay", r)

(* Pay in the table only opens the tab of instant transfers; the transfer  *)
(* the user makes there does not carry the request.                        *)
PayByHand(a, r) ==
    /\ CanPay("target", r)
    /\ Begin(a, "byHand", r)

(* _get_account_by_user.                                                   *)
FetchAccounts(a) ==
    /\ attempt[a] # Absent
    /\ attempt[a].op # "decline"
    /\ attempt[a].at = "read"
    /\ attempt' = [attempt EXCEPT ![a].at = "fetched", ![a].seen = balance]
    /\ UNCHANGED <<status, balance, moved, lock, overlapped, shown>>

(* _execute_p2p_balances: the rows are locked until the commit.            *)
LockAccounts(a) ==
    /\ attempt[a] # Absent
    /\ attempt[a].at = "fetched"
    /\ lock = Absent
    /\ lock' = a
    /\ attempt' = [attempt EXCEPT ![a].at = "locked"]
    /\ UNCHANGED <<status, balance, moved, overlapped, shown>>

(* The rest of process_p2p_transfer and the commit of the route.           *)
Pay(a) ==
    /\ attempt[a] # Absent
    /\ attempt[a].at = "locked"
    /\ attempt[a].seen >= 1
    /\ balance' = attempt[a].seen - 1
    /\ moved' = [moved EXCEPT ![attempt[a].request] = @ + 1]
    /\ status' = [status EXCEPT ![attempt[a].request] =
                    IF attempt[a].op = "pay" THEN "paid" ELSE @]
    /\ lock' = Absent
    /\ attempt' = [attempt EXCEPT ![a].at = "done"]
    /\ UNCHANGED <<overlapped, shown>>

(* "Insufficient funds": rollback, which releases the rows.                *)
Refuse(a) ==
    /\ attempt[a] # Absent
    /\ attempt[a].at = "locked"
    /\ attempt[a].seen < 1
    /\ lock' = Absent
    /\ attempt' = [attempt EXCEPT ![a].at = "refused"]
    /\ UNCHANGED <<status, balance, moved, overlapped, shown>>

(* decline_payment_request does not look at the status.  The table offers  *)
(* it to the requester, another client of the API to both.                 *)
DeclineReads(a, r) ==
    /\ status[r] # Absent
    /\ CanCancel("requester", r) \/ shown["target"][r] # Absent
    /\ Begin(a, "decline", r)

DeclineCommits(a) ==
    /\ attempt[a] # Absent
    /\ attempt[a].op = "decline"
    /\ attempt[a].at = "read"
    /\ status' = [status EXCEPT ![attempt[a].request] = "declined"]
    /\ attempt' = [attempt EXCEPT ![a].at = "done"]
    /\ UNCHANGED <<balance, moved, lock, overlapped, shown>>

Next ==
    \/ \E r \in Request : HandleSubmit(r)
    \/ \E u \in User : Load(u)
    \/ \E a \in Attempt, r \in Request :
          ValidatePaymentRequest(a, r) \/ PayByHand(a, r) \/ DeclineReads(a, r)
    \/ \E a \in Attempt :
          FetchAccounts(a) \/ LockAccounts(a) \/ Pay(a) \/ Refuse(a) \/ DeclineCommits(a)

Spec == Init /\ [][Next]_vars
(* Handlers run to their end.                                              *)
FairSpec == Spec /\ \A a \in Attempt :
    WF_vars(FetchAccounts(a) \/ LockAccounts(a) \/ Pay(a) \/ Refuse(a) \/ DeclineCommits(a))

-----------------------------------------------------------------------------
PaidBy(r) == {a \in Attempt : /\ attempt[a] # Absent
                              /\ attempt[a].op = "pay"
                              /\ attempt[a].request = r
                              /\ attempt[a].at = "done"}

(* A request is marked as paid only with the money: the mark and the       *)
(* balances commit together.                                               *)
PaidIsMoved == \A r \in Request : status[r] = "paid" => moved[r] >= 1

(* As long as no two calls have one request in hand at the same time, it   *)
(* is paid through the route once at most.                                 *)
PaidOnceAlone == \A r \in Request \ overlapped : Cardinality(PaidBy(r)) <= 1

(* No payment waits for the accounts for ever.                             *)
EveryCallEnds == \A a \in Attempt :
    (attempt[a] # Absent) ~> (attempt[a] # Absent /\ attempt[a].at \in {"done", "refused"})
=============================================================================
