----------------------------- MODULE ApiClient ------------------------------
(***************************************************************************)
(* request() of lib/api/client.ts, the one way the pages reach the         *)
(* backend, over a network that loses requests and answers and delivers    *)
(* them late.  A failed fetch says nothing about the server: the request   *)
(* may be lost, waiting, or carried out already, and request() sends the   *)
(* same request again, whatever its method.                                *)
(*                                                                         *)
(* The backend takes effect in one commit, or, for an internal transfer,   *)
(* in a first one before the key is completed.  complete_idempotency does  *)
(* not find the key that its own session has added but not flushed: where  *)
(* there is one commit, the first success leaves the key pending.  An      *)
(* error may be answered after an effect: a failed second commit (500), a  *)
(* proxy that waits no longer (504) or has lost the backend (502).         *)
(*                                                                         *)
(* No page and no route of the backend ever stores a refresh token, so     *)
(* refreshAuthToken returns null and a 401 of the first attempt signs the  *)
(* browser out.  An unreadable body of a 2xx answer ends in the same catch *)
(* block as a failed fetch and is one with it here.                        *)
(***************************************************************************)
EXTENDS Integers, FiniteSets

CONSTANTS Call,         \* calls of request()
          Keyed,        \* the calls whose payload carries an idempotency_key
          Separate,     \* of them, those whose key is completed by a commit
                        \* of its own: internal transfers
          Retrying,     \* the calls made without retry: false
          MAX_RETRIES,
          MaxCalls      \* bound: calls that are made

ASSUME ApiClientAssumption ==
    /\ Separate \subseteq Keyed /\ Keyed \subseteq Call
    /\ Retrying \subseteq Call
    /\ MAX_RETRIES \in Nat

Attempt == 0..MAX_RETRIES

VARIABLES
    phase,      \* where request() stands
    attempt,    \* its loop variable
    outcome,    \* "none", "pending", or how the promise settled
    signedIn,   \* localStorage holds bank_token
    delivered,  \* requests on their way to, or waiting at, the server
    committed,  \* requests that have taken effect and are not answered yet
    answers,    \* answers on their way back, one to a request
    executed,   \* the attempts that took effect, per call
    key         \* the row of idempotency_keys, per call

client == <<phase, attempt, outcome, signedIn>>
network == <<delivered, committed, answers, executed, key>>
vars == <<client, network>>

Contract == INSTANCE CallContract

(* "refused" is a 4xx, "failed" a 5xx; "failed" tells nothing.             *)
Says == {"ok", "refused", "unauthorized", "failed"}
Answer == [call : Call, attempt : Attempt, says : Says]

TypeOK ==
    /\ phase \in [Call -> {"idle", "fetching", "waiting", "sleeping", "settled"}]
    /\ attempt \in [Call -> Attempt]
    /\ outcome \in [Call -> {"none", "pending"} \cup Contract!Ending]
    /\ signedIn \in BOOLEAN
    /\ delivered \in SUBSET (Call \X Attempt)
    /\ committed \in SUBSET (Call \X Attempt)
    /\ answers \in SUBSET Answer
    /\ executed \in [Call -> SUBSET Attempt]
    /\ key \in [Call -> {"absent", "pending", "completed"}]

Init ==
    /\ phase = [c \in Call |-> "idle"]
    /\ attempt = [c \in Call |-> 0]
    /\ outcome = [c \in Call |-> "none"]
    /\ signedIn = TRUE
    /\ delivered = {} /\ committed = {} /\ answers = {}
    /\ executed = [c \in Call |-> {}]
    /\ key = [c \in Call |-> "absent"]

-----------------------------------------------------------------------------
(* The client.                                                             *)

Begin(c) ==
    /\ phase[c] = "idle"
    /\ Cardinality({d \in Call : phase[d] # "idle"}) < MaxCalls
    /\ phase' = [phase EXCEPT ![c] = "fetching"]
    /\ outcome' = [outcome EXCEPT ![c] = "pending"]
    /\ UNCHANGED <<attempt, signedIn, network>>

Fetch(c) ==
    /\ phase[c] = "fetching"
    /\ phase' = [phase EXCEPT ![c] = "waiting"]
    /\ delivered' = delivered \cup {<<c, attempt[c]>>}
    /\ UNCHANGED <<attempt, outcome, signedIn, committed, answers, executed, key>>

Settle(c, e) ==
    /\ phase' = [phase EXCEPT ![c] = "settled"]
    /\ outcome' = [outcome EXCEPT ![c] = e]

(* Mutant: a late answer to the attempt that failed last is taken.           *)
Awaited_Late(a) == a.attempt = attempt[a.call]
(* Only an answer to the attempt request() waits for reaches it.           *)
Awaited(a) == phase[a.call] = "waiting" /\ a.attempt = attempt[a.call]

Resolve(a) ==
    /\ Awaited(a)
    /\ a.says = "ok"
    /\ Settle(a.call, "data")
    /\ UNCHANGED <<attempt, signedIn, network>>

SignsOut(c) == attempt[c] = 0 /\ c \in Retrying

RejectApi(a) ==
    /\ Awaited(a)
    /\ a.says # "ok"
    /\ Settle(a.call, "error")
    /\ signedIn' = (signedIn /\ ~(a.says = "unauthorized" /\ SignsOut(a.call)))
    /\ UNCHANGED <<attempt, network>>

(* Mutant: one attempt too many.                                             *)
CanRetry_OnceMore(c) == attempt[c] <= MAX_RETRIES
CanRetry(c) == attempt[c] < MAX_RETRIES

(* Mutant: the attempt is not counted.                                       *)
FailAttempt_NotCounted(c) ==
    /\ phase[c] = "waiting"
    /\ CanRetry(c)
    /\ phase' = [phase EXCEPT ![c] = IF c \in Retrying THEN "sleeping" ELSE "fetching"]
    /\ UNCHANGED <<attempt, outcome, signedIn, network>>

(* The fetch fails, or its 2xx answer has an unreadable body: the attempt  *)
(* counts as failed and the loop goes round.  retry: false only saves the  *)
(* pause between two attempts.                                             *)
FailAttempt(c) ==
    /\ phase[c] = "waiting"
    /\ CanRetry(c)
    /\ attempt' = [attempt EXCEPT ![c] = @ + 1]
    /\ phase' = [phase EXCEPT ![c] = IF c \in Retrying THEN "sleeping" ELSE "fetching"]
    /\ UNCHANGED <<outcome, signedIn, network>>

Wake(c) ==
    /\ phase[c] = "sleeping"
    /\ phase' = [phase EXCEPT ![c] = "fetching"]
    /\ UNCHANGED <<attempt, outcome, signedIn, network>>

GiveUp(c) ==
    /\ phase[c] = "waiting"
    /\ ~CanRetry(c)
    /\ Settle(c, "network")
    /\ UNCHANGED <<attempt, signedIn, network>>

-----------------------------------------------------------------------------
(* The network and the backend.                                            *)

(* Lost on the way, or by a backend that dies before it commits.           *)
LoseRequest(c, k) ==
    /\ <<c, k>> \in delivered
    /\ delivered' = delivered \ {<<c, k>>}
    /\ UNCHANGED <<client, committed, answers, executed, key>>

(* The first answer to a request is the only one: when the proxy has       *)
(* answered, what the backend says is dropped.                             *)
Reply(c, k, says) ==
    answers' = IF \E a \in answers : a.call = c /\ a.attempt = k THEN answers
               ELSE answers \cup {[call |-> c, attempt |-> k, says |-> says]}

(* Mutant: no saved response is replayed.                                  *)
Replayed_Never(c) == FALSE
(* check_idempotency returns the response of a completed key, of no other. *)
Replayed(c) == key[c] = "completed"

Replay(c, k) ==
    /\ <<c, k>> \in delivered /\ Replayed(c)
    /\ delivered' = delivered \ {<<c, k>>}
    /\ Reply(c, k, "ok")
    /\ UNCHANGED <<client, committed, executed, key>>

(* The commit inserts the key of a first request as pending.  A later one  *)
(* finds it, and completes it in the same commit unless that comes apart.  *)
KeyAfter(c) ==
    IF c \notin Keyed THEN "absent"
    ELSE IF c \in Separate \/ key[c] = "absent" THEN "pending" ELSE "completed"

Execute(c, k) ==
    /\ <<c, k>> \in delivered /\ ~Replayed(c)
    /\ delivered' = delivered \ {<<c, k>>}
    /\ committed' = committed \cup {<<c, k>>}
    /\ executed' = [executed EXCEPT ![c] = @ \cup {k}]
    /\ key' = [key EXCEPT ![c] = KeyAfter(c)]
    /\ UNCHANGED <<client, answers>>

(* Mutant: an internal transfer is answered and its key is not completed.  *)
Finish_Pending(c, k) ==
    /\ <<c, k>> \in committed
    /\ committed' = committed \ {<<c, k>>}
    /\ Reply(c, k, "ok")
    /\ UNCHANGED <<client, delivered, executed, key>>

(* The second commit, where there is one, and the answer.                  *)
Finish(c, k) ==
    /\ <<c, k>> \in committed
    /\ committed' = committed \ {<<c, k>>}
    /\ key' = IF c \in Separate THEN [key EXCEPT ![c] = "completed"] ELSE key
    /\ Reply(c, k, "ok")
    /\ UNCHANGED <<client, delivered, executed>>

(* The second commit fails, or the backend dies after the effect: a 500, a *)
(* 502 or nothing is answered.                                             *)
FailLate(c, k) ==
    /\ <<c, k>> \in committed
    /\ committed' = committed \ {<<c, k>>}
    /\ Reply(c, k, "failed") \/ answers' = answers
    /\ UNCHANGED <<client, delivered, executed, key>>

(* An exception before the commit: what was done is rolled back.           *)
Refuse(c, k, says) ==
    /\ <<c, k>> \in delivered
    /\ says \in Says \ {"ok"}
    /\ delivered' = delivered \ {<<c, k>>}
    /\ Reply(c, k, says)
    /\ UNCHANGED <<client, committed, executed, key>>

(* The proxy waits no longer; the backend goes on.                         *)
ProxyTimeout(c, k) ==
    /\ <<c, k>> \in delivered \cup committed
    /\ Reply(c, k, "failed")
    /\ UNCHANGED <<client, delivered, committed, executed, key>>

Client(c) ==
    \/ Begin(c) \/ Fetch(c) \/ FailAttempt(c) \/ Wake(c) \/ GiveUp(c)

Server(c, k) ==
    \/ LoseRequest(c, k) \/ Replay(c, k)
    \/ Execute(c, k) \/ Finish(c, k) \/ FailLate(c, k)
    \/ \E says \in Says : Refuse(c, k, says)
    \/ ProxyTimeout(c, k)

Next ==
    \/ \E c \in Call : Client(c)
    \/ \E a \in answers : Resolve(a) \/ RejectApi(a)
    \/ \E c \in Call, k \in Attempt : Server(c, k)

Spec == Init /\ [][Next]_vars

(* The browser ends every fetch, with an answer or with a failure, and     *)
(* timers fire.                                                            *)
FairSpec ==
    /\ Spec
    /\ \A c \in Call :
        /\ WF_vars(Fetch(c))
        /\ WF_vars(Wake(c))
        /\ WF_vars(FailAttempt(c) \/ GiveUp(c))

-----------------------------------------------------------------------------
(* Properties.                                                             *)

(* A resolved call took effect, and an internal transfer will not take     *)
(* effect again, whichever of its requests are still on their way; a 4xx   *)
(* of the first attempt means that nothing happened.                       *)
EndsAsPromised ==
    \A c \in Call :
        /\ outcome[c] \in Contract!Ending =>
               Cardinality(executed[c]) \in Contract!Effects(outcome[c])
        /\ outcome[c] = "data" /\ c \in Separate => Replayed(c)
        /\ outcome[c] = "error" /\ attempt[c] = 0 =>
               \/ executed[c] = {}
               \/ \E a \in answers : a.call = c /\ a.attempt = 0 /\ a.says = "failed"

(* A keyed call that takes effect in one commit does so twice at most,     *)
(* however often it is sent.                                               *)
KeyedTwice ==
    \A c \in Keyed \ Separate : Cardinality(executed[c]) <= 2

(* The retry loop over the faulty network implements the contract the      *)
(* pages rely on.                                                          *)
ImplementsContract == Contract!ContractSpec

(* Every call settles, though the network never answers: request() gives   *)
(* up after MAX_RETRIES + 1 attempts.                                      *)
EveryCallSettles == \A c \in Call : phase[c] # "idle" ~> phase[c] = "settled"
=============================================================================
