---------------------------- MODULE CallContract ----------------------------
(***************************************************************************)
(* What one call of the frontend's API client (lib/api/client.ts) promises *)
(* the page that makes it: how often the server may carry the request out, *)
(* and what the page may conclude from the way the call ends.  ApiClient   *)
(* is checked and proved to implement it; the modules of the pages use     *)
(* Effects in its place.                                                   *)
(***************************************************************************)
EXTENDS Integers, FiniteSets

CONSTANTS Call,        \* calls of request()
          Keyed,       \* the calls whose payload carries an idempotency_key
          Separate,    \* of them, those whose key has a commit of its own
          MAX_RETRIES

Attempt == 0..MAX_RETRIES

(* "data": the promise resolves.  "error": it rejects with an ApiError.    *)
(* "network": it rejects with a NetworkError.                              *)
Ending == {"data", "error", "network"}

VARIABLES outcome,   \* "none" before the call, "pending", then its ending
          executed   \* the attempts the server carried out

contractVars == <<outcome, executed>>

ContractInit ==
    /\ outcome = [c \in Call |-> "none"]
    /\ executed = [c \in Call |-> {}]

Start(c) ==
    /\ outcome[c] = "none"
    /\ outcome' = [outcome EXCEPT ![c] = "pending"]
    /\ UNCHANGED executed

(* The server may carry an attempt out after the call has ended.  A key    *)
(* that is completed with the second effect stops a third one; a key with  *)
(* a commit of its own is completed before a success is answered, and      *)
(* stops every effect from then on.                                        *)
Execute(c, k) ==
    /\ outcome[c] # "none"
    /\ k \notin executed[c]
    /\ c \in Keyed \ Separate => Cardinality(executed[c]) < 2
    /\ c \in Separate => outcome[c] # "data"
    /\ executed' = [executed EXCEPT ![c] = @ \cup {k}]
    /\ UNCHANGED outcome

End(c, e) ==
    /\ outcome[c] = "pending"
    /\ e = "data" => executed[c] # {}
    /\ outcome' = [outcome EXCEPT ![c] = e]
    /\ UNCHANGED executed

ContractNext ==
    \/ \E c \in Call : Start(c)
    \/ \E c \in Call, k \in Attempt : Execute(c, k)
    \/ \E c \in Call, e \in Ending : End(c, e)

ContractSpec == ContractInit /\ [][ContractNext]_contractVars

(* How often a call that ended with e was or will be carried out: an error *)
(* says as little as no answer.                                            *)
Effects(e) == (IF e = "data" THEN 1 ELSE 0)..(MAX_RETRIES + 1)
=============================================================================
