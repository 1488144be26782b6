-------------------------- MODULE BetweenAccounts ---------------------------
(***************************************************************************)
(* Transfers between a user's own accounts: the tab of the Transfer Center *)
(* (components/transfers/BetweenAccountsTab.tsx) over the endpoint that    *)
(* moves the money (services/account_service.py).                          *)
(*                                                                         *)
(* The form holds two account ids and an amount that were chosen from the  *)
(* accounts as they were displayed; the money is moved in the accounts as  *)
(* they are.  Whatever else moves between the same accounts (another tab,  *)
(* the vault) comes in between.                                            *)
(***************************************************************************)
EXTENDS Integers, Sequences, FiniteSets

CONSTANTS Total,        \* money in the accounts, in cents
          MaxAccounts,  \* bound: accounts of the user
          MaxClicks,    \* bound: submissions
          MAX_RETRIES   \* of the API client

Contract == INSTANCE CallContract WITH Call <- {}, Keyed <- {}, Separate <- {},
                                       outcome <- <<>>, executed <- <<>>

Account == 1..MaxAccounts
Cents == 0..Total
NoAccount == 0
(* The id 1 of the fallback, or one from a link: not an account of hers.   *)
Foreign == -1
Id == Account \cup {Foreign}

VARIABLES
    balance,         \* of every account there is
    shown,           \* the accounts the page displays, with their balances
    fromAccountId, toAccountId,
    amount,          \* 0: empty
    loading,
    creatingSavings,
    calls,           \* internal transfers: what was asked, how the call
                     \* ended, how often it was carried out
    wins             \* history: successes reported

form == <<fromAccountId, toAccountId, amount>>
backend == <<balance, calls>>
vars == <<form, backend, shown, loading, creatingSavings, wins>>

(* The cents in the accounts, one by one.                                  *)
Coins(b) == UNION {{a} \X (1..b[a]) : a \in DOMAIN b}
Money(b) == Cardinality(Coins(b))

TypeOK ==
    /\ balance \in UNION {[1..n -> Cents] : n \in Account}
    /\ DOMAIN shown \subseteq DOMAIN balance
    /\ \A a \in DOMAIN shown : shown[a] \in Cents
    /\ fromAccountId \in Id
    /\ toAccountId \in Id \cup {NoAccount}
    /\ amount \in Cents
    /\ loading \in BOOLEAN /\ creatingSavings \in BOOLEAN
    /\ \A i \in DOMAIN calls :
           calls[i] \in [from : Id, to : Id, cents : Cents,
                         ending : {"pending"} \cup Contract!Ending, runs : Nat]
    /\ wins \in 0..Len(calls)

(* The main account is the first one; a link may choose any two accounts,  *)
(* and without accounts or a link the source is the account with id 1.     *)
Init ==
    /\ \E n \in 1..2 : balance = [a \in 1..n |-> IF a = 1 THEN Total ELSE 0]
    /\ shown = <<>>
    /\ fromAccountId \in DOMAIN balance \cup {Foreign}
    /\ toAccountId \in DOMAIN balance \cup {Foreign, NoAccount}
    /\ amount = 0
    /\ loading = FALSE /\ creatingSavings = FALSE
    /\ calls = <<>> /\ wins = 0

-----------------------------------------------------------------------------
(* The form.                                                               *)

(* Mutant: a destination is chosen only when there is none.                *)
Destination_OnlyMissing(accounts, from, to) ==
    LET others == DOMAIN accounts \ {from}
    IN  IF Cardinality(DOMAIN accounts) > 1 /\ to = NoAccount
        THEN CHOOSE a \in others : \A b \in others : a <= b
        ELSE to
(* The effect: a destination that is missing or equals the source becomes  *)
(* the first other account.                                                *)
Destination(accounts, from, to) ==
    LET others == DOMAIN accounts \ {from}
    IN  IF Cardinality(DOMAIN accounts) > 1 /\ to \in {NoAccount, from}
        THEN CHOOSE a \in others : \A b \in others : a <= b
        ELSE to

Choose(accounts, from, to) ==
    /\ fromAccountId' = from
    /\ toAccountId' = Destination(accounts, from, to)

(* With one account there is no form, only the offer of a vault.           *)
FormShown == Cardinality(DOMAIN shown) > 1

ChooseSource ==
    /\ FormShown
    /\ \E a \in DOMAIN shown : Choose(shown, a, toAccountId)
    /\ UNCHANGED <<backend, shown, amount, loading, creatingSavings, wins>>

(* The source is disabled in the list of destinations.                     *)
ChooseDestination ==
    /\ FormShown
    /\ \E a \in DOMAIN shown \ {fromAccountId} : Choose(shown, fromAccountId, a)
    /\ UNCHANGED <<backend, shown, amount, loading, creatingSavings, wins>>

HandleSwap ==
    /\ FormShown
    /\ {fromAccountId, toAccountId} \subseteq DOMAIN shown
    /\ Choose(shown, toAccountId, fromAccountId)
    /\ UNCHANGED <<backend, shown, amount, loading, creatingSavings, wins>>

EnterAmount ==
    /\ FormShown
    /\ amount' \in Cents
    /\ UNCHANGED <<backend, shown, fromAccountId, toAccountId, loading, creatingSavings, wins>>

(* "Max Available" enters the balance on display.                          *)
HandleQuickChip ==
    /\ FormShown
    /\ fromAccountId \in DOMAIN shown
    /\ amount' = shown[fromAccountId]
    /\ UNCHANGED <<backend, shown, fromAccountId, toAccountId, loading, creatingSavings, wins>>

(* The accounts are fetched again; the effect runs.                        *)
AccountsLoaded ==
    /\ shown' = balance
    /\ Choose(balance, fromAccountId, toAccountId)
    /\ UNCHANGED <<backend, amount, loading, creatingSavings, wins>>

-----------------------------------------------------------------------------
(* The vault offered to a user with one account.  The request carries no   *)
(* key: one click may create several.                                      *)

HandleCreateDefaultSavings ==
    /\ ~FormShown
    /\ ~creatingSavings
    /\ creatingSavings' = TRUE
    /\ UNCHANGED <<backend, shown, form, loading, wins>>

SavingsCreated ==
    /\ creatingSavings
    /\ creatingSavings' = FALSE
    /\ \E ending \in Contract!Ending :
         \E n \in Contract!Effects(ending) :
           /\ Len(balance) + n <= MaxAccounts
           /\ balance' = balance \o [i \in 1..n |-> 0]
           /\ shown' = IF ending = "data" THEN balance' ELSE shown
           /\ Choose(shown', fromAccountId, toAccountId)
    /\ UNCHANGED <<calls, amount, loading, wins>>

-----------------------------------------------------------------------------
(* The transfer.                                                           *)

HandleSubmit ==
    /\ FormShown
    /\ ~loading
    /\ amount > 0
    /\ toAccountId # NoAccount
    /\ fromAccountId # toAccountId
    /\ fromAccountId \in DOMAIN shown => shown[fromAccountId] >= amount
    /\ Len(calls) < MaxClicks
    /\ calls' = Append(calls, [from |-> fromAccountId, to |-> toAccountId,
                               cents |-> amount, ending |-> "pending", runs |-> 0])
    /\ loading' = TRUE
    /\ UNCHANGED <<balance, shown, form, creatingSavings, wins>>

MayMove(from, to, cents) ==
    /\ cents > 0
    /\ from # to
    /\ {from, to} \subseteq DOMAIN balance
    /\ balance[from] >= cents

(* execute_internal_transfer, under the locks of both rows.                *)
Moved(from, to, cents) ==
    [balance EXCEPT ![from] = @ - cents, ![to] = @ + cents]

(* The server may carry a request out after the tab gave up or was told of *)
(* an error, and again when it is sent again: only the key of a transfer   *)
(* that was answered is completed (ApiClient!EndsAsPromised).              *)
ExecuteInternalTransfer ==
    \E i \in DOMAIN calls :
      LET c == calls[i] IN
        /\ c.ending # "data"
        /\ c.runs + 1 \in Contract!Effects("network")
        /\ MayMove(c.from, c.to, c.cents)
        /\ balance' = Moved(c.from, c.to, c.cents)
        /\ calls' = [calls EXCEPT ![i].runs = @ + 1]
        /\ UNCHANGED <<shown, form, loading, creatingSavings, wins>>

(* Another transfer of the user's.                                         *)
MovedElsewhere ==
    /\ \E from, to \in DOMAIN balance, cents \in 1..Total :
         /\ MayMove(from, to, cents)
         /\ balance' = Moved(from, to, cents)
    /\ UNCHANGED <<calls, shown, form, loading, creatingSavings, wins>>

(* A success empties the form, with whatever was typed meanwhile.          *)
SubmitEnds ==
    \E i \in DOMAIN calls, ending \in Contract!Ending :
        /\ calls[i].ending = "pending"
        /\ calls[i].runs \in Contract!Effects(ending)
        /\ calls' = [calls EXCEPT ![i].ending = ending]
        /\ loading' = FALSE
        /\ IF ending = "data"
           THEN amount' = 0 /\ wins' = wins + 1
           ELSE UNCHANGED <<amount, wins>>
        /\ UNCHANGED <<balance, shown, fromAccountId, toAccountId, creatingSavings>>

Next ==
    \/ ChooseSource \/ ChooseDestination \/ HandleSwap
    \/ EnterAmount \/ HandleQuickChip \/ AccountsLoaded
    \/ HandleCreateDefaultSavings \/ SavingsCreated
    \/ HandleSubmit \/ ExecuteInternalTransfer \/ MovedElsewhere \/ SubmitEnds

Spec == Init /\ [][Next]_vars

FairSpec == Spec /\ WF_vars(SubmitEnds) /\ WF_vars(SavingsCreated)

-----------------------------------------------------------------------------
(* Specification 3.7, "validation preventing identical source/destination":*)
(* whatever is chosen, swapped, linked to or loaded, a form on display     *)
(* never names one account twice.                                          *)
FormSeparates == FormShown => fromAccountId # toAccountId

(* Money neither appears nor disappears, in the accounts or in what is     *)
(* displayed, however the moves interleave.                                *)
MoneyKept ==
    /\ Money(balance) = Total
    /\ shown # <<>> => Money(shown) = Total

(* Every success the tab reports has a transfer of its own that was made.  *)
SuccessIsBacked == wins <= Cardinality({i \in DOMAIN calls : calls[i].runs > 0})
=============================================================================
