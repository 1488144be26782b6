------------------------------- MODULE Vault --------------------------------
(***************************************************************************)
(* Sub-accounts and the savings vault on the dashboard (app/client): the   *)
(* dialog that moves money in and out of the vault and creates the vault   *)
(* when there is none (neobank/VaultTransferModal.tsx), the form that      *)
(* creates sub-accounts (SubAccountManager.tsx), and the endpoint behind   *)
(* both (services/account_service.py).                                     *)
(*                                                                         *)
(* Account ids are given out in the order in which accounts are created,   *)
(* by all users.  The dialog stays mounted when it is closed: a transfer   *)
(* under way goes on, with what the dialog held when it was confirmed.     *)
(***************************************************************************)
EXTENDS Integers, Sequences, FiniteSetsExt

CONSTANTS Limit,        \* of sub-accounts: 10 in the code
          MaxAccounts,  \* bound: accounts of all users
          MaxCreations, \* bound: requests to create a sub-account
          MaxTransfers, \* bound: confirmations of the dialog
          MAX_RETRIES   \* of the API client

Contract == INSTANCE CallContract WITH Call <- {}, Keyed <- {}, Separate <- {},
                                       outcome <- <<>>, executed <- <<>>

Mode == {"deposit", "withdraw"}

VARIABLES
    owner,      \* of every account, in the order of creation
    creations,  \* requests of the user to create a sub-account
    sent,       \* the dialog's requests to move money, in order: between
                \* which accounts, how often carried out, whether a success
                \* was answered, and which mode the dialog announced
    shown,      \* the user's accounts the dashboard displays
    \* VaultTransferModal
    isOpen, initialMode, mode, error,
    transfer,   \* handleExecuteTransfer: what it captured, and how far it is
    \* SubAccountManager
    isCreating, creating, confirmed

modal == <<isOpen, initialMode, mode, error>>
manager == <<isCreating, creating, confirmed>>
backend == <<owner, creations, sent>>
vars == <<backend, shown, modal, transfer, manager>>

Mine == {a \in DOMAIN owner : owner[a] = "me"}
Main == Min(Mine)
Subs == Mine \ {Main}

NoTransfer == [stage |-> "none", mode |-> "deposit"]
Stage == {"none", "creating", "reloading", "moving", "refreshing"}

TypeOK ==
    /\ \A a \in DOMAIN owner : owner[a] \in {"me", "other"}
    /\ \A i \in DOMAIN creations :
           creations[i] \in [waiting : BOOLEAN, counted : -1..MaxAccounts, runs : Nat]
    /\ Len(sent) <= MaxTransfers
    /\ \A i \in DOMAIN sent :
           sent[i] \in [from : Int, to : Int, runs : Nat, done : BOOLEAN,
                       told : Mode \cup {"none"}]
    /\ shown \subseteq Mine
    /\ isOpen \in BOOLEAN /\ initialMode \in Mode /\ mode \in Mode /\ error \in BOOLEAN
    /\ transfer \in [stage : Stage, mode : Mode]
    /\ isCreating \in BOOLEAN
    /\ creating \in 0..MaxCreations
    /\ confirmed \in 0..MaxCreations

Init ==
    /\ owner \in {<<"me">>, <<"me", "other">>, <<"me", "me">>}
    /\ creations = <<>> /\ sent = <<>>
    /\ shown = Mine
    /\ isOpen = FALSE /\ initialMode = "deposit" /\ mode = "deposit" /\ error = FALSE
    /\ transfer = NoTransfer
    /\ isCreating = FALSE /\ creating = 0 /\ confirmed = 0

-----------------------------------------------------------------------------
(* The backend: create_user_sub_account and execute_internal_transfer.     *)

(* The request carries no key: it may be carried out more than once.       *)
CountSubAccounts ==
    \E i \in DOMAIN creations :
        /\ creations[i].counted = -1
        /\ creations[i].runs + 1 \in Contract!Effects("network")
        /\ Cardinality(Subs) < Limit
        /\ creations' = [creations EXCEPT ![i].counted = Cardinality(Subs)]
        /\ UNCHANGED <<owner, sent, shown, modal, transfer, manager>>

InsertSubAccount ==
    \E i \in DOMAIN creations :
        /\ creations[i].counted >= 0
        /\ Len(owner) < MaxAccounts
        /\ owner' = Append(owner, "me")
        /\ creations' = [creations EXCEPT ![i].counted = -1, ![i].runs = @ + 1]
        /\ UNCHANGED <<sent, shown, modal, transfer, manager>>

(* A new customer, or a sub-account of one.                                *)
OtherAccountOpened ==
    /\ Len(owner) < MaxAccounts
    /\ owner' = Append(owner, "other")
    /\ UNCHANGED <<creations, sent, shown, modal, transfer, manager>>

(* Both accounts are the user's; the funds may be missing.  Only the key of*)
(* a transfer whose success was answered stops the request for good: one   *)
(* that ended in an error may still be carried out, and more than once.    *)
ExecuteInternalTransfer ==
    \E i \in DOMAIN sent :
        /\ ~sent[i].done
        /\ sent[i].runs + 1 \in Contract!Effects("network")
        /\ {sent[i].from, sent[i].to} \subseteq Mine
        /\ sent' = [sent EXCEPT ![i].runs = @ + 1]
        /\ UNCHANGED <<owner, creations, shown, modal, transfer, manager>>

(* getAccountSummary, which may fail.                                      *)
Refresh(accounts) == accounts \in {shown, Mine}

-----------------------------------------------------------------------------
(* The dialog.                                                             *)

(* The dashboard's buttons; the effect takes the mode over.                *)
OpenModal ==
    /\ ~isOpen
    /\ isOpen' = TRUE
    /\ initialMode' \in Mode
    /\ mode' = initialMode'
    /\ error' = FALSE
    /\ UNCHANGED <<backend, shown, transfer, manager>>

CloseModal ==
    /\ isOpen
    /\ isOpen' = FALSE
    /\ UNCHANGED <<backend, shown, initialMode, mode, error, transfer, manager>>

(* The switch is not disabled while a transfer is under way.               *)
SwitchMode ==
    /\ isOpen
    /\ mode' \in Mode
    /\ error' = FALSE
    /\ UNCHANGED <<backend, shown, isOpen, initialMode, transfer, manager>>

(* The account taken for the vault; 0 when only the main one is displayed. *)
SavingsAccount == IF Cardinality(shown) > 1 THEN Min(shown \ {Main}) ELSE 0

Send(m, vault) ==
    sent' = Append(sent, [from |-> IF m = "deposit" THEN Main ELSE vault,
                          to |-> IF m = "deposit" THEN vault ELSE Main,
                          runs |-> 0, done |-> FALSE, told |-> "none"])

(* Nothing can be withdrawn from a vault that is not displayed.            *)
HandleExecuteTransfer ==
    /\ isOpen
    /\ transfer.stage = "none"
    /\ Len(sent) < MaxTransfers
    /\ mode = "withdraw" => SavingsAccount # 0
    /\ error' = FALSE
    /\ IF SavingsAccount # 0
       THEN /\ transfer' = [stage |-> "moving", mode |-> mode]
            /\ Send(mode, SavingsAccount)
            /\ UNCHANGED creations
       ELSE /\ Len(creations) < MaxCreations
            /\ creations' = Append(creations, [waiting |-> TRUE, counted |-> -1, runs |-> 0])
            /\ transfer' = [stage |-> "creating", mode |-> mode]
            /\ UNCHANGED sent
    /\ UNCHANGED <<owner, shown, isOpen, initialMode, mode, manager>>

(* The id after the main account's stands for the one that was created.    *)
GuessedId == Main + 1

Ends(i, ending) == creations[i].runs \in Contract!Effects(ending)

(* The dialog's creation is answered: the dashboard is reloaded.           *)
VaultCreated ==
    /\ transfer.stage = "creating"
    /\ \E i \in DOMAIN creations, ending \in Contract!Ending :
         /\ creations[i].waiting /\ (creating # i)
         /\ Ends(i, ending)
         /\ creations' = [creations EXCEPT ![i].waiting = FALSE]
         /\ IF ending = "data"
            THEN transfer' = [transfer EXCEPT !.stage = "reloading"] /\ UNCHANGED error
            ELSE transfer' = NoTransfer /\ error' = TRUE
    /\ UNCHANGED <<owner, sent, shown, isOpen, initialMode, mode, manager>>

(* A failed reload leaves the accounts as they were, and nobody is told.   *)
VaultReloaded ==
    /\ transfer.stage = "reloading"
    /\ Refresh(shown')
    /\ transfer' = [transfer EXCEPT !.stage = "moving"]
    /\ Send(transfer.mode, GuessedId)
    /\ UNCHANGED <<owner, creations, modal, manager>>

Transferred ==
    /\ transfer.stage = "moving"
    /\ sent[Len(sent)].runs \in Contract!Effects("data")
    /\ sent' = [sent EXCEPT ![Len(sent)].done = TRUE]
    /\ transfer' = [transfer EXCEPT !.stage = "refreshing"]
    /\ UNCHANGED <<owner, creations, shown, modal, manager>>

(* Refused, or ended in an error that says nothing of what was done.       *)
TransferFailed ==
    /\ transfer.stage = "moving"
    /\ error' = TRUE
    /\ transfer' = NoTransfer
    /\ UNCHANGED <<backend, shown, isOpen, initialMode, mode, manager>>

(* The message names the mode that was confirmed.                          *)
Announced == transfer.mode

(* The last reload; the dialog is closed, if need be one opened since.     *)
TransferReported ==
    /\ transfer.stage = "refreshing"
    /\ Refresh(shown')
    /\ sent' = [sent EXCEPT ![Len(sent)].told = Announced]
    /\ isOpen' = FALSE
    /\ transfer' = NoTransfer
    /\ UNCHANGED <<owner, creations, initialMode, mode, error, manager>>

-----------------------------------------------------------------------------
(* The form for sub-accounts.                                              *)

(* The button is there while fewer than the limit are displayed.           *)
OpenCreation ==
    /\ ~isCreating
    /\ Cardinality(shown \ {Main}) < Limit
    /\ isCreating' = TRUE
    /\ UNCHANGED <<backend, shown, modal, transfer, creating, confirmed>>

CancelCreation ==
    /\ isCreating
    /\ isCreating' = FALSE
    /\ UNCHANGED <<backend, shown, modal, transfer, creating, confirmed>>

HandleCreate ==
    /\ isCreating
    /\ creating = 0
    /\ Len(creations) < MaxCreations
    /\ creations' = Append(creations, [waiting |-> TRUE, counted |-> -1, runs |-> 0])
    /\ creating' = Len(creations')
    /\ UNCHANGED <<owner, sent, shown, modal, transfer, isCreating, confirmed>>

(* A success closes the form and reloads the dashboard.                    *)
CreationAnswered ==
    /\ creating # 0
    /\ creating' = 0
    /\ creations' = [creations EXCEPT ![creating].waiting = FALSE]
    /\ \/ /\ Ends(creating, "data")
          /\ isCreating' = FALSE
          /\ confirmed' = confirmed + 1
          /\ Refresh(shown')
       \/ /\ \E ending \in {"error", "network"} : Ends(creating, ending)
          /\ UNCHANGED <<isCreating, confirmed, shown>>
    /\ UNCHANGED <<owner, sent, modal, transfer>>

(* The dashboard's accounts are polled every minute.                       *)
Polled ==
    /\ shown' = Mine
    /\ UNCHANGED <<backend, modal, transfer, manager>>

Next ==
    \/ CountSubAccounts \/ InsertSubAccount \/ OtherAccountOpened
    \/ ExecuteInternalTransfer
    \/ OpenModal \/ CloseModal \/ SwitchMode
    \/ HandleExecuteTransfer \/ VaultCreated \/ VaultReloaded
    \/ Transferred \/ TransferFailed \/ TransferReported
    \/ OpenCreation \/ CancelCreation \/ HandleCreate \/ CreationAnswered
    \/ Polled

Spec == Init /\ [][Next]_vars

(* Every request is answered.                                              *)
FairSpec ==
    /\ Spec
    /\ WF_vars(VaultCreated) /\ WF_vars(VaultReloaded)
    /\ WF_vars(Transferred \/ TransferFailed) /\ WF_vars(TransferReported)

-----------------------------------------------------------------------------
(* Whatever id the dialog holds or guesses, money moves between two        *)
(* accounts of the user's, one of which is the main one.                   *)
MovesOwn ==
    \A i \in DOMAIN sent :
        sent[i].runs > 0 => /\ {sent[i].from, sent[i].to} \subseteq Mine
                            /\ Main \in {sent[i].from, sent[i].to}

(* An announcement belongs to a transfer that was made, and tells which    *)
(* way the money went, though the dialog may have been switched, closed or *)
(* opened again in between.                                                *)
ToldWhatMoved ==
    \A i \in DOMAIN sent :
        sent[i].told # "none" =>
            /\ sent[i].runs > 0
            /\ sent[i].told = IF sent[i].from = Main THEN "deposit" ELSE "withdraw"

(* A creation the form reports as done has left an account.                *)
ConfirmedExists == confirmed <= Cardinality(Subs)
=============================================================================
