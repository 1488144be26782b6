--------------------------- MODULE SmartTransfer ----------------------------
(***************************************************************************)
(* The Smart Transfer Hub (components/transfers/SmartTransferHub.tsx): the *)
(* recipient and the directory lookup of the routing number, the amount    *)
(* and the rail, the submission and its receipt.                           *)
(*                                                                         *)
(* The lookup effect has no cleanup: the answers of older lookups are      *)
(* still applied.  The buttons of step 2 other than Send stay enabled      *)
(* while a transfer is being sent.                                         *)
(***************************************************************************)
EXTENDS Lists

CONSTANTS Valid,         \* routing numbers with a correct check digit
          Malformed,     \* nine digits without one
          Partial,       \* fewer than nine digits
          Directory,     \* per valid number: the rail it prefers, or none
          Suggested,     \* the quick recipients: routing and rail
          Cents,         \* amounts the user can enter, 0 for an invalid one
          MAX_RETRIES,   \* of the API client
          InOrder,       \* the directory answers in the order it is asked
          MaxLookups,    \* bound: lookups under way
          none           \* no routing number, institution, rail or transfer

Contract == INSTANCE CallContract WITH Call <- {}, Keyed <- {}, Separate <- {},
                                       outcome <- <<>>, executed <- <<>>

Routing == Valid \cup {Malformed, Partial}
Rail == {"fednow", "wire", "ach", "internal"}
Transfer == [rail : Rail, cents : Cents]

VARIABLES
    step,             \* 1 recipient, 2 amount and rail, 3 receipt
    recipientRouting,
    selectedRail,
    amount,           \* what amountStr says, in cents
    lookups,          \* lookups under way, oldest first
    institution,      \* the number whose institution is displayed
    sending,          \* the transfer isSubmitting stands for
    completedTx,      \* while step 3 displays it
    made              \* the backend's last transfer, with the cents it moved

form == <<step, recipientRouting, selectedRail, amount>>
directory == <<lookups, institution>>
submission == <<sending, completedTx, made>>
vars == <<form, directory, submission>>

TypeOK ==
    /\ step \in 1..3
    /\ recipientRouting \in Routing \cup {none}
    /\ selectedRail \in Rail
    /\ amount \in Cents
    /\ lookups \in Seq(Valid) /\ Len(lookups) <= MaxLookups
    /\ institution \in Valid \cup {none}
    /\ sending \in Transfer \cup {none}
    /\ completedTx \in Transfer \cup {none}
    /\ made = none \/ (made.transfer \in Transfer /\ made.moved \in Nat)

(* With an initial payee the hub starts on step 2, without on step 1.      *)
Init ==
    /\ step = 1
    /\ recipientRouting = none
    /\ selectedRail = "fednow"
    /\ amount = 10000
    /\ lookups = <<>>
    /\ institution = none
    /\ sending = none
    /\ completedTx = none
    /\ made = none

-----------------------------------------------------------------------------
(* Step 1 and the directory.                                               *)

(* The effect of a changed number.  The last institution stays displayed   *)
(* while a valid number is being looked up.                                *)
LookUp(r) ==
    /\ recipientRouting' = r
    /\ IF r = recipientRouting
       THEN UNCHANGED <<lookups, institution>>
       ELSE IF r \in Valid
       THEN /\ Len(lookups) < MaxLookups
            /\ lookups' = Append(lookups, r)
            /\ UNCHANGED institution
       ELSE /\ institution' = none
            /\ UNCHANGED lookups

(* The search box: digits are the routing number, anything else is a name  *)
(* and leaves the state below alone.                                       *)
TypeRecipient ==
    /\ step = 1
    /\ \E q \in Routing : LookUp(q)
    /\ UNCHANGED <<step, selectedRail, amount, submission>>

HandleSelectQuickRecipient ==
    /\ step = 1
    /\ \E p \in Suggested :
        /\ LookUp(p.routing)
        /\ selectedRail' = p.rail
    /\ step' = 2
    /\ UNCHANGED <<amount, submission>>

Proceed ==
    /\ step = 1
    /\ step' = 2
    /\ UNCHANGED <<recipientRouting, selectedRail, amount,
                   directory, submission>>

(* The answer names the institution and its rail; an unknown institution   *)
(* or a failed lookup falls back on the Federal Reserve district.          *)
LookupAnswered ==
    \E i \in 1..Len(lookups) :
        /\ InOrder => i = 1
        /\ lookups' = RemoveAt(lookups, i)
        /\ institution' = lookups[i]
        /\ selectedRail' \in {selectedRail} \cup ({Directory[lookups[i]]} \ {none})
        /\ UNCHANGED <<step, recipientRouting, amount, submission>>

-----------------------------------------------------------------------------
(* Step 2.                                                                 *)

Back ==
    /\ step = 2
    /\ step' = 1
    /\ UNCHANGED <<recipientRouting, selectedRail, amount,
                   directory, submission>>

ChooseAmount ==
    /\ step = 2
    /\ amount' \in Cents
    /\ UNCHANGED <<step, recipientRouting, selectedRail,
                   directory, submission>>

(* The selector offers no internal transfer.                               *)
ChooseRail ==
    /\ step = 2
    /\ selectedRail' \in Rail \ {"internal"}
    /\ UNCHANGED <<step, recipientRouting, amount, directory, submission>>

Entered == [rail |-> selectedRail, cents |-> amount]

(* An invalid amount is reported and nothing sent.                         *)
HandleExecuteTransfer ==
    /\ step = 2 /\ sending = none
    /\ amount > 0
    /\ sending' = Entered
    /\ UNCHANGED <<form, directory, completedTx, made>>

(* The amount goes out in dollars to routes that count in cents and accept *)
(* integers only.                                                          *)
Accepted(t) == t.cents % 100 = 0

Made(t) == [transfer |-> t, moved |-> t.cents \div 100]

(* What the backend may have done when the call ends.                      *)
Settle(ending) ==
    \E n \in Contract!Effects(ending) :
        /\ n > 0 => Accepted(sending)
        /\ made' = (IF n = 0 THEN made ELSE Made(sending))

TransferDone ==
    /\ sending # none
    /\ Settle("data")
    /\ sending' = none
    /\ completedTx' = sending
    /\ step' = 3
    /\ UNCHANGED <<recipientRouting, selectedRail, amount, directory>>

TransferFailed ==
    /\ sending # none
    /\ \E ending \in {"error", "network"} : Settle(ending)
    /\ sending' = none
    /\ UNCHANGED <<form, directory, completedTx>>

-----------------------------------------------------------------------------
(* Step 3.                                                                 *)

(* Send Another Payment keeps the recipient, the number and the rail.      *)
SendAnother ==
    /\ step = 3
    /\ step' = 1
    /\ amount' = 10000
    /\ completedTx' = none
    /\ UNCHANGED <<recipientRouting, selectedRail, directory, sending, made>>

Next ==
    \/ TypeRecipient \/ HandleSelectQuickRecipient \/ Proceed \/ LookupAnswered
    \/ Back \/ ChooseAmount \/ ChooseRail \/ HandleExecuteTransfer
    \/ TransferDone \/ TransferFailed \/ SendAnother

Spec == Init /\ [][Next]_vars

(* Every call of the API client settles (ApiClient!EveryCallSettles).      *)
FairSpec ==
    /\ Spec
    /\ WF_vars(LookupAnswered)
    /\ WF_vars(TransferDone \/ TransferFailed)

-----------------------------------------------------------------------------
(* Properties.                                                             *)

(* The receipt is shown for a transfer the backend has made, whatever the  *)
(* user did on the other steps while it was being sent.                    *)
ReceiptIsBacked ==
    step = 3 => made # none /\ made.transfer = completedTx

(* Once the directory, asked for one number after another, has answered    *)
(* all, the institution displayed is that of the number entered last.      *)
LastLookupWins ==
    InOrder /\ lookups = <<>> /\ recipientRouting \in Valid
        => institution = recipientRouting
=============================================================================
