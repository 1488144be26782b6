---------------------------- MODULE PaymentScreens ----------------------------
(* The client that carries every payment and the screens that make them:   *)
(* a behaviour is a visit to one of them.  The state of the others rests:  *)
(* that of the API client in its initial state, that of the screens at     *)
(* Nothing.  A screen with two entries has two sets of constants.          *)
EXTENDS ApiClient, Sequences

CONSTANTS
    Nothing,   \* no recipient, no receipt; a screen that is not visited
    \* SmartTransfer
    Valid, Malformed, Partial, Directory, Suggested, HubCents, HubRetries,
    MaxLookups,
    \* SendPage
    Field, MaxTransfers, MaxFetches, SendRetries,
    \* BetweenAccounts
    Total, MaxAccounts, MaxClicks, BetweenRetries,
    \* Vault
    Limit, MaxOwners, MaxCreations, MaxMoves, VaultRetries,
    \* FedTransfer, for the transfers and for the lookups
    FedRouting, Listed, UsedRails, Funds, Reserve, Overdraft, FedRetries,
    MaxEdits, MaxSubmissions, LookupRouting, LookupListed, LookupRails,
    MaxLookupEdits

VARIABLES
    screen, \* the one visited
    \* SmartTransfer
    step, recipientRouting, selectedRail, hubAmount, hubLookups, institution,
    sending, completedTx, made,
    \* SendPage
    activeTab, filled, submitting, sendCalls, sendWins, version, indexed,
    submitted, sendLoading, known, fetches, polls, sendShown, notification,
    clears,
    \* BetweenAccounts
    balance, betweenShown, fromAccountId, toAccountId, betweenAmount,
    betweenLoading, creatingSavings, betweenCalls, betweenWins,
    \* Vault
    owner, creations, sent, vaultShown, isOpen, initialMode, mode, error,
    transfer, isCreating, creating, confirmed,
    \* FedTransfer
    rail, routingNumber, directoryInfo, validationError, lookupLoading,
    fedLoading, fedLookups, call, announced, edits, submissions, requests,
    master, overlapped

Hub == INSTANCE SmartTransfer WITH
    Cents <- HubCents, InOrder <- TRUE, MAX_RETRIES <- HubRetries,
    none <- Nothing, amount <- hubAmount, lookups <- hubLookups

(* The Transfer Center with transfers, with refreshes that fail, and with  *)
(* answers in any order.                                                   *)
Send == INSTANCE SendPage WITH
    InOrder <- TRUE, MayFail <- FALSE, MaxFetches <- 1,
    MAX_RETRIES <- SendRetries, calls <- sendCalls, wins <- sendWins,
    loading <- sendLoading, shown <- sendShown
SendTwice == INSTANCE SendPage WITH
    InOrder <- TRUE, MayFail <- TRUE, MaxTransfers <- 1,
    MAX_RETRIES <- SendRetries, calls <- sendCalls, wins <- sendWins,
    loading <- sendLoading, shown <- sendShown
SendUnordered == INSTANCE SendPage WITH
    InOrder <- FALSE, MayFail <- FALSE, MaxTransfers <- 1,
    MAX_RETRIES <- SendRetries, calls <- sendCalls, wins <- sendWins,
    loading <- sendLoading, shown <- sendShown

Between == INSTANCE BetweenAccounts WITH
    MAX_RETRIES <- BetweenRetries, shown <- betweenShown,
    amount <- betweenAmount, loading <- betweenLoading, calls <- betweenCalls,
    wins <- betweenWins

Vaults == INSTANCE Vault WITH
    MaxAccounts <- MaxOwners, MaxTransfers <- MaxMoves,
    MAX_RETRIES <- VaultRetries, shown <- vaultShown

(* The Federal Reserve tab for the transfers, and for the lookups.         *)
Fed == INSTANCE FedTransfer WITH
    Routing <- FedRouting, MAX_RETRIES <- FedRetries, loading <- fedLoading,
    lookups <- fedLookups
FedLookup == INSTANCE FedTransfer WITH
    Routing <- LookupRouting, Listed <- LookupListed,
    UsedRails <- LookupRails, MAX_RETRIES <- 0, MaxEdits <- MaxLookupEdits,
    loading <- fedLoading, lookups <- fedLookups

ASSUME HubConstants ==
    /\ Nothing \notin Valid /\ Nothing \notin [rail : Hub!Rail, cents : HubCents]
    /\ Nothing \notin [transfer : [rail : Hub!Rail, cents : HubCents], moved : Nat]
    /\ Malformed \notin Valid /\ Partial \notin Valid
    /\ Directory \in [Valid -> Hub!Rail \cup {Nothing}]
    /\ Suggested \subseteq [routing : Valid, rail : Hub!Rail]
    /\ HubCents \subseteq Nat /\ 10000 \in HubCents
    /\ HubRetries \in Nat /\ MaxLookups \in Nat

ASSUME SendConstants ==
    /\ {"recipient", "amount"} \subseteq Field
    /\ MaxTransfers \in Nat /\ MaxFetches \in Nat /\ SendRetries \in Nat

ASSUME BetweenConstants ==
    /\ Total \in Nat /\ MaxAccounts \in Nat /\ MaxAccounts >= 2
    /\ MaxClicks \in Nat /\ BetweenRetries \in Nat

ASSUME VaultConstants ==
    /\ Limit \in Nat /\ MaxOwners \in Nat /\ MaxOwners >= 2
    /\ MaxCreations \in Nat /\ MaxMoves \in Nat /\ VaultRetries \in Nat

ASSUME FedConstants ==
    /\ UsedRails \subseteq Fed!Rail
    /\ Reserve \in Int /\ FedRetries \in Nat
    /\ MaxEdits \in Nat /\ MaxSubmissions \in Nat

hubVars == <<step, recipientRouting, selectedRail, hubAmount, hubLookups,
             institution, sending, completedTx, made>>
sendVars == <<activeTab, filled, submitting, sendCalls, sendWins, version,
              indexed, submitted, sendLoading, known, fetches, polls,
              sendShown, notification, clears>>
betweenVars == <<balance, betweenShown, fromAccountId, toAccountId,
                 betweenAmount, betweenLoading, creatingSavings, betweenCalls,
                 betweenWins>>
vaultVars == <<owner, creations, sent, vaultShown, isOpen, initialMode, mode,
               error, transfer, isCreating, creating, confirmed>>
fedVars == <<rail, routingNumber, directoryInfo, validationError,
             lookupLoading, fedLoading, fedLookups, call, announced, edits,
             submissions, requests, master, overlapped>>
visitVars == <<screen, vars, hubVars, sendVars, betweenVars, vaultVars, fedVars>>

At(s) == screen = s

NoSmartTransfer ==
    /\ step = Nothing /\ recipientRouting = Nothing /\ selectedRail = Nothing
    /\ hubAmount = Nothing /\ hubLookups = Nothing /\ institution = Nothing
    /\ sending = Nothing /\ completedTx = Nothing /\ made = Nothing
NoSendPage ==
    /\ activeTab = Nothing /\ filled = Nothing /\ submitting = Nothing
    /\ sendCalls = Nothing /\ sendWins = Nothing /\ version = Nothing
    /\ indexed = Nothing /\ submitted = Nothing /\ sendLoading = Nothing
    /\ known = Nothing /\ fetches = Nothing /\ polls = Nothing
    /\ sendShown = Nothing /\ notification = Nothing /\ clears = Nothing
NoBetweenAccounts ==
    /\ balance = Nothing /\ betweenShown = Nothing /\ fromAccountId = Nothing
    /\ toAccountId = Nothing /\ betweenAmount = Nothing
    /\ betweenLoading = Nothing /\ creatingSavings = Nothing
    /\ betweenCalls = Nothing /\ betweenWins = Nothing
NoVault ==
    /\ owner = Nothing /\ creations = Nothing /\ sent = Nothing
    /\ vaultShown = Nothing /\ isOpen = Nothing /\ initialMode = Nothing
    /\ mode = Nothing /\ error = Nothing /\ transfer = Nothing
    /\ isCreating = Nothing /\ creating = Nothing
    /\ confirmed = Nothing
NoFedTransfer ==
    /\ rail = Nothing /\ routingNumber = Nothing /\ directoryInfo = Nothing
    /\ validationError = Nothing /\ lookupLoading = Nothing
    /\ fedLoading = Nothing /\ fedLookups = Nothing /\ call = Nothing
    /\ announced = Nothing /\ edits = Nothing /\ submissions = Nothing
    /\ requests = Nothing /\ master = Nothing
    /\ overlapped = Nothing

VisitInit ==
    /\ screen \in {"client", "hub", "send", "refreshing",
                   "unordered", "between", "vaults", "fed",
                   "lookup"}
    /\ Init
    /\ IF At("hub") THEN Hub!Init ELSE NoSmartTransfer
    /\ IF At("send") THEN Send!Init
       ELSE IF At("refreshing") THEN SendTwice!Init
       ELSE IF At("unordered") THEN SendUnordered!Init ELSE NoSendPage
    /\ IF At("between") THEN Between!Init ELSE NoBetweenAccounts
    /\ IF At("vaults") THEN Vaults!Init ELSE NoVault
    /\ IF At("fed") THEN Fed!Init
       ELSE IF At("lookup") THEN FedLookup!Init ELSE NoFedTransfer

VisitNext ==
    /\ UNCHANGED screen
    /\ IF At("client") THEN Next ELSE UNCHANGED vars
    /\ IF At("hub") THEN Hub!Next ELSE UNCHANGED hubVars
    /\ IF At("send") THEN Send!Next
       ELSE IF At("refreshing") THEN SendTwice!Next
       ELSE IF At("unordered") THEN SendUnordered!Next ELSE UNCHANGED sendVars
    /\ IF At("between") THEN Between!Next ELSE UNCHANGED betweenVars
    /\ IF At("vaults") THEN Vaults!Next ELSE UNCHANGED vaultVars
    /\ IF At("fed") THEN Fed!Next
       ELSE IF At("lookup") THEN FedLookup!Next ELSE UNCHANGED fedVars

VisitSpec == VisitInit /\ [][VisitNext]_visitVars

(* The fairness of every screen is that of its own specification.          *)
FairVisits ==
    /\ VisitSpec
    /\ \A c \in Call :
        WF_vars(Fetch(c)) /\ WF_vars(Wake(c)) /\ WF_vars(FailAttempt(c) \/ GiveUp(c))
    /\ WF_hubVars(At("hub") /\ Hub!LookupAnswered)
    /\ WF_hubVars(At("hub") /\ (Hub!TransferDone \/ Hub!TransferFailed))
    /\ WF_sendVars(At("unordered") /\ SendUnordered!FetchRead)
    /\ WF_sendVars(At("unordered") /\ SendUnordered!FetchDone)
    /\ WF_sendVars(At("unordered") /\ SendUnordered!PollFires)
    /\ WF_sendVars(At("unordered") /\ SendUnordered!Index)
    /\ WF_betweenVars(At("between") /\ Between!SubmitEnds)
    /\ WF_vaultVars(At("vaults") /\ Vaults!VaultCreated)
    /\ WF_vaultVars(At("vaults") /\ Vaults!VaultReloaded)
    /\ WF_vaultVars(At("vaults") /\ (Vaults!Transferred \/ Vaults!TransferFailed))
    /\ WF_vaultVars(At("vaults") /\ Vaults!TransferReported)
    /\ WF_fedVars(At("lookup") /\ FedLookup!LookupEnds)
    /\ WF_fedVars(/\ At("fed")
                  /\ Fed!Succeeded \/ Fed!Failed \/ Fed!NetworkError)

-----------------------------------------------------------------------------
(* The API client and the screens keep their types.                        *)
TypesOK ==
    /\ TypeOK
    /\ At("hub") => Hub!TypeOK
    /\ At("send") => Send!TypeOK
    /\ At("between") => Between!TypeOK
    /\ At("vaults") => Vaults!TypeOK
    /\ At("fed") => Fed!TypeOK

(* What a screen tells the customer has happened: the receipt of the hub   *)
(* belongs to a transfer that was made, and its institution to the number  *)
(* entered last; an entry of the Transfer Center is reported as sent once; *)
(* a success between accounts has a move of its own; the vault tells what  *)
(* it moved, though the dialog changes meanwhile; a transfer over the Fed  *)
(* that is recorded or announced was settled, and no institution stands    *)
(* beside a warning.                                                       *)
ClaimsAreBacked ==
    /\ At("hub") => Hub!ReceiptIsBacked /\ Hub!LastLookupWins
    /\ At("send") => Send!OneSuccessPerEntry
    /\ At("between") => Between!SuccessIsBacked
    /\ At("vaults") => Vaults!ToldWhatMoved /\ Vaults!ConfirmedExists
    /\ At("fed") => Fed!BookedIsSettled /\ Fed!AnnouncedIsSettled
    /\ At("lookup") => FedLookup!BankOrWarning

(* Money between a customer's accounts neither appears nor disappears and  *)
(* never leaves them, and a form never names one account twice.  The       *)
(* master account shows everything that was settled while no two transfers *)
(* overlapped at the gateway, and keeps to its overdraft limit.            *)
MoneyKept ==
    /\ At("between") => Between!MoneyKept /\ Between!FormSeparates
    /\ At("vaults") => Vaults!MovesOwn
    /\ At("fed") => Fed!OverdraftKept

(* With answers in the order of the requests, the tables of the Transfer   *)
(* Center show less than before only when ClickHouse has failed a request: *)
(* the endpoint answers that with an empty list.                           *)
NeverGoesBack ==
    [][At("refreshing") /\ sendShown' < sendShown =>
           /\ sendShown' = 0
           /\ \E i \in DOMAIN fetches :
                  /\ fetches[i].read = SendTwice!Emptied
                  /\ fetches' = SendTwice!RemoveAt(fetches, i)]_visitVars

(* What a screen owes in the end ...                                       *)
Owed ==
    \/ At("hub") /\ sending # Nothing
    \/ At("unordered") /\ indexed > 0 /\ polls > 0
    \/ At("between") /\ betweenLoading
    \/ At("vaults") /\ transfer.stage # "none"
    \/ At("fed") /\ fedLoading
    \/ At("lookup") /\ lookupLoading

Given ==
    \/ At("hub") /\ sending = Nothing
    \/ At("unordered") /\ sendShown > 0
    \/ At("between") /\ ~betweenLoading
    \/ At("vaults") /\ transfer.stage = "none"
    \/ At("fed") /\ ~fedLoading
    \/ At("lookup") /\ ~lookupLoading

(* ... it gives, whatever fails: a button that was disabled for a call     *)
(* comes back, the lookup ends, and the transfer that ClickHouse knows is  *)
(* shown after the last of the three refreshes, in whatever order their    *)
(* answers come.                                                           *)
PaymentsSettle == Owed ~> Given
===============================================================================
