---------------------------- MODULE UserRegistry ----------------------------
(***************************************************************************)
(* The administrator's registry of users: components/admin/                *)
(* UserManagement.tsx (the table with its pages, the search, the erasure   *)
(* with its two confirmations) and compliance_delete_user of               *)
(* services/admin_service.py.                                              *)
(*                                                                         *)
(* The endpoints mask emails: the page knows, and has the administrator    *)
(* type, a masked email, and two users may have the same.  The dialog      *)
(* shows and erases the user found, and a search under way may find        *)
(* another one while it is open.  ClickHouse is cleared before PostgreSQL  *)
(* commits, and its failures are only logged.                              *)
(***************************************************************************)
EXTENDS Integers, FiniteSets

CONSTANTS User, MaskOf,   \* the masked email of every user
          Subscribers,    \* users with a row in subscriptions
          Matching,       \* users whose name or email holds the search term
          PageSize,
          MaxSearches, MaxErasures, MaxReads  \* bounds: requests of each kind

Nobody == 0
Mask == {MaskOf[u] : u \in User}
Untyped == "untyped"

VARIABLES
    accounts,     \* users in PostgreSQL
    history,      \* users with events in ClickHouse
    users,        \* the page: the users read
    searchTerm,   \* TRUE: something is typed in the quick search
    currentPage,
    foundUser, deleteStep, confirmEmail, deleteLoading,
    deleteSuccess, \* the user who is announced as purged
    searching,    \* searches under way: whom they will find
    erasures,     \* deletions under way
    reads,        \* reads of the list under way: what they will show
    made          \* requests made, of each kind

page == <<users, searchTerm, currentPage>>
dialog == <<foundUser, deleteStep, confirmEmail>>
vars == <<accounts, history, page, dialog, deleteLoading, deleteSuccess,
          searching, erasures, reads, made>>

Erasure == [user : User, typed : Mask \cup {Untyped},
            answer : {"none", "ok", "missing", "integrity", "failed"}]

TypeOK ==
    /\ accounts \subseteq User /\ history \subseteq User /\ users \subseteq User
    /\ searchTerm \in BOOLEAN /\ currentPage \in 1..(Cardinality(User) + 1)
    /\ foundUser \in User \cup {Nobody}
    /\ deleteStep \in 0..2
    /\ confirmEmail \in Mask \cup {Untyped}
    /\ deleteLoading \in BOOLEAN
    /\ deleteSuccess \in User \cup {Nobody}
    /\ searching \subseteq User \cup {Nobody}
    /\ erasures \subseteq Erasure
    /\ reads \subseteq SUBSET User
    /\ made.searches \in 0..MaxSearches
    /\ made.erasures \in 0..MaxErasures
    /\ made.reads \in 0..MaxReads

Init ==
    /\ accounts = User /\ history = User
    /\ users = User
    /\ searchTerm = FALSE /\ currentPage = 1
    /\ foundUser = Nobody /\ deleteStep = 0 /\ confirmEmail = Untyped
    /\ deleteLoading = FALSE /\ deleteSuccess = Nobody
    /\ searching = {} /\ erasures = {} /\ reads = {}
    /\ made = [searches |-> 0, erasures |-> 0, reads |-> 0]

-----------------------------------------------------------------------------
(* The table.                                                              *)

FilteredUsers == IF searchTerm THEN users \cap Matching ELSE users
TotalPages == (Cardinality(FilteredUsers) + PageSize - 1) \div PageSize

FetchUsers ==
    /\ made.reads < MaxReads
    /\ made' = [made EXCEPT !.reads = @ + 1]
    /\ reads' = reads \cup {accounts}
    /\ UNCHANGED <<accounts, history, page, dialog, deleteLoading, deleteSuccess, searching, erasures>>

UsersRead ==
    /\ \E r \in reads : reads' = reads \ {r} /\ users' \in {r, users}
    /\ UNCHANGED <<accounts, history, searchTerm, currentPage, dialog, deleteLoading,
                   deleteSuccess, searching, erasures, made>>

(* The effect brings the first page back.                                  *)
QuickSearch ==
    /\ searchTerm' = ~searchTerm
    /\ currentPage' = 1
    /\ UNCHANGED <<accounts, history, users, dialog, deleteLoading, deleteSuccess,
                   searching, erasures, reads, made>>

AtMost(a, b) == IF a <= b THEN a ELSE b

(* The numbers of the buttons.                                             *)
PageWindow(current, total) ==
    {IF total > 5 /\ current > 3
     THEN IF current - 2 + i > total THEN total - (4 - i) ELSE current - 2 + i
     ELSE i + 1 : i \in 0..(AtMost(5, total) - 1)}

TurnPage ==
    /\ TotalPages > 1
    /\ currentPage' \in PageWindow(currentPage, TotalPages)
                          \cup (IF currentPage = 1 THEN {} ELSE {currentPage - 1})
                          \cup (IF currentPage = TotalPages THEN {}
                                ELSE {AtMost(currentPage + 1, TotalPages)})
    /\ UNCHANGED <<accounts, history, users, searchTerm, dialog, deleteLoading,
                   deleteSuccess, searching, erasures, reads, made>>

-----------------------------------------------------------------------------
(* Finding a user.                                                         *)

(* A button in the table; the dialog covers it while it is open.           *)
SelectUser ==
    /\ deleteStep = 0
    /\ foundUser' \in FilteredUsers
    /\ UNCHANGED <<accounts, history, page, deleteStep, confirmEmail, deleteLoading,
                   deleteSuccess, searching, erasures, reads, made>>

HandleSearchUser ==
    /\ deleteStep = 0 /\ searching = {}
    /\ made.searches < MaxSearches
    /\ made' = [made EXCEPT !.searches = @ + 1]
    /\ foundUser' = Nobody /\ deleteSuccess' = Nobody
    /\ \E u \in accounts \cup {Nobody} : searching' = {u}
    /\ UNCHANGED <<accounts, history, page, deleteStep, confirmEmail,
                   deleteLoading, erasures, reads>>

(* Nobody: not found, or no answer.                                        *)
SearchAnswered ==
    /\ \E u \in searching :
         /\ searching' = searching \ {u}
         /\ foundUser' = IF u = Nobody THEN foundUser ELSE u
    /\ UNCHANGED <<accounts, history, page, deleteStep, confirmEmail, deleteLoading,
                   deleteSuccess, erasures, reads, made>>

-----------------------------------------------------------------------------
(* Erasing the user found.                                                 *)

InitiatePurge ==
    /\ deleteStep = 0 /\ foundUser # Nobody
    /\ deleteStep' = 1
    /\ UNCHANGED <<accounts, history, page, foundUser, confirmEmail, deleteLoading,
                   deleteSuccess, searching, erasures, reads, made>>

Proceed ==
    /\ deleteStep = 1
    /\ deleteStep' = 2
    /\ UNCHANGED <<accounts, history, page, foundUser, confirmEmail, deleteLoading,
                   deleteSuccess, searching, erasures, reads, made>>

(* What was typed stays.                                                   *)
Abort ==
    /\ deleteStep > 0
    /\ deleteStep' = 0
    /\ UNCHANGED <<accounts, history, page, foundUser, confirmEmail, deleteLoading,
                   deleteSuccess, searching, erasures, reads, made>>

TypeConfirmation ==
    /\ deleteStep = 2
    /\ confirmEmail' \in Mask
    /\ UNCHANGED <<accounts, history, page, foundUser, deleteStep, deleteLoading,
                   deleteSuccess, searching, erasures, reads, made>>

(* The button and the handler compare.                                     *)
Confirmed == foundUser # Nobody /\ confirmEmail = MaskOf[foundUser]

HandleDeleteUser ==
    /\ deleteStep = 2 /\ foundUser # Nobody /\ ~deleteLoading
    /\ Confirmed
    /\ made.erasures < MaxErasures
    /\ made' = [made EXCEPT !.erasures = @ + 1]
    /\ deleteLoading' = TRUE /\ deleteStep' = 0
    /\ erasures' = erasures \cup
         {[user |-> foundUser, typed |-> confirmEmail, answer |-> "none"]}
    /\ UNCHANGED <<accounts, history, page, foundUser, confirmEmail, deleteSuccess, searching, reads>>

(* compliance_delete_user: a row of subscriptions keeps the user's row;    *)
(* ClickHouse is cleared or not; the commit may fail.                      *)
ComplianceDeleteUser ==
    /\ \E e \in erasures, answer \in {"ok", "missing", "integrity", "failed"} :
         /\ e.answer = "none"
         /\ (answer = "missing") <=> (e.user \notin accounts)
         /\ (answer = "integrity") <=> (e.user \in accounts \cap Subscribers)
         /\ erasures' = (erasures \ {e}) \cup {[e EXCEPT !.answer = answer]}
         /\ accounts' = IF answer = "ok" THEN accounts \ {e.user} ELSE accounts
         /\ history' \in IF answer \in {"ok", "failed"} THEN {history, history \ {e.user}} ELSE {history}
    /\ UNCHANGED <<page, dialog, deleteLoading, deleteSuccess, searching, reads, made>>

(* Success: everything is reset and the list is read; an error is kept but *)
(* shown nowhere.                                                          *)
DeletionAnswered ==
    /\ \E e \in erasures :
         /\ e.answer # "none"
         /\ erasures' = erasures \ {e}
         /\ deleteLoading' = FALSE
         /\ IF e.answer = "ok"
            THEN /\ deleteSuccess' = e.user
                 /\ foundUser' = Nobody /\ confirmEmail' = Untyped /\ deleteStep' = 0
                 /\ reads' = reads \cup {accounts}
            ELSE UNCHANGED <<deleteSuccess, foundUser, confirmEmail, deleteStep, reads>>
    /\ UNCHANGED <<accounts, history, page, searching, made>>

-----------------------------------------------------------------------------
Next ==
    \/ FetchUsers \/ UsersRead \/ QuickSearch \/ TurnPage
    \/ SelectUser \/ HandleSearchUser \/ SearchAnswered
    \/ InitiatePurge \/ Proceed \/ Abort \/ TypeConfirmation
    \/ HandleDeleteUser \/ ComplianceDeleteUser \/ DeletionAnswered

Spec == Init /\ [][Next]_vars

FairSpec ==
    Spec /\ WF_vars(ComplianceDeleteUser) /\ WF_vars(DeletionAnswered)

-----------------------------------------------------------------------------
(* Whoever is erased has the email that was typed, although the user in    *)
(* the dialog may change under the hands.                                  *)
ErasedWasTyped == \A e \in erasures : e.typed = MaskOf[e.user]

(* Who is announced as purged has no account any more.                     *)
AnnouncedIsGone == deleteSuccess # Nobody => deleteSuccess \notin accounts

(* The page buttons lead to pages that exist, and the current one is among *)
(* them unless the list has become shorter than it.                        *)
WindowUsable ==
    LET w == PageWindow(currentPage, TotalPages)
    IN  currentPage <= TotalPages =>
            /\ w \subseteq 1..TotalPages
            /\ currentPage \in w
=============================================================================
