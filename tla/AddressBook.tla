---------------------------- MODULE AddressBook -----------------------------
(***************************************************************************)
(* The address book: app/client/contacts/page.tsx and the endpoint behind  *)
(* it, services/contact_service.py.                                        *)
(*                                                                         *)
(* A contact pays a payee: an email address, a merchant and a subscriber   *)
(* id, or a routing and an account number.  The page calls fetch itself:   *)
(* nothing is sent twice, and an answer may get lost.  Adding and saving   *)
(* an edit disable each other; deleting and reloading disable nothing, and *)
(* an answer replaces the list by one made from the list that was          *)
(* displayed when the request was sent.  Another page of the same user     *)
(* adds and deletes as well.                                               *)
(***************************************************************************)
EXTENDS Integers, FiniteSetsExt

CONSTANTS Payee,    \* of each kind
          MaxIds,   \* bound: contacts ever created
          MaxCalls  \* bound: changes asked for

NoPayee == 0
Kind == {"karin", "merchant", "bank"}
NoName == "blank"
Names == {NoName, "nick", "vendor"}
Contact == [id : 1..MaxIds, kind : Kind, name : Names, payee : Payee \cup {NoPayee}]

VARIABLES
    book,       \* the user's contacts in the database
    nextId,
    contacts,   \* the page: displayed
    metadata,   \* the kinds whose payees can be chosen from a list
    editing,    \* editingContactId; 0: none
    actionLoading,
    calls,      \* requests under way
    sent,       \* how many changes were asked for
    alone       \* history: no two requests at once, and no answer lost

vars == <<book, nextId, contacts, metadata, editing, actionLoading, calls, sent, alone>>

Call == [n : 0..MaxCalls, mine : BOOLEAN, op : {"list", "add", "edit", "delete"},
         phase : {"sent", "checked", "done"},
         why : {"ok", "incomplete", "duplicate", "missing", "lost"},
         contact : Contact, captured : SUBSET Contact, answer : SUBSET Contact]

NewContact(d) == [id |-> 1, kind |-> d.kind, name |-> d.name, payee |-> d.payee]
AnyContact == NewContact([kind |-> "karin", name |-> NoName, payee |-> NoPayee])
Request(n, mine, op, c, shown) ==
    [n |-> n, mine |-> mine, op |-> op, phase |-> "sent", why |-> "ok",
     contact |-> c, captured |-> shown, answer |-> {}]

TypeOK ==
    /\ book \subseteq Contact /\ contacts \subseteq Contact
    /\ \A c, d \in book : c.id = d.id => c = d
    /\ nextId \in 1..(MaxIds + 1)
    /\ metadata \subseteq Kind
    /\ editing \in 0..MaxIds
    /\ actionLoading \in BOOLEAN /\ alone \in BOOLEAN
    /\ \A r \in calls :
         /\ DOMAIN r = {"n", "mine", "op", "phase", "why", "contact", "captured", "answer"}
         /\ r.op \in {"list", "add", "edit", "delete"} /\ r.contact \in Contact
         /\ r.captured \subseteq Contact /\ r.answer \subseteq Contact
    /\ sent \in 0..MaxCalls

Init ==
    /\ book \in {{}, {NewContact([kind |-> "merchant", name |-> "nick", payee |-> Min(Payee)])}}
    /\ nextId = Cardinality(book) + 1
    /\ contacts = {} /\ metadata = {} /\ editing = 0
    /\ actionLoading = FALSE
    /\ calls = {Request(0, TRUE, "list", AnyContact, {})}
    /\ sent = 0 /\ alone = TRUE

(* A request of the page is sent.                                          *)
Send(op, c) ==
    /\ sent < MaxCalls
    /\ sent' = sent + 1
    /\ alone' = (alone /\ calls = {})
    /\ calls' = calls \cup {Request(sent + 1, TRUE, op, c, contacts)}

-----------------------------------------------------------------------------
(* The endpoint.                                                           *)

Step(r, s) == calls' = (calls \ {r}) \cup {s}
Refused(r, why) == Step(r, [r EXCEPT !.phase = "done", !.why = why])

ServeList(r) ==
    /\ r.op = "list" /\ r.phase = "sent"
    /\ Step(r, [r EXCEPT !.phase = "done", !.answer = book])
    /\ UNCHANGED <<book, nextId>>

Exists(c) == \E b \in book : b.kind = c.kind /\ b.payee = c.payee

(* The checks of create_user_contact.                                      *)
CheckContact(r) ==
    /\ r.op = "add" /\ r.phase = "sent"
    /\ IF r.contact.name = NoName \/ r.contact.payee = NoPayee THEN Refused(r, "incomplete")
       ELSE IF Exists(r.contact) THEN Refused(r, "duplicate")
       ELSE Step(r, [r EXCEPT !.phase = "checked"])
    /\ UNCHANGED <<book, nextId>>

InsertContact(r) ==
    /\ r.op = "add" /\ r.phase = "checked"
    /\ nextId <= MaxIds
    /\ LET c == [r.contact EXCEPT !.id = nextId]
       IN  /\ book' = book \cup {c}
           /\ Step(r, [r EXCEPT !.phase = "done", !.answer = {c}])
    /\ nextId' = nextId + 1

(* What the request does not name is set to nothing.                       *)
UpdateUserContact(r) ==
    /\ r.op = "edit" /\ r.phase = "sent"
    /\ IF r.contact.id \notin {b.id : b \in book} THEN Refused(r, "missing") /\ book' = book
       ELSE IF r.contact.name = NoName THEN Refused(r, "incomplete") /\ book' = book
       ELSE \E b \in book :
            /\ b.id = r.contact.id
            /\ LET c == [b EXCEPT !.name = r.contact.name, !.payee = r.contact.payee]
               IN  /\ book' = (book \ {b}) \cup {c}
                   /\ Step(r, [r EXCEPT !.phase = "done", !.answer = {c}])
    /\ UNCHANGED nextId

DeleteUserContact(r) ==
    /\ r.op = "delete" /\ r.phase = "sent"
    /\ book' = {b \in book : b.id # r.contact.id}
    /\ IF book' = book THEN Refused(r, "missing") ELSE Step(r, [r EXCEPT !.phase = "done"])
    /\ UNCHANGED nextId

Serve(r) ==
    /\ ServeList(r) \/ CheckContact(r) \/ InsertContact(r)
       \/ UpdateUserContact(r) \/ DeleteUserContact(r)
    /\ UNCHANGED <<contacts, metadata, editing, actionLoading, sent, alone>>

(* The request or its answer is lost.                                      *)
Lost(r) ==
    /\ r.mine /\ r.phase # "checked" /\ r.why # "lost"
    /\ Step(r, [r EXCEPT !.phase = "done", !.why = "lost"])
    /\ alone' = FALSE
    /\ UNCHANGED <<book, nextId, contacts, metadata, editing, actionLoading, sent>>

(* Another page of the user asks for a change.                             *)
OtherPage ==
    /\ sent < MaxCalls
    /\ sent' = sent + 1
    /\ alone' = FALSE
    /\ calls' = calls \cup
         {Request(sent + 1, FALSE, "add", NewContact([kind |-> "karin", name |-> "nick", payee |-> Min(Payee)]), {})}
    /\ UNCHANGED <<book, nextId, contacts, metadata, editing, actionLoading>>

OtherAnswered(r) ==
    /\ ~r.mine /\ r.phase = "done"
    /\ calls' = calls \ {r}
    /\ UNCHANGED <<book, nextId, contacts, metadata, editing, actionLoading, sent, alone>>

-----------------------------------------------------------------------------
(* The page.                                                               *)

ContactsListed(r) ==
    /\ r.op = "list"
    /\ contacts' = IF r.why = "ok" THEN r.answer ELSE contacts
    /\ calls' = calls \ {r}
    /\ UNCHANGED <<editing, actionLoading, sent>>

FetchMetadata ==
    /\ metadata = {}
    /\ metadata' \in (SUBSET {"merchant", "bank"}) \ {{}}
    /\ UNCHANGED <<book, nextId, contacts, editing, actionLoading, calls, sent, alone>>

(* What the form may hold on the tab of a kind: merchants and banks are    *)
(* chosen from the lists, and only a merchant may go without a name.       *)
IsFormValid(d) ==
    /\ d.payee # NoPayee
    /\ d.kind # "karin" => d.kind \in metadata
    /\ d.kind # "merchant" => d.name # NoName
Drafts == {d \in [kind : Kind, name : {NoName, "nick"}, payee : Payee \cup {NoPayee}] : IsFormValid(d)}

ContactName(d) == IF d.kind = "merchant" /\ d.name = NoName THEN "vendor" ELSE d.name

HandleAddContact ==
    /\ ~actionLoading
    /\ actionLoading' = TRUE
    /\ \E d \in Drafts : Send("add", NewContact([d EXCEPT !.name = ContactName(d)]))
    /\ UNCHANGED <<book, nextId, contacts, metadata, editing>>

(* On success the list is read again.                                      *)
ContactAdded(r) ==
    /\ r.op = "add"
    /\ actionLoading' = FALSE
    /\ calls' = (calls \ {r}) \cup
         (IF r.why = "ok" THEN {Request(r.n, TRUE, "list", AnyContact, {})} ELSE {})
    /\ UNCHANGED <<contacts, editing, sent>>

HandleDeleteContact ==
    /\ \E c \in contacts : editing # c.id /\ Send("delete", c)
    /\ UNCHANGED <<book, nextId, contacts, metadata, editing, actionLoading>>

(* contacts is the list of the time of the click.                          *)
ContactDeleted(r) ==
    /\ r.op = "delete"
    /\ contacts' = IF r.why = "ok" THEN {c \in r.captured : c.id # r.contact.id} ELSE contacts
    /\ calls' = calls \ {r}
    /\ UNCHANGED <<editing, actionLoading, sent>>

HandleStartEdit ==
    /\ \E c \in contacts : editing # c.id /\ editing' = c.id
    /\ UNCHANGED <<book, nextId, contacts, metadata, actionLoading, calls, sent, alone>>

HandleCancelEdit ==
    /\ editing # 0 /\ ~actionLoading
    /\ editing' = 0
    /\ UNCHANGED <<book, nextId, contacts, metadata, actionLoading, calls, sent, alone>>

(* Only the name and the email are sent, and the email may be empty.       *)
Edited(c) ==
    {[c EXCEPT !.name = "nick", !.payee = p] :
        p \in IF c.kind = "karin" THEN Payee \cup {NoPayee} ELSE {NoPayee}}

HandleSaveEdit ==
    /\ ~actionLoading
    /\ actionLoading' = TRUE
    /\ \E c \in contacts : c.id = editing /\ \E d \in Edited(c) : Send("edit", d)
    /\ UNCHANGED <<book, nextId, contacts, metadata, editing>>

ContactEdited(r) ==
    /\ r.op = "edit"
    /\ IF r.why = "ok"
       THEN /\ contacts' = {IF c.id = r.contact.id THEN CHOOSE d \in r.answer : TRUE ELSE c : c \in r.captured}
            /\ editing' = 0
       ELSE UNCHANGED <<contacts, editing>>
    /\ actionLoading' = FALSE
    /\ calls' = calls \ {r}
    /\ UNCHANGED sent

Answered(r) ==
    /\ r.mine /\ r.phase = "done"
    /\ ContactsListed(r) \/ ContactAdded(r) \/ ContactDeleted(r) \/ ContactEdited(r)
    /\ UNCHANGED <<book, nextId, metadata, alone>>

-----------------------------------------------------------------------------
Next ==
    \/ \E r \in calls : Serve(r) \/ Lost(r) \/ OtherAnswered(r) \/ Answered(r)
    \/ OtherPage
    \/ FetchMetadata
    \/ HandleAddContact \/ HandleDeleteContact
    \/ HandleStartEdit \/ HandleCancelEdit \/ HandleSaveEdit

Spec == Init /\ [][Next]_vars

(* Requests are served or lost, and answers are taken up.                  *)
FairSpec ==
    /\ Spec
    /\ WF_vars(\E r \in calls : Serve(r) \/ Lost(r))
    /\ WF_vars(\E r \in calls : OtherAnswered(r) \/ Answered(r))

-----------------------------------------------------------------------------
(* What the form lets through, the endpoint never finds incomplete.        *)
NeverIncomplete == \A r \in calls : r.mine => r.why # "incomplete"

(* Adding and saving go one at a time, and the buttons are disabled        *)
(* exactly while one of them is under way.                                 *)
OneAtATime ==
    LET changing == {r \in calls : r.mine /\ r.op \in {"add", "edit"}}
    IN  Cardinality(changing) = IF actionLoading THEN 1 ELSE 0

(* A page alone, that was answered every time before it asked again, shows *)
(* the book.                                                               *)
ShowsTheBook == alone /\ calls = {} => contacts = book
=============================================================================
