---------------------------- MODULE ActivityLog ----------------------------
(***************************************************************************)
(* The customer's activity log: app/client/activity/page.tsx and the query *)
(* behind it (get_activity of backend/routers/dashboard.py).               *)
(*                                                                         *)
(* A change of the filter asks for the page at the offset of the old one,  *)
(* resets the offset, and asks again.  The query reads the events and then *)
(* their number; an error of the database is an empty log.                 *)
(***************************************************************************)
EXTENDS Lists, FiniteSetsExt

CONSTANTS Category,     \* of events, without "all"
          limit,        \* events per page
          InOrder,      \* answers come in the order of the calls
          Patient,      \* the customer turns pages when nothing is loading
          Faults,       \* calls and queries may fail
          MaxEvents, MaxActions, MaxFetches \* bounds

All == "all"

VARIABLES
    stored,   \* the events in the database, oldest first: their categories
    category, order, offset,  \* the query
    events,   \* displayed: positions in stored
    total, loading,
    fetches,  \* calls of fetchActivity under way, oldest first
    socket,
    shownFor, \* history: the query of what is displayed
    actions   \* of the customer so far

page == <<events, total, loading, shownFor>>
query == <<category, order, offset>>
vars == <<stored, page, query, fetches, socket, actions>>

Query == [category : {All} \cup Category, order : {"asc", "desc"}, offset : {limit * i : i \in 0..MaxActions}]
Current == [category |-> category, order |-> order, offset |-> offset]

TypeOK ==
    /\ Current \in Query
    /\ ToSet(stored) \subseteq Category /\ Len(stored) <= MaxEvents
    /\ ToSet(events) \subseteq 1..Len(stored) /\ Len(events) <= limit
    /\ total \in 0..MaxEvents /\ loading \in BOOLEAN
    /\ \A i \in DOMAIN fetches :
         /\ fetches[i].query \in Query
         /\ fetches[i].read \in BOOLEAN
         /\ ToSet(fetches[i].rows) \subseteq 1..Len(stored)
    /\ Len(fetches) <= MaxFetches + 1
    /\ socket \in {"connecting", "refused"}
    /\ shownFor \in Query

Fetch(q) == [query |-> q, read |-> FALSE, rows |-> <<>>]

Init ==
    /\ stored = <<>>
    /\ category = All /\ order = "desc" /\ offset = 0
    /\ events = <<>> /\ total = 0 /\ loading = TRUE
    /\ shownFor = Current
    /\ fetches = <<Fetch(Current)>>
    /\ socket = "connecting"
    /\ actions = 0

-----------------------------------------------------------------------------
(* The database.                                                           *)

Matching(q) ==
    LET found == Ascending({i \in DOMAIN stored : q.category \in {All, stored[i]}})
    IN IF q.order = "asc" THEN found ELSE Reverse(found)

(* Mutant: the query without its limit.                                    *)
Rows_Unlimited(q) == LET found == Matching(q) IN SubSeq(found, q.offset + 1, Len(found))
Rows(q) ==
    LET found == Matching(q)
    IN SubSeq(found, q.offset + 1, Min({q.offset + limit, Len(found)}))

StoreEvent ==
    /\ Len(stored) < MaxEvents
    /\ \E c \in Category : stored' = Append(stored, c)
    /\ UNCHANGED <<page, query, fetches, socket, actions>>

ReadRows(i) ==
    /\ ~fetches[i].read
    /\ fetches' = [fetches EXCEPT ![i].read = TRUE, ![i].rows = Rows(fetches[i].query)]
    /\ UNCHANGED <<stored, page, query, socket, actions>>

-----------------------------------------------------------------------------
(* The page.                                                               *)

Ask(qs) ==
    /\ Len(fetches) < MaxFetches
    /\ actions < MaxActions
    /\ actions' = actions + 1
    /\ fetches' = fetches \o qs
    /\ loading' = TRUE

AskedAfterChange(q) ==
    <<Fetch(q)>> \o (IF q.offset = 0 THEN <<>> ELSE <<Fetch([q EXCEPT !.offset = 0])>>)

ChangeFilter ==
    /\ \/ category' \in ({All} \cup Category) \ {category} /\ UNCHANGED order
       \/ order' \in {"asc", "desc"} \ {order} /\ UNCHANGED category
    /\ offset' = 0
    /\ Ask(AskedAfterChange([category |-> category', order |-> order', offset |-> offset]))
    /\ UNCHANGED <<stored, events, total, shownFor, socket>>

Refresh ==
    /\ Ask(<<Fetch(Current)>>)
    /\ UNCHANGED <<stored, query, events, total, shownFor, socket>>

(* The number of pages, from the last answer there was.                    *)
totalPages == (total + limit - 1) \div limit
currentPage == offset \div limit + 1

TurnPage ==
    /\ totalPages > 1
    /\ Patient => ~loading /\ fetches = <<>>
    /\ \/ currentPage > 1 /\ offset' = offset - limit
       \/ currentPage < totalPages /\ offset' = offset + limit
    /\ Ask(<<Fetch([Current EXCEPT !.offset = offset'])>>)
    /\ UNCHANGED <<stored, category, order, events, total, shownFor, socket>>

Answered(i) ==
    /\ i \in DOMAIN fetches
    /\ InOrder => i = 1
    /\ fetches' = RemoveAt(fetches, i)
    /\ UNCHANGED <<stored, query, socket, actions>>

Show(i, rows, n) ==
    /\ events' = rows /\ total' = n
    /\ shownFor' = fetches[i].query
    /\ loading' = FALSE

(* The number is read after the rows.                                      *)
Succeeds(i) ==
    /\ Answered(i)
    /\ fetches[i].read
    /\ Show(i, fetches[i].rows, Len(Matching(fetches[i].query)))

(* The endpoint catches the error.                                         *)
QueryFails(i) ==
    /\ Faults
    /\ Answered(i)
    /\ Show(i, <<>>, 0)

CallFails(i) ==
    /\ Faults
    /\ Answered(i)
    /\ loading' = FALSE
    /\ UNCHANGED <<events, total, shownFor>>

(* No route of the backend accepts /ws/activity, nothing is ever put in    *)
(* _ws_connections, and the page does not try again.                       *)
SocketRefused ==
    /\ socket = "connecting"
    /\ socket' = "refused"
    /\ UNCHANGED <<stored, page, query, fetches, actions>>

Next ==
    \/ StoreEvent \/ ChangeFilter \/ Refresh \/ TurnPage \/ SocketRefused
    \/ \E i \in DOMAIN fetches : ReadRows(i) \/ Succeeds(i) \/ QueryFails(i) \/ CallFails(i)

Spec == Init /\ [][Next]_vars

(* Calls end.                                                              *)
FairSpec ==
    /\ Spec
    /\ WF_vars(SocketRefused)
    /\ WF_vars(\E i \in DOMAIN fetches : ReadRows(i) \/ Succeeds(i) \/ QueryFails(i) \/ CallFails(i))

-----------------------------------------------------------------------------
(* With answers in order, what is displayed in the end is the page that is *)
(* asked for, although a change of the filter asks for two.                *)
ShownForQuery == fetches = <<>> => shownFor = Current

(* A customer who waits is not left on a page that does not exist.         *)
NotStranded == fetches = <<>> /\ offset > 0 => events # <<>>
=============================================================================
