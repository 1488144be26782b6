---------------------------- MODULE HistoryTables ----------------------------
(***************************************************************************)
(* The paged tables of the transfer page: RequestHistoryTable,             *)
(* ScheduledHistoryTable and RecentTransactionsTable of                    *)
(* components/transfers.  The three are one program but for the filter:    *)
(* only RecentTransactionsTable goes back to page 1 when it is changed.    *)
(* The page that owns a table replaces its rows whenever it has fetched.   *)
(***************************************************************************)
EXTENDS Lists, FiniteSetsExt

CONSTANTS MaxRows,       \* bound: rows a table has
          itemsPerPage,  \* 10 in the code
          Search         \* per text of the search box ("none" when it
                       \* is empty), the rows it matches

Table == {"requests", "scheduled", "recent"}

(* The buttons over each table; the first lets every row pass.             *)
Filters(t) ==
    CASE t = "requests" -> {"ALL", "PENDING", "APPROVED", "DECLINED"}
      [] t = "scheduled" -> {"ALL", "ACTIVE", "PAUSED", "CANCELLED"}
      [] t = "recent" -> {"all", "sent", "received"}

(* The statuses the backend gives a row, or the direction of a transfer.   *)
Statuses(t) ==
    CASE t = "requests" -> {"pending_target", "paid", "declined"}
      [] t = "scheduled" -> {"Active", "Cancelled"}
      [] t = "recent" -> {"sent", "other"}

VARIABLES
    table,        \* which of the three
    rows,         \* the statuses of the rows, newest first
    search, filter,
    currentPage,
    detail,       \* the status the detail modal displays, "none" when closed
    narrowed      \* history: something changed since a page was chosen

vars == <<table, rows, search, filter, currentPage, detail, narrowed>>

TypeOK ==
    /\ table \in Table
    /\ rows \in Seq(Statuses(table)) /\ Len(rows) <= MaxRows
    /\ search \in DOMAIN Search
    /\ filter \in Filters(table)
    /\ currentPage \in 1..(MaxRows + 1)
    /\ detail \in Statuses(table) \cup {"none"}
    /\ narrowed \in BOOLEAN

Init ==
    /\ table \in Table
    /\ rows = <<>>
    /\ search = "none"
    /\ filter \in Filters(table) \cap {"ALL", "all"}
    /\ currentPage = 1
    /\ detail = "none"
    /\ narrowed = FALSE

-----------------------------------------------------------------------------
(* The status of a request is compared as it is...                         *)
MatchesRequest(s) == filter \in {"ALL", s}

(* ... that of a schedule in upper case...                                 *)
MatchesScheduled(s) ==
    \/ filter = "ALL"
    \/ <<s, filter>> \in {<<"Active", "ACTIVE">>, <<"Cancelled", "CANCELLED">>}

(* ... and a transfer by its direction.                                    *)
MatchesTransfer(s) == filter = "all" \/ (filter = "sent") = (s = "sent")

MatchesStatus(s) ==
    CASE table = "requests" -> MatchesRequest(s)
      [] table = "scheduled" -> MatchesScheduled(s)
      [] table = "recent" -> MatchesTransfer(s)

(* filteredData: the positions of the rows that match, in order.           *)
FilteredData ==
    Ascending({i \in DOMAIN rows : i \in Search[search] /\ MatchesStatus(rows[i])})

TotalPages == (Len(FilteredData) + itemsPerPage - 1) \div itemsPerPage

(* paginatedData of a page: slice keeps inside the data.                   *)
Slice(p) ==
    SubSeq(FilteredData, (p - 1) * itemsPerPage + 1,
           Min({p * itemsPerPage, Len(FilteredData)}))

Displayed == ToSet(Slice(currentPage))

(* The page has fetched.                                                   *)
Refetch ==
    /\ \E n \in 0..MaxRows : rows' \in [1..n -> Statuses(table)]
    /\ narrowed' = TRUE
    /\ UNCHANGED <<table, search, filter, currentPage, detail>>

(* There are no controls over a table without rows.                        *)
TypeSearch ==
    /\ rows # <<>>
    /\ \E q \in DOMAIN Search : search' = q
    /\ narrowed' = TRUE
    /\ UNCHANGED <<table, rows, filter, currentPage, detail>>

ChooseFilter ==
    /\ rows # <<>>
    /\ \E f \in Filters(table) : filter' = f
    /\ IF table = "recent"
       THEN currentPage' = 1 /\ narrowed' = FALSE
       ELSE UNCHANGED currentPage /\ narrowed' = TRUE
    /\ UNCHANGED <<table, rows, search, detail>>

(* The numbered buttons, and the arrows at the ends of them.               *)
Paged == rows # <<>> /\ TotalPages > 1

GoTo(p) ==
    /\ currentPage' = p
    /\ narrowed' = FALSE
    /\ UNCHANGED <<table, rows, search, filter, detail>>

ChoosePage == Paged /\ \E i \in 1..TotalPages : GoTo(i)
Previous ==
    /\ Paged
    /\ currentPage # 1
    /\ currentPage' = currentPage - 1
    /\ UNCHANGED <<table, rows, search, filter, detail, narrowed>>
(* Disabled on the last page, and on no page beyond it.                    *)
NextPage ==
    /\ Paged
    /\ currentPage # TotalPages
    /\ currentPage <= MaxRows
    /\ currentPage' = currentPage + 1
    /\ UNCHANGED <<table, rows, search, filter, detail, narrowed>>

(* The modal keeps the row it was opened with.                             *)
ViewDetails ==
    /\ table # "recent"
    /\ \E i \in Displayed : detail' = rows[i]
    /\ UNCHANGED <<table, rows, search, filter, currentPage, narrowed>>

CloseDetails ==
    /\ detail # "none"
    /\ detail' = "none"
    /\ UNCHANGED <<table, rows, search, filter, currentPage, narrowed>>

(* The user picks another tab: the table is mounted anew.                  *)
ChangeTab ==
    /\ table' \in Table \ {table}
    /\ rows' = <<>>
    /\ search' = "none"
    /\ filter' \in Filters(table') \cap {"ALL", "all"}
    /\ currentPage' = 1
    /\ detail' = "none"
    /\ narrowed' = FALSE

Next == \/ Refetch \/ TypeSearch \/ ChooseFilter
        \/ ChoosePage \/ Previous \/ NextPage
        \/ ViewDetails \/ CloseDetails \/ ChangeTab

Spec == Init /\ [][Next]_vars

-----------------------------------------------------------------------------
(* The pages show every row that matches, each of them once.               *)
PagesPartition ==
    /\ UNION {ToSet(Slice(p)) : p \in 1..TotalPages} = ToSet(FilteredData)
    /\ \A p, q \in 1..TotalPages :
          p # q => ToSet(Slice(p)) \cap ToSet(Slice(q)) = {}

(* After a page was chosen (or the transfers were filtered), the arrows    *)
(* never lead out of the pages there are, until a search, a filter or a    *)
(* fetch changes the rows.                                                 *)
PageExists == ~narrowed => currentPage <= Max({1, TotalPages})
=============================================================================
