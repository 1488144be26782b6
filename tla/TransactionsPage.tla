------------------------- MODULE TransactionsPage --------------------------
(***************************************************************************)
(* The filtered list of transactions, app/client/transactions/page.tsx,    *)
(* and the endpoint it calls (get_transactions of                          *)
(* backend/routers/dashboard.py).                                          *)
(*                                                                         *)
(* Every change of a filter calls the endpoint; the list is replaced by    *)
(* whatever answer comes, and kept when there is none.                     *)
(***************************************************************************)
EXTENDS Lists

CONSTANTS Ranges,       \* numbers of days
          Custom,       \* what is typed as a number of days: some of Ranges, or "bad"
          Minima,       \* what is typed as an amount: "none", "whole", "fraction"
          InOrder,      \* answers come in the order of the calls
          Faults,       \* calls and queries may fail
          MaxChanges    \* bound

VARIABLES
    dayRange, txType, minAmount, sortAsc, \* the filter
    customDays,  \* typed and not yet applied, or Untyped
    shown,       \* the filter of the list displayed, NoList, or Emptied
    loading,
    calls,       \* under way: their filters, oldest first
    changes

filter == <<dayRange, txType, minAmount, sortAsc>>
vars == <<filter, customDays, shown, loading, calls, changes>>

Untyped == "none"
NoList == <<"none", "none", "none", FALSE>>
Emptied == <<"none", "none", "none", TRUE>>
Filters == Ranges \X {"all", "incoming", "outgoing"} \X Minima \X BOOLEAN

TypeOK ==
    /\ filter \in Filters
    /\ customDays \in Custom \cup {Untyped}
    /\ shown \in Filters \cup {NoList, Emptied}
    /\ shown[3] # "fraction"
    /\ loading \in BOOLEAN
    /\ ToSet(calls) \subseteq Filters
    /\ changes \in 0..MaxChanges

Init ==
    /\ dayRange = "1" /\ txType = "all" /\ minAmount = "none" /\ sortAsc = FALSE
    /\ customDays = Untyped
    /\ shown = NoList /\ loading = TRUE
    /\ calls = <<filter>>
    /\ changes = 0

-----------------------------------------------------------------------------
(* Mutant: the dependencies of the effect without the order.               *)
Depends_Unsorted == SubSeq(filter', 1, 3) # SubSeq(filter, 1, 3)
Depends == filter' # filter

(* The effect of a change of the filter, which may be none.                *)
Refetch ==
    /\ changes < MaxChanges
    /\ changes' = changes + 1
    /\ IF Depends
       THEN calls' = Append(calls, filter') /\ loading' = TRUE
       ELSE UNCHANGED <<calls, loading>>
    /\ UNCHANGED shown

ApplyPreset ==
    /\ dayRange' \in Ranges
    /\ customDays' = Untyped
    /\ UNCHANGED <<txType, minAmount, sortAsc>>
    /\ Refetch

TypeCustomDays ==
    /\ customDays' \in Custom \ {customDays}
    /\ changes < MaxChanges /\ changes' = changes + 1
    /\ UNCHANGED <<filter, shown, loading, calls>>

ApplyCustomDays ==
    /\ customDays \in Ranges
    /\ dayRange' = customDays
    /\ UNCHANGED <<txType, minAmount, sortAsc, customDays>>
    /\ Refetch

ChangeType ==
    /\ txType' \in {"all", "incoming", "outgoing"} \ {txType}
    /\ UNCHANGED <<dayRange, minAmount, sortAsc, customDays>>
    /\ Refetch

TypeAmount ==
    /\ minAmount' \in Minima \ {minAmount}
    /\ UNCHANGED <<dayRange, txType, sortAsc, customDays>>
    /\ Refetch

ToggleSort ==
    /\ sortAsc' = ~sortAsc
    /\ UNCHANGED <<dayRange, txType, minAmount, customDays>>
    /\ Refetch

(* The custom number of days stays in its field.                           *)
Reset ==
    /\ dayRange' = "1" /\ txType' = "all" /\ minAmount' = "none" /\ sortAsc' = FALSE
    /\ UNCHANGED customDays
    /\ Refetch

-----------------------------------------------------------------------------
Answered(i) ==
    /\ InOrder => i = 1
    /\ calls' = RemoveAt(calls, i)
    /\ UNCHANGED <<filter, customDays, changes>>

(* An amount that is no integer is refused.                                *)
Accepted(f) == f[3] # "fraction"

Succeeds(i) ==
    /\ Answered(i)
    /\ Accepted(calls[i])
    /\ shown' = calls[i]
    /\ loading' = FALSE

(* An error of ClickHouse is a list without transactions.                  *)
QueryFails(i) ==
    /\ Faults
    /\ Answered(i)
    /\ Accepted(calls[i])
    /\ shown' = Emptied
    /\ loading' = FALSE

(* No answer, or one that is not ok: the list stays.                       *)
Fails(i) ==
    /\ Faults \/ ~Accepted(calls[i])
    /\ Answered(i)
    /\ loading' = FALSE
    /\ UNCHANGED shown

CallEnds == \E i \in DOMAIN calls : Succeeds(i) \/ QueryFails(i) \/ Fails(i)

Next ==
    \/ ApplyPreset \/ TypeCustomDays \/ ApplyCustomDays \/ ChangeType
    \/ TypeAmount \/ ToggleSort \/ Reset
    \/ CallEnds

Spec == Init /\ [][Next]_vars

(* Calls end.                                                              *)
FairSpec == Spec /\ WF_vars(CallEnds)

-----------------------------------------------------------------------------
(* When nothing is under way and answers came in order, the list is that   *)
(* of the filter, however its parts were changed.                          *)
ShownForFilter == calls = <<>> => shown = filter
=============================================================================
