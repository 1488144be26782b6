------------------------------ MODULE MCCustomer ------------------------------
EXTENDS CustomerScreens, TLC

(* Two users share a masked email.                                         *)
MCMaskOf == <<"a", "a", "b">>
MCPagedMaskOf == [u \in PagedUser |-> "a"]

(* Days between payments: a "week" lasts two of them.                      *)
MCPeriod == ("Daily" :> 1) @@ ("Weekly" :> 2)

MCKind == <<"p2p", "vendor">>
MCLongKind == <<"p2p", "unknown">>

(* What is typed into the password form: a change of "old", one that was   *)
(* not repeated alike, one back again, and one that is too short.          *)
Typed(current, new, confirm) ==
    [current |-> current, new |-> new, confirm |-> confirm]
MCForm == {Typed("old", "new", "new"), Typed("old", "new", "other"),
           Typed("new", "old", "old"), Typed("old", "short", "short")}
===============================================================================
