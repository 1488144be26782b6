------------------------------ MODULE MCRecords -------------------------------
EXTENDS RecordScreens, TLC

NoneMalformed == {}
(* The second message of the activity topic.                               *)
SecondMalformed == {<<p, 1>> : p \in ActivityPartition}

Matches == ("none" :> 1..3) @@ ("odd" :> {1, 3})

Kinds == {"p2p", "internal", "bill", "deposit", "wire", "simulation"}
Blanks == {{}, {"side"}, {"side", "emails"}, {"side", "merchant"}, {"merchant", "emails"}}

(* A winter's night, a summer's noon and New Year's Eve, in half hours.    *)
Times == {40 * 48 + 5, 200 * 48 + 24, 365 * 48 - 1}

Routings == {<<0, 2, 1, a, 0, 0, b, 2>> : a, b \in {0, 5, 9}}
                \cup {<<2, 1, 9, 4, a, 0, 6, 8>> : a \in {1, 7}}
                \cup {<<1, 3, 5, 0, 9, 0, 4, 4>>, <<0, 0, 0, 0, 0, 0, 0, 0>>}
Accounts == {<<1, 0, 9>>, <<9, 0, 0, 5, 5>>, <<4, 4, 0, 1, 2, 3, 9, 9>>,
             <<1, 2, 3, 4, 5, 6, 7, 8, 9, 0, 9>>}
Cards == {<<4, 7, 9, 0, a, 9, 0, 9, 5, 1, 5, 6, 7, 8, b>> : a, b \in {0, 5, 9}}
===============================================================================
