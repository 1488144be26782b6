-------------------------------- MODULE Lists ---------------------------------
(* Lists of calls, rows and numbers.  The operators are those of           *)
(* SequencesExt, but for the last one.  What a module extends is copied    *)
(* into each instance of it, and SequencesExt extends bags and their       *)
(* theorems, which a proof about a dozen instances would carry along at    *)
(* every step.                                                             *)
EXTENDS Integers, Sequences, FiniteSets

ToSet(s) == {s[i] : i \in DOMAIN s}

RemoveAt(s, i) == SubSeq(s, 1, i - 1) \o SubSeq(s, i + 1, Len(s))

Reverse(s) == [i \in 1..Len(s) |-> s[Len(s) - i + 1]]

(* The numbers of a finite set, the smallest first.                        *)
Ascending(S) ==
    CHOOSE s \in [1..Cardinality(S) -> S] : \A i, j \in DOMAIN s : i < j => s[i] < s[j]
===============================================================================
