---------------------------- MODULE CheckDigits -----------------------------
(***************************************************************************)
(* The numbers the frontend checks as they are typed: ABA routing numbers  *)
(* (twice: lib/routingUtils.ts and lib/neobank/utils.ts), account numbers, *)
(* and the card numbers lib/neobank/cardGenerator.ts makes up.             *)
(*                                                                         *)
(* A number is a sequence of digits.  A person types a right number with   *)
(* at most one mistake: a wrong digit, two digits swapped, one left out or *)
(* one too many.                                                           *)
(***************************************************************************)
EXTENDS Integers, SequencesExt

CONSTANTS RoutingStart,  \* eight digits each
          AccountStart,  \* digits before the check digit
          CardStart      \* fifteen digits each

Digit == 0..9
Kind == {"routing", "mod9", "mod10", "card"}

-----------------------------------------------------------------------------
(* Routing numbers.                                                        *)

(* The loop over the weights 3, 7, 1.                                      *)
WeightedSum(d) ==
    3 * d[1] + 7 * d[2] + d[3] + 3 * d[4] + 7 * d[5] + d[6] + 3 * d[7] + 7 * d[8]

ComputeRoutingCheckDigit(d) == (10 - (WeightedSum(d) % 10)) % 10

(* 21-29, 30-32 and so on are taken for one district each.                 *)
GetFederalReserveDistrict(p) ==
    CASE p \in 0..12 -> IF p = 0 THEN 1 ELSE p
      [] p \in 21..29 -> 2
      [] p \in 30..32 -> 3
      [] p \in 61..69 -> 12
      [] p \in 70..72 -> 10
      [] p = 80 -> 8
      [] p \in 90..92 -> 12
      [] OTHER -> -1

Prefix(d) == 10 * d[1] + d[2]
AllZeros(d) == \A i \in 1..9 : d[i] = 0

ValidateRoutingNumber(d) ==
    /\ Len(d) = 9
    /\ ~AllZeros(d)
    /\ d[9] = ComputeRoutingCheckDigit(d)
    /\ GetFederalReserveDistrict(Prefix(d)) # -1

(* validateAbaRouting: the sum of all nine digits.                         *)
Checksum(d) ==
    3 * (d[1] + d[4] + d[7]) + 7 * (d[2] + d[5] + d[8]) + (d[3] + d[6] + d[9])
ValidateAbaRouting(d) == Len(d) = 9 /\ Checksum(d) % 10 = 0

(* The lookup map: twelve districts, and the same for thrifts; 0: none.    *)
DistrictOfMap(p) ==
    CASE p \in 1..12 -> p
      [] p \in 21..32 -> p - 20
      [] OTHER -> 0

-----------------------------------------------------------------------------
(* Account numbers.                                                        *)

DigitSum(d) == SumFunction(d)
ComputeMod9CheckDigit(d) == DigitSum(Front(d)) % 9
ComputeMod10CheckDigit(d) == (10 - (DigitSum(Front(d)) % 10)) % 10

DetectCheckMethod(d) ==
    {m \in {"mod9", "mod10"} :
        /\ Len(d) >= 2
        /\ Last(d) = IF m = "mod9" THEN ComputeMod9CheckDigit(d) ELSE ComputeMod10CheckDigit(d)}

ValidateAccountNumber(d, method) ==
    /\ Len(d) \in 4..17
    /\ CASE method = "none" -> TRUE
         [] method = "mod9" -> Last(d) = ComputeMod9CheckDigit(d)
         [] method = "mod10" -> Last(d) = ComputeMod10CheckDigit(d)

ValidateAccountPair(routing, source, destination) ==
    /\ ValidateRoutingNumber(routing)
    /\ ValidateAccountNumber(source, "none")
    /\ ValidateAccountNumber(destination, "none")
    /\ source # destination

(* formatAccountNumber: from the right, numbers of more than eight digits. *)
Groups(d) ==
    LET n == (Len(d) + 3) \div 4
        end(j) == Len(d) - 4 * (n - j)
    IN  IF Len(d) <= 8 THEN <<d>>
        ELSE [j \in 1..n |-> SubSeq(d, IF j = 1 THEN 1 ELSE end(j) - 3, end(j))]

-----------------------------------------------------------------------------
(* Card numbers: Luhn's check digit.                                       *)

Doubled(x) == IF 2 * x > 9 THEN 2 * x - 9 ELSE 2 * x

(* Of the digits without the check digit, the last one doubled.            *)
LuhnSum(d) ==
    SumFunction([i \in DOMAIN d |->
        IF (Len(d) - i) % 2 = 0 THEN Doubled(d[i]) ELSE d[i]])

GenerateVirtualCardNumber(d) == Append(d, (10 - (LuhnSum(d) % 10)) % 10)

(* What a card network checks: of sixteen digits, the odd ones doubled.    *)
PassesLuhn(d) ==
    /\ Len(d) = 16
    /\ SumFunction([i \in 1..16 |-> IF i % 2 = 1 THEN Doubled(d[i]) ELSE d[i]]) % 10 = 0

-----------------------------------------------------------------------------
VARIABLES kind,     \* of number
          intended, \* the right number
          typed,    \* what was typed
          mistake   \* "none", "digit", "swap", "missing", "extra", "more"

vars == <<kind, intended, typed, mistake>>

RightNumbers(k) ==
    CASE k = "routing" -> {Append(d, ComputeRoutingCheckDigit(d)) : d \in RoutingStart}
      [] k = "mod9" -> {Append(d, ComputeMod9CheckDigit(Append(d, 0))) : d \in AccountStart}
      [] k = "mod10" -> {Append(d, ComputeMod10CheckDigit(Append(d, 0))) : d \in AccountStart}
      [] k = "card" -> {GenerateVirtualCardNumber(d) : d \in CardStart}

Accepted(k, d) ==
    CASE k = "routing" -> ValidateAbaRouting(d)
      [] k = "card" -> PassesLuhn(d)
      [] OTHER -> k \in DetectCheckMethod(d)

TypeOK ==
    /\ kind \in Kind
    /\ intended \in Seq(Digit)
    /\ typed \in Seq(Digit)
    /\ mistake \in {"none", "digit", "swap", "missing", "extra"}
    /\ mistake = "none" => Accepted(kind, typed)

Init ==
    /\ kind \in Kind
    /\ intended \in RightNumbers(kind)
    /\ typed = intended
    /\ mistake = "none"

WrongDigit ==
    /\ mistake = "none"
    /\ mistake' = "digit"
    /\ \E i \in DOMAIN typed, x \in Digit :
         x # typed[i] /\ typed' = [typed EXCEPT ![i] = x]
    /\ UNCHANGED <<kind, intended>>

Swapped ==
    /\ mistake = "none"
    /\ mistake' = "swap"
    /\ \E i \in 1..(Len(typed) - 1) :
         typed' = [typed EXCEPT ![i] = typed[i + 1], ![i + 1] = typed[i]]
    /\ typed' # typed
    /\ UNCHANGED <<kind, intended>>

LeftOut ==
    /\ mistake = "none"
    /\ mistake' = "missing"
    /\ \E i \in DOMAIN typed : typed' = RemoveAt(typed, i)
    /\ UNCHANGED <<kind, intended>>

OneTooMany ==
    /\ mistake = "none"
    /\ mistake' = "extra"
    /\ \E i \in 1..(Len(typed) + 1), x \in Digit : typed' = InsertAt(typed, i, x)
    /\ UNCHANGED <<kind, intended>>

(* The mistake is noticed and corrected.                                   *)
Correct ==
    /\ mistake # "none"
    /\ mistake' = "none"
    /\ typed' = intended
    /\ UNCHANGED <<kind, intended>>

Next == WrongDigit \/ Swapped \/ LeftOut \/ OneTooMany \/ Correct

Spec == Init /\ [][Next]_vars

-----------------------------------------------------------------------------
(* One wrong digit is noticed in every kind of number (but a 0 typed for a *)
(* 9, or a 9 for a 0, where the check digit is the sum modulo nine).       *)
WrongDigitNoticed ==
    mistake = "digit" /\ kind # "mod9" => ~Accepted(kind, typed)

(* Two neighbours swapped are noticed in a routing number unless they      *)
(* differ by five, in a card number unless they are 0 and 9.               *)
SwapNoticed ==
    mistake = "swap" /\ kind \in {"routing", "card"} /\ Accepted(kind, typed) =>
        \E i \in 1..(Len(typed) - 1) :
            /\ typed[i] = intended[i + 1] /\ typed[i + 1] = intended[i]
            /\ (typed[i] - typed[i + 1]) \in
                  IF kind = "routing" THEN {-5, 5} ELSE {-9, 9}

(* The two checks of routing numbers agree on the check digit, the         *)
(* stricter one accepts nothing that the other refuses, and both find the  *)
(* district of a number of a bank.                                         *)
ChecksAgree ==
    Len(typed) = 9 =>
        /\ ValidateAbaRouting(typed) <=> typed[9] = ComputeRoutingCheckDigit(typed)
        /\ ValidateRoutingNumber(typed) => ValidateAbaRouting(typed)
        /\ Prefix(typed) \in 1..12 =>
               DistrictOfMap(Prefix(typed)) = GetFederalReserveDistrict(Prefix(typed))

(* A pair of accounts that is accepted names two accounts, and typing one  *)
(* of them wrong does not make it the other.                               *)
PairsDiffer ==
    \A d \in RoutingStart :
        ValidateAccountPair(Append(d, ComputeRoutingCheckDigit(d)), intended, typed)
            => mistake # "none"

(* The groups of an account number are its digits, in fours from the       *)
(* right.                                                                  *)
GroupedInFours ==
    /\ FlattenSeq(Groups(typed)) = typed
    /\ \A i \in 2..Len(Groups(typed)) : Len(Groups(typed)[i]) = 4
    /\ Len(Groups(typed)[1]) \in 1..(IF Len(typed) <= 8 THEN 8 ELSE 4)
=============================================================================
