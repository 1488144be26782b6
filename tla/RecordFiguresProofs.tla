-------------------------- MODULE RecordFiguresProofs --------------------------
(***************************************************************************)
(* What is reckoned from the records adds up, for any records, amounts,    *)
(* times and numbers: the sums of the studio and the dashboard, the        *)
(* intervals of the charts, the headings of the feed, the check digits.    *)
(* At the end, with what RecordScreensProofs knows of the other screens,   *)
(* the types of all of them.                                               *)
(***************************************************************************)
EXTENDS RecordScreensProofs, Functions, FunctionTheorems, WellFoundedInduction

-----------------------------------------------------------------------------
(* Sums.                                                                   *)

(* Induction over the subsets of a finite set.                             *)
Grows(S, G) == \A T \in SUBSET S : (\A x \in T : T \ {x} \in G) => T \in G

(* What every subset has whose parts, one member smaller, have it, all     *)
(* have.                                                                   *)
LEMMA SubsetsGrow ==
    ASSUME NEW S, IsFiniteSet(S), NEW G, Grows(S, G)
    PROVE  SUBSET S \subseteq G
<1> DEFINE Bad == {T \in SUBSET S : T \notin G}
<1>1. IsWellFoundedOn(StrictSubsetOrdering(S), SUBSET S)
  BY FS_StrictSubsetOrderingWellFounded, FS_FiniteSubsetsOfFinite
<1>2. SUFFICES ASSUME Bad # {} PROVE FALSE
  OBVIOUS
<1>3. PICK T \in Bad : \A U \in Bad : <<U, T>> \notin StrictSubsetOrdering(S)
  <2>1. Bad \subseteq SUBSET S
    OBVIOUS
  <2> HIDE DEF Bad
  <2>2. QED
    BY <1>1, <1>2, <2>1, WFMin
<1>4. ASSUME NEW x \in T PROVE T \ {x} \in G
  <2>1. <<T \ {x}, T>> \in StrictSubsetOrdering(S)
    BY <1>4 DEF StrictSubsetOrdering
  <2>2. QED
    BY <1>3, <2>1
<1>5. QED
  BY <1>3, <1>4 DEF Grows

(* A set of numbers has a smallest.                                        *)
LEMMA Smallest ==
    ASSUME NEW N \in SUBSET Nat, N # {}
    PROVE  \E n \in N : \A m \in N : n <= m
<1>1. PICK t \in N : TRUE
  OBVIOUS
<1> DEFINE S == {n \in N : n <= t}
           G == {T \in SUBSET S : T # {} => \E n \in T : \A m \in T : n <= m}
<1>2. IsFiniteSet(S)
  BY FS_BoundedSetOfNaturals
<1>3. ASSUME NEW T \in SUBSET S, \A x \in T : T \ {x} \in G PROVE T \in G
  <2>1. CASE T = {}
    BY <2>1
  <2>2. ASSUME NEW x \in T PROVE T \in G
    <3>1. CASE T = {x}
      BY <3>1
    <3>2. CASE T \ {x} # {}
      <4>1. PICK n \in T \ {x} : \A m \in T \ {x} : n <= m
        BY <1>3, <3>2
      <4>2. n <= x \/ x <= n
        OBVIOUS
      <4>3. QED
        BY <4>1, <4>2
    <3>3. QED
      BY <3>1, <3>2
  <2>3. QED
    BY <2>1, <2>2
<1>4. S \in G
  <2> HIDE DEF S, G
  <2>1. SUBSET S \subseteq G
    <3>1. Grows(S, G)
      BY <1>3 DEF Grows
    <3>2. QED
      BY <1>2, <3>1, SubsetsGrow
  <2>2. QED
    BY <2>1
<1>5. PICK n \in S : \A m \in S : n <= m
  BY <1>4
<1>6. QED
  BY <1>5

(* Induction over the numbers.                                             *)
LEMMA NumbersGrow ==
    ASSUME NEW G, 0 \in G, \A n \in Nat : n \in G => n + 1 \in G
    PROVE  Nat \subseteq G
<1>1. SUFFICES ASSUME Nat \ G # {} PROVE FALSE
  OBVIOUS
<1>2. PICK n \in Nat \ G : \A m \in Nat \ G : n <= m
  BY <1>1, Smallest
<1>3. n # 0 /\ n - 1 \in Nat /\ ~(n <= n - 1) /\ (n - 1) + 1 = n
  BY <1>2
<1>4. QED
  BY <1>2, <1>3

(* Numbers that can be summed.                                             *)
Finite(f, D) == IsFiniteSet(D) /\ \A x \in D : f[x] \in Int

(* What a sum is: totals holds that of every set of indices.               *)
Takes(f, D, totals) ==
    /\ totals \in [SUBSET D -> Int]
    /\ \A S \in SUBSET D :
         totals[S] = IF S = {} THEN 0
                    ELSE f[CHOOSE x \in S : TRUE] + totals[S \ {CHOOSE x \in S : TRUE}]

(* The sum is the total of such a function.                                *)
LEMMA SumIsTaken ==
    ASSUME NEW D, NEW f, Finite(f, D)
    PROVE  \E totals : Takes(f, D, totals) /\ SumFunctionOnSet(f, D) = totals[D]
<1> DEFINE c(S) == CHOOSE x \in S : TRUE
           Rule(g, S) == IF S = {} THEN 0 ELSE f[c(S)] + g[S \ {c(S)}]
           Good(n) == \E g \in [SUBSET D -> Int] :
                         \A S \in SUBSET D : Cardinality(S) <= n => g[S] = Rule(g, S)
           G == {n \in Nat : Good(n)}
<1>0. IsFiniteSet(D) /\ \A x \in D : f[x] \in Int
  BY DEF Finite
<1>1. \A S \in SUBSET D : IsFiniteSet(S) /\ Cardinality(S) \in Nat /\ Cardinality(S) <= Cardinality(D)
  BY <1>0, FS_Subset, FS_CardinalityType
<1>2. \A S \in SUBSET D : S # {} => /\ c(S) \in S /\ S \ {c(S)} \in SUBSET D
                                    /\ Cardinality(S \ {c(S)}) = Cardinality(S) - 1
  BY <1>1, FS_RemoveElement
<1> HIDE DEF c
<1>a. \A g \in [SUBSET D -> Int], S \in SUBSET D : Rule(g, S) \in Int
  <2> SUFFICES ASSUME NEW g \in [SUBSET D -> Int], NEW S \in SUBSET D PROVE Rule(g, S) \in Int
    OBVIOUS
  <2>1. CASE S = {}
    BY <2>1
  <2>2. CASE S # {}
    <3>1. f[c(S)] \in Int /\ g[S \ {c(S)}] \in Int
      BY <1>0, <1>2, <2>2
    <3>2. QED
      BY <2>2, <3>1
  <2>3. QED
    BY <2>1, <2>2
<1>3. 0 \in G
  <2> DEFINE g == [S \in SUBSET D |-> 0]
  <2>1. \A S \in SUBSET D : Cardinality(S) <= 0 => S = {}
    BY <1>1, FS_EmptySet
  <2>2. g \in [SUBSET D -> Int] /\ \A S \in SUBSET D : Cardinality(S) <= 0 => g[S] = Rule(g, S)
    BY <2>1
  <2>3. QED
    BY <2>2
<1>4. ASSUME NEW n \in Nat, n \in G PROVE n + 1 \in G
  <2>1. PICK g \in [SUBSET D -> Int] : \A S \in SUBSET D : Cardinality(S) <= n => g[S] = Rule(g, S)
    BY <1>4
  <2> DEFINE h == [S \in SUBSET D |-> Rule(g, S)]
  <2>3. h \in [SUBSET D -> Int]
    BY <1>a
  <2>4. ASSUME NEW S \in SUBSET D, Cardinality(S) <= n + 1 PROVE h[S] = Rule(h, S)
    <3>1. CASE S = {}
      BY <3>1
    <3>2. CASE S # {}
      <4>1. Cardinality(S \ {c(S)}) <= n
        BY <1>1, <1>2, <2>4, <3>2
      <4>2. g[S \ {c(S)}] = h[S \ {c(S)}]
        BY <1>2, <2>1, <3>2, <4>1
      <4>3. QED
        BY <4>2
    <3>3. QED
      BY <3>1, <3>2
  <2> HIDE DEF h
  <2>5. Good(n + 1)
    BY <2>3, <2>4
  <2>6. QED
    <3> HIDE DEF Good
    <3>1. QED
      BY <2>5
<1>5. Cardinality(D) \in G
  <2> HIDE DEF G
  <2>1. Nat \subseteq G
    BY <1>3, <1>4, NumbersGrow
  <2>2. QED
    BY <1>1, <2>1
<1>6. PICK g \in [SUBSET D -> Int] : \A S \in SUBSET D : g[S] = Rule(g, S)
  BY <1>1, <1>5
<1> DEFINE iter == CHOOSE h : h = [S \in SUBSET D |-> Rule(h, S)]
<1>7. PICK totals : totals = iter /\ totals = [S \in SUBSET D |-> Rule(totals, S)]
  <2>1. iter = [S \in SUBSET D |-> Rule(iter, S)]
    BY <1>6
  <2> HIDE DEF iter
  <2>2. QED
    BY <2>1
<1>8. SumFunctionOnSet(f, D) = totals[D]
  BY <1>7 DEF SumFunctionOnSet, FoldFunctionOnSet, MapThenFoldSet, c
<1> HIDE DEF iter
<1>9. \A S \in SUBSET D : totals[S] \in Int
  <2> DEFINE I == {S \in SUBSET D : totals[S] \in Int}
  <2>1. ASSUME NEW S \in SUBSET D, \A x \in S : S \ {x} \in I PROVE S \in I
    <3>1. CASE S = {}
      BY <1>7, <3>1
    <3>2. CASE S # {}
      <4>1. c(S) \in S
        BY <1>2, <3>2
      <4>2. f[c(S)] \in Int /\ totals[S \ {c(S)}] \in Int
        BY <1>0, <2>1, <4>1
      <4>3. totals[S] = f[c(S)] + totals[S \ {c(S)}]
        BY <1>7, <3>2
      <4>4. QED
        BY <4>2, <4>3
    <3>3. QED
      BY <3>1, <3>2
  <2> HIDE DEF I
  <2>2. SUBSET D \subseteq I
    <3>1. Grows(D, I)
      BY <2>1 DEF Grows
    <3>2. QED
      BY <1>0, <3>1, SubsetsGrow
  <2>3. QED
    BY <2>2 DEF I
<1>10. Takes(f, D, totals)
  BY <1>7, <1>9 DEF Takes, c
<1>11. QED
  BY <1>8, <1>10

(* There is one such totals only.                                           *)
LEMMA OneTotal ==
    ASSUME NEW D, IsFiniteSet(D), NEW f, NEW t, NEW E, NEW u,
           Takes(f, D, t), Takes(f, E, u), E \subseteq D
    PROVE  \A S \in SUBSET E : t[S] = u[S]
<1> DEFINE G == {S \in SUBSET E : t[S] = u[S]}
           c(S) == CHOOSE x \in S : TRUE
<1>1. ASSUME NEW S \in SUBSET E, \A x \in S : S \ {x} \in G PROVE S \in G
  <2>1. S # {} => c(S) \in S
    OBVIOUS
  <2> HIDE DEF c
  <2>2. S # {} => t[S \ {c(S)}] = u[S \ {c(S)}]
    BY <1>1, <2>1
  <2>3. QED
    BY <2>2 DEF Takes, c
<1> HIDE DEF G
<1>2. IsFiniteSet(E)
  BY FS_Subset
<1>3. Grows(E, G)
  BY <1>1 DEF Grows
<1>4. SUBSET E \subseteq G
  BY <1>2, <1>3, SubsetsGrow
<1>5. QED
  BY <1>4 DEF G

(* Any index may be taken first.                                           *)
TakesAny(f, D, totals) ==
    \A S \in SUBSET D : \A x \in S : totals[S] = f[x] + totals[S \ {x}]

(* The total does not depend on the order.                                 *)
LEMMA AnyFirst ==
    ASSUME NEW D, NEW f, Finite(f, D), NEW totals, Takes(f, D, totals)
    PROVE  TakesAny(f, D, totals)
<1> DEFINE G == {S \in SUBSET D : \A x \in S : totals[S] = f[x] + totals[S \ {x}]}
<1>0. /\ IsFiniteSet(D) /\ \A x \in D : f[x] \in Int
      /\ \A S \in SUBSET D : totals[S] \in Int
  BY DEF Takes, Finite
<1>1. ASSUME NEW S \in SUBSET D, \A y \in S : S \ {y} \in G, NEW x \in S
      PROVE  totals[S] = f[x] + totals[S \ {x}]
  <2> DEFINE c == CHOOSE y \in S : TRUE
  <2>1. c \in S
    OBVIOUS
  <2>2. totals[S] = f[c] + totals[S \ {c}]
    BY DEF Takes
  <2> HIDE DEF c
  <2>3. CASE x = c
    BY <2>2, <2>3
  <2>4. CASE x # c
    <3> DEFINE rest == S \ {c, x}
    <3>1. totals[S \ {c}] = f[x] + totals[rest]
      <4>1. (S \ {c}) \ {x} = rest
        OBVIOUS
      <4> HIDE DEF rest
      <4>2. QED
        BY <1>1, <2>1, <2>4, <4>1
    <3>2. totals[S \ {x}] = f[c] + totals[rest]
      <4>1. (S \ {x}) \ {c} = rest
        OBVIOUS
      <4> HIDE DEF rest
      <4>2. QED
        BY <1>1, <2>1, <2>4, <4>1
    <3>3. rest \in SUBSET D
      OBVIOUS
    <3> HIDE DEF rest
    <3>4. f[x] \in Int /\ f[c] \in Int /\ totals[rest] \in Int
      BY <1>0, <2>1, <3>3
    <3>5. QED
      BY <2>2, <3>1, <3>2, <3>3, <3>4
  <2>5. QED
    BY <2>3, <2>4
<1>2. Grows(D, G)
  BY <1>1 DEF Grows
<1> HIDE DEF G
<1>3. SUBSET D \subseteq G
  BY <1>0, <1>2, SubsetsGrow
<1>4. QED
  BY <1>3 DEF G, TakesAny

(* Hence a sum over a set is any of its members and the sum of the rest.   *)
LEMMA Summed ==
    ASSUME NEW D, NEW f, Finite(f, D)
    PROVE  /\ SumFunctionOnSet(f, {}) = 0
           /\ \A S \in SUBSET D : SumFunctionOnSet(f, S) \in Int
           /\ \A S \in SUBSET D : \A x \in S :
                SumFunctionOnSet(f, S) = f[x] + SumFunctionOnSet(f, S \ {x})
<1>1. PICK totals : Takes(f, D, totals)
  BY SumIsTaken
<1>2. ASSUME NEW S \in SUBSET D PROVE SumFunctionOnSet(f, S) = totals[S]
  <2>1. Finite(f, S) /\ IsFiniteSet(D)
    BY FS_Subset DEF Finite
  <2>2. PICK t : Takes(f, S, t) /\ SumFunctionOnSet(f, S) = t[S]
    BY <2>1, SumIsTaken
  <2>3. QED
    BY <1>1, <2>1, <2>2, OneTotal
<1>3. totals[{}] = 0 /\ \A S \in SUBSET D : totals[S] \in Int
  BY <1>1 DEF Takes
<1>4. \A S \in SUBSET D : \A x \in S : totals[S] = f[x] + totals[S \ {x}]
  <2>1. TakesAny(f, D, totals)
    BY <1>1, AnyFirst
  <2>2. QED
    BY <2>1 DEF TakesAny
<1>5. \A S \in SUBSET D : \A x \in S : S \ {x} \in SUBSET D
  OBVIOUS
<1>6. {} \in SUBSET D
  OBVIOUS
<1>7. QED
  BY <1>2, <1>3, <1>4, <1>5, <1>6

(* Numbers that agree have the same sum.                                   *)
LEMMA SumSame ==
    ASSUME NEW D, NEW f, NEW g, Finite(f, D), \A x \in D : f[x] = g[x]
    PROVE  SumFunctionOnSet(f, D) = SumFunctionOnSet(g, D)
<1>1. Finite(g, D) /\ IsFiniteSet(D)
  BY DEF Finite
<1>2. PICK t : Takes(f, D, t) /\ SumFunctionOnSet(f, D) = t[D]
  BY SumIsTaken
<1>3. Takes(g, D, t)
  BY <1>2 DEF Takes
<1>4. PICK u : Takes(g, D, u) /\ SumFunctionOnSet(g, D) = u[D]
  BY <1>1, SumIsTaken
<1>5. QED
  BY <1>1, <1>2, <1>3, <1>4, OneTotal

(* The sum over two sets that have nothing in common.                      *)
LEMMA SumUnion ==
    ASSUME NEW D, NEW f, Finite(f, D), NEW A \in SUBSET D, NEW B \in SUBSET D,
           A \cap B = {}
    PROVE  SumFunctionOnSet(f, A \cup B) = SumFunctionOnSet(f, A) + SumFunctionOnSet(f, B)
<1> DEFINE Sum(S) == SumFunctionOnSet(f, S)
           G == {T \in SUBSET B : Sum(A \cup T) = Sum(A) + Sum(T)}
<1>1. /\ Sum({}) = 0
      /\ \A S \in SUBSET D : Sum(S) \in Int
      /\ \A S \in SUBSET D : \A x \in S : Sum(S) = f[x] + Sum(S \ {x})
  BY Summed
<1> HIDE DEF Sum
<1>2. ASSUME NEW T \in SUBSET B, \A x \in T : T \ {x} \in G PROVE T \in G
  <2>1. CASE T = {}
    <3>1. A \cup T = A
      BY <2>1
    <3>2. Sum(A \cup T) = Sum(A) + Sum(T)
      BY <1>1, <2>1, <3>1
    <3>3. QED
      BY <3>2
  <2>2. ASSUME NEW x \in T PROVE T \in G
    <3> DEFINE R == T \ {x}
    <3>1. (A \cup T) \ {x} = A \cup R /\ x \in A \cup T
      BY <2>2
    <3>2. A \cup T \in SUBSET D /\ A \cup R \in SUBSET D /\ T \in SUBSET D /\ R \in SUBSET D
      OBVIOUS
    <3>3. Sum(A \cup T) = f[x] + Sum(A \cup R)
      <4> DEFINE U == A \cup T
                 V == A \cup R
      <4>1. U \in SUBSET D /\ x \in U /\ U \ {x} = V
        BY <3>1, <3>2
      <4> HIDE DEF U, V
      <4>2. Sum(U) = f[x] + Sum(V)
        BY <1>1, <4>1
      <4>3. QED
        BY <4>2 DEF U, V
    <3>4. Sum(T) = f[x] + Sum(R)
      BY <1>1, <3>2
    <3>5. Sum(A \cup R) = Sum(A) + Sum(R)
      BY <1>2
    <3>6. f[x] \in Int /\ Sum(A) \in Int /\ Sum(R) \in Int
      BY <1>1, <3>2 DEF Finite
    <3> HIDE DEF R
    <3>7. Sum(A \cup T) = Sum(A) + Sum(T)
      BY <3>3, <3>4, <3>5, <3>6
    <3>8. QED
      BY <3>7
  <2>3. QED
    BY <2>1, <2>2
<1>3. IsFiniteSet(B)
  BY FS_Subset DEF Finite
<1>4. Grows(B, G)
  BY <1>2 DEF Grows
<1> HIDE DEF G
<1>5. SUBSET B \subseteq G
  BY <1>3, <1>4, SubsetsGrow
<1>6. Sum(A \cup B) = Sum(A) + Sum(B)
  BY <1>5 DEF G
<1>7. QED
  BY <1>6 DEF Sum

(* A sum of what is not negative is not, and one of nothing is nothing.    *)
LEMMA SumNat ==
    ASSUME NEW D, IsFiniteSet(D), NEW f, \A x \in D : f[x] \in Nat
    PROVE  /\ SumFunctionOnSet(f, D) \in Nat
           /\ (\A x \in D : f[x] = 0) => SumFunctionOnSet(f, D) = 0
<1> DEFINE Sum(S) == SumFunctionOnSet(f, S)
           G == {T \in SUBSET D : Sum(T) \in Nat /\ ((\A x \in D : f[x] = 0) => Sum(T) = 0)}
<1>0. Finite(f, D)
  BY DEF Finite
<1>1. /\ Sum({}) = 0
      /\ \A S \in SUBSET D : Sum(S) \in Int
      /\ \A S \in SUBSET D : \A x \in S : Sum(S) = f[x] + Sum(S \ {x})
  BY <1>0, Summed
<1> HIDE DEF Sum
<1>2. ASSUME NEW T \in SUBSET D, \A x \in T : T \ {x} \in G PROVE T \in G
  <2>1. CASE T = {}
    BY <1>1, <2>1
  <2>2. ASSUME NEW x \in T PROVE T \in G
    <3>1. Sum(T) = f[x] + Sum(T \ {x}) /\ f[x] \in Nat
      BY <1>1
    <3>2. Sum(T \ {x}) \in Nat /\ ((\A y \in D : f[y] = 0) => Sum(T \ {x}) = 0 /\ f[x] = 0)
      BY <1>2
    <3>3. QED
      BY <3>1, <3>2
  <2>3. QED
    BY <2>1, <2>2
<1>4. Grows(D, G)
  BY <1>2 DEF Grows
<1> HIDE DEF G
<1>5. SUBSET D \subseteq G
  BY <1>4, SubsetsGrow
<1>6. D \in G
  BY <1>5
<1>7. QED
  BY <1>6 DEF G, Sum

(* What is summed part by part adds up to the whole.                       *)
PartsOf(f, part, P, S) == [p \in P |-> SumFunctionOnSet(f, {x \in S : part[x] = p})]

(* Each index is in one part.                                              *)
LEMMA SumParts ==
    ASSUME NEW D, NEW f, Finite(f, D), NEW P, IsFiniteSet(P), NEW part \in [D -> P]
    PROVE  SumFunctionOnSet(PartsOf(f, part, P, D), P) = SumFunctionOnSet(f, D)
<1> DEFINE Sum(S) == SumFunctionOnSet(f, S)
           of(S, p) == {x \in S : part[x] = p}
           parts(S) == PartsOf(f, part, P, S)
           totals(S) == SumFunctionOnSet(parts(S), P)
           G == {T \in SUBSET D : totals(T) = Sum(T)}
<1>1. /\ Sum({}) = 0
      /\ \A S \in SUBSET D : Sum(S) \in Int
      /\ \A S \in SUBSET D : \A x \in S : Sum(S) = f[x] + Sum(S \ {x})
  BY Summed
<1>2. \A S : \A p \in P : parts(S)[p] = Sum(of(S, p))
  BY DEF PartsOf
<1> HIDE DEF Sum, parts
<1>3. \A S \in SUBSET D : \A p \in P : parts(S)[p] \in Int
  <2>1. \A S \in SUBSET D : \A p \in P : of(S, p) \in SUBSET D
    OBVIOUS
  <2> HIDE DEF of
  <2>2. QED
    BY <1>1, <1>2, <2>1
<1>4. \A S \in SUBSET D : Finite(parts(S), P)
  BY <1>3 DEF Finite
<1>5. ASSUME NEW T \in SUBSET D, \A x \in T : T \ {x} \in G PROVE T \in G
  <2>1. CASE T = {}
    <3>1. \A p \in P : parts(T)[p] = 0
      <4>1. \A p \in P : of(T, p) = {}
        BY <2>1
      <4>2. QED
        BY <1>1, <1>2, <4>1
    <3>2. totals(T) = 0
      BY <3>1, SumNat
    <3>3. QED
      BY <1>1, <2>1, <3>2
  <2>2. ASSUME NEW x \in T PROVE T \in G
    <3> DEFINE R == T \ {x}
               q == part[x]
    <3>0. R \in SUBSET D /\ q \in P /\ x \in D
      OBVIOUS
    <3>1. \A p \in P \ {q} : of(T, p) = of(R, p)
      OBVIOUS
    <3>2. \A p \in P \ {q} : parts(T)[p] = parts(R)[p]
      BY <1>2, <3>1
    <3>3. parts(T)[q] = f[x] + parts(R)[q]
      <4>1. of(T, q) \in SUBSET D /\ x \in of(T, q) /\ of(T, q) \ {x} = of(R, q)
        BY <3>0
      <4>2. Sum(of(T, q)) = f[x] + Sum(of(R, q))
        <5> DEFINE U == of(T, q)
                   V == of(R, q)
        <5>1. U \in SUBSET D /\ x \in U /\ U \ {x} = V
          BY <4>1
        <5> HIDE DEF U, V
        <5>2. Sum(U) = f[x] + Sum(V)
          BY <1>1, <5>1
        <5>3. QED
          BY <5>2 DEF U, V
      <4>3. QED
        BY <1>2, <3>0, <4>2
    <3> HIDE DEF R, q, of
    <3>4. SumFunctionOnSet(parts(T), P \ {q}) = SumFunctionOnSet(parts(R), P \ {q})
      <4>1. Finite(parts(T), P \ {q})
        <5>1. IsFiniteSet(P \ {q})
          BY FS_Subset
        <5>2. QED
          BY <1>3, <5>1 DEF Finite
      <4>2. QED
        BY <3>2, <4>1, SumSame
    <3>5. /\ totals(T) = parts(T)[q] + SumFunctionOnSet(parts(T), P \ {q})
          /\ totals(R) = parts(R)[q] + SumFunctionOnSet(parts(R), P \ {q})
          /\ SumFunctionOnSet(parts(R), P \ {q}) \in Int
      <4>1. P \in SUBSET P /\ P \ {q} \in SUBSET P
        OBVIOUS
      <4>2. Finite(parts(T), P) /\ Finite(parts(R), P)
        BY <1>4, <3>0
      <4>3. QED
        BY <3>0, <4>1, <4>2, Summed
    <3>6. totals(R) = Sum(R) /\ Sum(T) = f[x] + Sum(R)
      BY <1>1, <1>5 DEF R
    <3>7. f[x] \in Int /\ Sum(R) \in Int /\ parts(R)[q] \in Int
      BY <1>1, <1>3, <3>0 DEF Finite
    <3> HIDE DEF totals
    <3>8. totals(T) = Sum(T)
      BY <3>3, <3>4, <3>5, <3>6, <3>7
    <3>9. QED
      BY <3>8
  <2>3. QED
    BY <2>1, <2>2
<1>6. Grows(D, G)
  BY <1>5 DEF Grows
<1> HIDE DEF G
<1>7. SUBSET D \subseteq G
  BY <1>6, SubsetsGrow DEF Finite
<1>8. D \in G
  BY <1>7
<1>9. QED
  BY <1>8 DEF G, Sum, parts

-----------------------------------------------------------------------------
(* Analytics.                                                              *)

(* What the bank has booked of the customer and told ClickHouse, and what  *)
(* the page has: money comes in by transfers and deposits only, ClickHouse *)
(* is told of a failure of what failed and of nothing else, and the page   *)
(* has a movement as it was booked, with a status that was told.           *)
Movement == Analytics!Record
Directed(r) ==
    /\ r.leg = "CREDIT" => r.kind \in {"p2p", "internal", "deposit"}
    /\ r.leg = "DEBIT" => r.kind # "deposit"
Truly(r, S) == IF r.status = "failed" THEN S \subseteq {"failed"} ELSE "failed" \notin S
Alike(q, r) ==
    q.kind = r.kind /\ q.leg = r.leg /\ q.blank = r.blank /\ q.cents = r.cents
Movements(txs) == IsFiniteSet(DOMAIN txs) /\ \A i \in DOMAIN txs : txs[i] \in Movement
BankInv ==
    /\ booked \in Seq(Movement)
    /\ told \in Seq(SUBSET Analytics!Status) /\ Len(told) = Len(booked)
    /\ \A i \in DOMAIN booked : Directed(booked[i]) /\ Truly(booked[i], told[i])
WorkerInv == heard \in 0..Len(booked) /\ (heard # 0 => booked[heard].status # "failed")
PageInv ==
    /\ DOMAIN fetched \subseteq DOMAIN booked
    /\ \A i \in DOMAIN fetched :
        fetched[i] \in Movement /\ Alike(fetched[i], booked[i]) /\ fetched[i].status \in told[i]
AnalyticsInv == BankInv /\ WorkerInv /\ PageInv

(* At first there is nothing.                                              *)
LEMMA AnalyticsInit == Analytics!Init => AnalyticsInv
<1> SUFFICES ASSUME Analytics!Init PROVE AnalyticsInv
  OBVIOUS
<1>1. booked = <<>> /\ told = <<>> /\ heard = 0 /\ fetched = <<>>
  BY DEF Analytics!Init
<1>2. BankInv
  BY <1>1 DEF BankInv
<1>3. WorkerInv
  BY <1>1 DEF WorkerInv
<1>4. PageInv
  BY <1>1 DEF PageInv
<1>5. QED
  BY <1>2, <1>3, <1>4 DEF AnalyticsInv

(* The numbers of the movements.                                           *)
LEMMA Numbered ==
    ASSUME BankInv
    PROVE  /\ Len(booked) \in Nat /\ DOMAIN booked = 1..Len(booked)
           /\ DOMAIN told = DOMAIN booked
           /\ \A i \in DOMAIN booked : /\ booked[i] \in Movement
                                       /\ told[i] \in SUBSET Analytics!Status
<1>1. booked \in Seq(Movement) /\ told \in Seq(SUBSET Analytics!Status) /\ Len(told) = Len(booked)
  BY DEF BankInv
<1> DEFINE T == SUBSET Analytics!Status
<1>2. told \in Seq(T)
  BY <1>1
<1> HIDE DEF T
<1>3. DOMAIN told = 1..Len(told) /\ \A i \in DOMAIN told : told[i] \in T
  BY <1>2
<1>4. Len(booked) \in Nat /\ DOMAIN booked = 1..Len(booked)
      /\ \A i \in DOMAIN booked : booked[i] \in Movement
  BY <1>1
<1>5. QED
  BY <1>1, <1>3, <1>4 DEF T

(* Legs are booked at the end.                                             *)
LEMMA LegsBooked ==
    ASSUME AnalyticsInv, NEW legs \in Seq(Movement),
           NEW news \in Seq(SUBSET Analytics!Status), Len(news) = Len(legs),
           \A i \in DOMAIN legs : Directed(legs[i]) /\ Truly(legs[i], news[i]),
           booked' = booked \o legs, told' = told \o news, UNCHANGED <<heard, fetched>>
    PROVE  AnalyticsInv'
<1> DEFINE T == SUBSET Analytics!Status
<1>1. /\ booked \in Seq(Movement) /\ told \in Seq(T)
      /\ Len(told) = Len(booked) /\ BankInv /\ WorkerInv /\ PageInv
  BY DEF AnalyticsInv, BankInv
<1>a. news \in Seq(T)
  OBVIOUS
<1> HIDE DEF T
<1>2. /\ booked' \in Seq(Movement) /\ Len(booked') = Len(booked) + Len(legs)
      /\ Len(booked) \in Nat /\ Len(legs) \in Nat
      /\ DOMAIN booked \subseteq DOMAIN booked'
      /\ \A i \in DOMAIN booked : booked'[i] = booked[i]
      /\ \A i \in DOMAIN booked' : i \notin DOMAIN booked =>
            i - Len(booked) \in DOMAIN legs /\ booked'[i] = legs[i - Len(booked)]
  BY <1>1
<1>3. /\ told' \in Seq(T) /\ Len(told') = Len(booked')
      /\ \A i \in DOMAIN booked : told'[i] = told[i]
      /\ \A i \in DOMAIN booked' : i \notin DOMAIN booked => told'[i] = news[i - Len(booked)]
  <2>1. /\ told' \in Seq(T) /\ Len(told') = Len(told) + Len(news)
        /\ \A i \in 1..Len(told) : told'[i] = told[i]
        /\ \A i \in 1..(Len(told) + Len(news)) : i \notin 1..Len(told) =>
              told'[i] = news[i - Len(told)]
    <3>1. told \in Seq(T) /\ news \in Seq(T)
      BY <1>1, <1>a
    <3>2. told' = told \o news
      OBVIOUS
    <3>3. /\ told \o news \in Seq(T) /\ Len(told \o news) = Len(told) + Len(news)
          /\ \A i \in 1..Len(told) : (told \o news)[i] = told[i]
          /\ \A i \in 1..(Len(told) + Len(news)) : i \notin 1..Len(told) =>
                (told \o news)[i] = news[i - Len(told)]
      BY ONLY <3>1
    <3>4. QED
      BY <3>2, <3>3
  <2>2. DOMAIN booked = 1..Len(booked) /\ DOMAIN booked' = 1..Len(booked')
    BY <1>1, <1>2
  <2>3. Len(news) = Len(legs)
    OBVIOUS
  <2>4. QED
    BY <1>1, <1>2, <2>1, <2>2, <2>3
<1>4. \A i \in DOMAIN booked' : Directed(booked'[i]) /\ Truly(booked'[i], told'[i])
  <2> TAKE i \in DOMAIN booked'
  <2>1. CASE i \in DOMAIN booked
    BY <1>1, <1>2, <1>3, <2>1 DEF BankInv
  <2>2. CASE i \notin DOMAIN booked
    <3> DEFINE j == i - Len(booked)
    <3>1. j \in DOMAIN legs /\ booked'[i] = legs[j] /\ told'[i] = news[j]
      BY <1>2, <1>3, <2>2
    <3> HIDE DEF j
    <3>2. QED
      BY <3>1
  <2>3. QED
    BY <2>1, <2>2
<1>5. BankInv'
  <2>1. told' \in Seq(SUBSET Analytics!Status)
    BY <1>3 DEF T
  <2>2. QED
    BY <1>2, <1>3, <1>4, <2>1
    DEF BankInv, Directed, Truly, Movement, Analytics!Record, Analytics!Status
<1>6. WorkerInv'
  <2>1. heard' = heard /\ heard \in 0..Len(booked) /\ (heard # 0 => booked[heard].status # "failed")
    BY <1>1 DEF WorkerInv
  <2>2. heard \in 0..Len(booked')
    BY <1>2, <2>1
  <2>3. heard # 0 => heard \in DOMAIN booked
    BY <1>1, <2>1, Numbered
  <2>4. QED
    BY <1>2, <2>1, <2>2, <2>3 DEF WorkerInv
<1>7. PageInv'
  BY <1>1, <1>2, <1>3 DEF PageInv, Alike, Movement, Analytics!Record, Analytics!Status
<1>8. QED
  BY <1>5, <1>6, <1>7 DEF AnalyticsInv

(* The status of a movement changes, but to or from failed, and ClickHouse *)
(* is told more of it.                                                     *)
LEMMA EntryChanges ==
    ASSUME AnalyticsInv, NEW i \in DOMAIN booked, NEW r \in Movement, Alike(r, booked[i]),
           r.status = "failed" <=> booked[i].status = "failed",
           NEW S \in SUBSET Analytics!Status, told[i] \subseteq S, Truly(r, S),
           booked' = [booked EXCEPT ![i] = r], told' = [told EXCEPT ![i] = S],
           heard' \in {0, heard}, fetched' = fetched
    PROVE  AnalyticsInv'
<1> DEFINE T == SUBSET Analytics!Status
<1>1. /\ booked \in Seq(Movement) /\ told \in Seq(T)
      /\ Len(told) = Len(booked) /\ BankInv /\ WorkerInv /\ PageInv /\ S \in T
  BY DEF AnalyticsInv, BankInv
<1>0. DOMAIN told = DOMAIN booked /\ DOMAIN booked = 1..Len(booked) /\ Len(booked) \in Nat
  BY <1>1, Numbered
<1> HIDE DEF T
<1>2. /\ booked' \in Seq(Movement) /\ Len(booked') = Len(booked) /\ DOMAIN booked' = DOMAIN booked
      /\ booked'[i] = r /\ \A j \in DOMAIN booked : j # i => booked'[j] = booked[j]
  BY <1>1
<1>3. /\ told' \in Seq(T) /\ Len(told') = Len(booked)
      /\ told'[i] = S /\ \A j \in DOMAIN booked : j # i => told'[j] = told[j]
  <2>1. i \in DOMAIN told
    BY <1>0
  <2>2. /\ told' \in Seq(T) /\ Len(told') = Len(told)
        /\ told'[i] = S /\ \A j \in DOMAIN told : j # i => told'[j] = told[j]
    BY <1>1, <2>1
  <2>3. QED
    BY <1>0, <1>1, <2>2
<1>4. \A j \in DOMAIN booked' : Directed(booked'[j]) /\ Truly(booked'[j], told'[j])
  <2> TAKE j \in DOMAIN booked'
  <2>1. CASE j = i
    <3>1. Directed(booked[i])
      BY <1>1 DEF BankInv
    <3>2. Directed(r)
      BY <3>1 DEF Directed, Alike
    <3>3. QED
      BY <1>2, <1>3, <2>1, <3>2
  <2>2. CASE j # i
    BY <1>1, <1>2, <1>3, <2>2 DEF BankInv
  <2>3. QED
    BY <2>1, <2>2
<1>5. BankInv'
  <2>1. told' \in Seq(SUBSET Analytics!Status)
    BY <1>3 DEF T
  <2>2. QED
    BY <1>2, <1>3, <1>4, <2>1
    DEF BankInv, Directed, Truly, Movement, Analytics!Record, Analytics!Status
<1>6. WorkerInv'
  <2>1. heard \in 0..Len(booked) /\ (heard # 0 => booked[heard].status # "failed")
    BY <1>1 DEF WorkerInv
  <2>2. heard' \in 0..Len(booked')
    BY <1>0, <1>2, <2>1
  <2>3. heard # 0 => heard \in DOMAIN booked /\ booked'[heard].status # "failed"
    BY <1>0, <1>2, <2>1
  <2>4. QED
    BY <2>2, <2>3 DEF WorkerInv
<1>7. PageInv'
  <2>1. DOMAIN fetched \subseteq DOMAIN booked'
    BY <1>1, <1>2 DEF PageInv
  <2>2. ASSUME NEW j \in DOMAIN fetched
        PROVE  /\ fetched[j] \in Movement /\ Alike(fetched[j], booked'[j])
               /\ fetched[j].status \in told'[j]
    <3>1. /\ fetched[j] \in Movement /\ Alike(fetched[j], booked[j])
          /\ fetched[j].status \in told[j] /\ j \in DOMAIN booked
      BY <1>1 DEF PageInv
    <3>2. CASE j = i
      <4>1. Alike(fetched[j], r)
        BY <3>1, <3>2 DEF Alike
      <4>2. QED
        BY <1>2, <1>3, <3>1, <3>2, <4>1
    <3>3. CASE j # i
      BY <1>2, <1>3, <3>1, <3>3
    <3>4. QED
      BY <3>2, <3>3
  <2>3. QED
    BY <2>1, <2>2 DEF PageInv, Alike, Movement, Analytics!Record, Analytics!Status
<1>8. QED
  BY <1>5, <1>6, <1>7 DEF AnalyticsInv

(* A status that has not failed is made another.                           *)
LEMMA NewStatus ==
    ASSUME AnalyticsInv, NEW i \in DOMAIN booked, booked[i].status # "failed",
           NEW status \in {"processing", "cleared"}
    PROVE  \E r \in Movement :
             /\ [booked EXCEPT ![i].status = status] = [booked EXCEPT ![i] = r]
             /\ Alike(r, booked[i]) /\ r.status = status
<1>1. booked[i] \in Movement /\ booked \in Seq(Movement)
  BY Numbered DEF AnalyticsInv, BankInv
<1> DEFINE r == [booked[i] EXCEPT !.status = status]
<1>2. r \in Movement /\ Alike(r, booked[i]) /\ r.status = status
  BY <1>1 DEF Movement, Analytics!Record, Analytics!Status, Alike
<1>3. [booked EXCEPT ![i].status = status] = [booked EXCEPT ![i] = r]
  BY <1>1
<1> HIDE DEF r
<1>4. QED
  BY <1>2, <1>3

(* A transfer between the customer's accounts books two legs.              *)
LEMMA Booking == AnalyticsInv /\ Analytics!Book => AnalyticsInv'
<1> SUFFICES ASSUME AnalyticsInv, Analytics!Book PROVE AnalyticsInv'
  OBVIOUS
<1> DEFINE Legs(k, leg, blank, cents, status) ==
      IF k = "internal"
      THEN <<Analytics!Leg(k, "DEBIT", blank, cents, status),
             Analytics!Leg(k, "CREDIT", blank, cents, status)>>
      ELSE <<Analytics!Leg(k, leg, blank, cents, status)>>
<1>1. PICK k \in MovementKind, blank \in Blank, cents \in 1..MaxCents :
        \E status \in Analytics!Outcome(k), leg \in {"DEBIT", "CREDIT"} :
          /\ leg = "CREDIT" => k \in {"p2p", "deposit"}
          /\ leg = "DEBIT" => k # "deposit"
          /\ booked' = booked \o Legs(k, leg, blank, cents, status)
          /\ told' = told \o [i \in DOMAIN Legs(k, leg, blank, cents, status)
                                |-> Analytics!Told(k, status)]
  BY DEF Analytics!Book
<1>2. PICK status \in Analytics!Outcome(k), leg \in {"DEBIT", "CREDIT"} :
          /\ leg = "CREDIT" => k \in {"p2p", "deposit"}
          /\ leg = "DEBIT" => k # "deposit"
          /\ booked' = booked \o Legs(k, leg, blank, cents, status)
          /\ told' = told \o [i \in DOMAIN Legs(k, leg, blank, cents, status)
                                |-> Analytics!Told(k, status)]
  BY <1>1
<1>3. status \in Analytics!Status
  BY DEF Analytics!Outcome, Analytics!Status
<1> DEFINE S == Analytics!Told(k, status)
<1>4. S \in SUBSET Analytics!Status /\ S \subseteq {status}
  BY <1>3 DEF Analytics!Told
<1>5. ASSUME NEW l \in {"DEBIT", "CREDIT"},
             l = "CREDIT" => k \in {"p2p", "internal", "deposit"}, l = "DEBIT" => k # "deposit"
      PROVE  /\ Analytics!Leg(k, l, blank, cents, status) \in Movement
             /\ Directed(Analytics!Leg(k, l, blank, cents, status))
             /\ Truly(Analytics!Leg(k, l, blank, cents, status), S)
  <2>1. /\ Analytics!Leg(k, l, blank, cents, status) \in Movement
        /\ Directed(Analytics!Leg(k, l, blank, cents, status))
    BY <1>3, <1>5 DEF Analytics!Leg, Movement, Analytics!Record, Directed
  <2>2. Analytics!Leg(k, l, blank, cents, status).status = status
    BY DEF Analytics!Leg
  <2>3. QED
    BY <1>4, <2>1, <2>2 DEF Truly
<1> HIDE DEF S
<1>6. UNCHANGED <<heard, fetched>>
  BY DEF Analytics!Book
<1>7. CASE k = "internal"
  <2> DEFINE debit == Analytics!Leg(k, "DEBIT", blank, cents, status)
             credit == Analytics!Leg(k, "CREDIT", blank, cents, status)
             legs == <<debit, credit>>
             news == [i \in DOMAIN legs |-> S]
  <2>1. /\ debit \in Movement /\ credit \in Movement /\ Directed(debit) /\ Directed(credit)
        /\ Truly(debit, S) /\ Truly(credit, S)
    BY <1>5, <1>7
  <2>2. booked' = booked \o legs /\ told' = told \o news
    BY <1>2, <1>7 DEF S
  <2> HIDE DEF debit, credit
  <2>3. /\ legs \in Seq(Movement) /\ Len(legs) = 2 /\ DOMAIN legs = 1..2
        /\ \A i \in DOMAIN legs : Directed(legs[i]) /\ Truly(legs[i], S)
    BY <2>1
  <2> HIDE DEF legs
  <2>4. news \in Seq(SUBSET Analytics!Status) /\ Len(news) = 2 /\ \A i \in DOMAIN legs : news[i] = S
    <3> DEFINE T == SUBSET Analytics!Status
    <3>1. S \in T
      BY <1>4
    <3> HIDE DEF T
    <3>2. news = [i \in 1..2 |-> S]
      BY <2>3
    <3>3. news \in Seq(T) /\ Len(news) = 2
      BY <3>1, <3>2
    <3>4. QED
      BY <3>3 DEF T
  <2> HIDE DEF news
  <2>5. QED
    BY <1>6, <2>2, <2>3, <2>4, LegsBooked
<1>8. CASE k # "internal"
  <2> DEFINE only == Analytics!Leg(k, leg, blank, cents, status)
             legs == <<only>>
             news == [i \in DOMAIN legs |-> S]
  <2>1. only \in Movement /\ Directed(only) /\ Truly(only, S)
    BY <1>2, <1>5
  <2>2. booked' = booked \o legs /\ told' = told \o news
    BY <1>2, <1>8 DEF S
  <2> HIDE DEF only
  <2>3. /\ legs \in Seq(Movement) /\ Len(legs) = 1 /\ DOMAIN legs = 1..1
        /\ \A i \in DOMAIN legs : Directed(legs[i]) /\ Truly(legs[i], S)
    BY <2>1
  <2> HIDE DEF legs
  <2>4. news \in Seq(SUBSET Analytics!Status) /\ Len(news) = 1 /\ \A i \in DOMAIN legs : news[i] = S
    <3> DEFINE T == SUBSET Analytics!Status
    <3>1. S \in T
      BY <1>4
    <3> HIDE DEF T
    <3>2. news = [i \in 1..1 |-> S]
      BY <2>3
    <3>3. news \in Seq(T) /\ Len(news) = 1
      BY <3>1, <3>2
    <3>4. QED
      BY <3>3 DEF T
  <2> HIDE DEF news
  <2>5. QED
    BY <1>6, <2>2, <2>3, <2>4, LegsBooked
<1>9. QED
  BY <1>7, <1>8

(* Every step keeps it.                                                    *)
LEMMA AnalyticsStep ==
    AnalyticsInv /\ (Analytics!Next \/ UNCHANGED analyticsVars) => AnalyticsInv'
<1> SUFFICES ASSUME AnalyticsInv, Analytics!Next \/ UNCHANGED analyticsVars
             PROVE  AnalyticsInv'
  OBVIOUS
<1>0. /\ BankInv /\ WorkerInv /\ PageInv /\ booked \in Seq(Movement)
      /\ told \in Seq(SUBSET Analytics!Status)
  BY DEF AnalyticsInv, BankInv
<1>a. ASSUME NEW i \in DOMAIN booked
      PROVE  /\ told[i] \in SUBSET Analytics!Status /\ Truly(booked[i], told[i])
             /\ booked[i] \in Movement /\ [booked EXCEPT ![i] = booked[i]] = booked
  BY <1>0, Numbered DEF BankInv
<1>2. ASSUME Analytics!SyncCheck PROVE AnalyticsInv'
  <2>1. PICK i \in DOMAIN booked :
          /\ told' = [told EXCEPT ![i] = told[i] \cup {Analytics!Effective(booked[i].status)}]
          /\ UNCHANGED <<booked, heard, fetched>>
    BY <1>0, <1>2, Numbered DEF Analytics!SyncCheck
  <2>2. booked[i].status \in Analytics!Status
    BY <1>a DEF Movement, Analytics!Record
  <2> DEFINE S == told[i] \cup {Analytics!Effective(booked[i].status)}
  <2>3. /\ Analytics!Effective(booked[i].status) \in Analytics!Status
        /\ Analytics!Effective(booked[i].status) = "failed" <=> booked[i].status = "failed"
    BY <2>2 DEF Analytics!Effective, Analytics!Status
  <2>4. S \in SUBSET Analytics!Status /\ told[i] \subseteq S
    BY <1>a, <2>3
  <2>5. Truly(booked[i], S)
    BY <1>a, <2>3 DEF Truly
  <2>6. Alike(booked[i], booked[i])
    BY DEF Alike
  <2>7. booked' = [booked EXCEPT ![i] = booked[i]] /\ told' = [told EXCEPT ![i] = S]
    BY <1>a, <2>1
  <2> HIDE DEF S
  <2>8. QED
    BY <1>a, <2>1, <2>4, <2>5, <2>6, <2>7, EntryChanges
<1>3. ASSUME Analytics!LookAtTransaction PROVE AnalyticsInv'
  <2>1. PICK i \in DOMAIN booked : /\ Analytics!Open(i) /\ heard' = i
                                   /\ UNCHANGED <<booked, told, fetched>>
    BY <1>3 DEF Analytics!LookAtTransaction
  <2>2. WorkerInv'
    <3>1. i \in 0..Len(booked)
      BY <1>0, Numbered
    <3>2. booked[i].status # "failed"
      BY <2>1 DEF Analytics!Open
    <3>3. QED
      BY <2>1, <3>1, <3>2 DEF WorkerInv
  <2>3. BankInv'
    BY <1>0, <2>1 DEF BankInv, Directed, Truly, Movement, Analytics!Record, Analytics!Status
  <2>4. PageInv'
    BY <1>0, <2>1 DEF PageInv, Alike, Movement, Analytics!Record, Analytics!Status
  <2>5. QED
    BY <2>2, <2>3, <2>4 DEF AnalyticsInv
<1>4. ASSUME Analytics!MarkProcessing PROVE AnalyticsInv'
  <2>1. heard \in DOMAIN booked /\ booked[heard].status # "failed"
    BY <1>0, <1>4, Numbered DEF WorkerInv, Analytics!MarkProcessing
  <2>2. PICK i \in DOMAIN booked : i = heard
    BY <2>1
  <2>3. /\ booked' = [booked EXCEPT ![i].status = "processing"]
        /\ heard' = 0 /\ UNCHANGED <<told, fetched>>
    BY <1>4, <2>2 DEF Analytics!MarkProcessing
  <2>4. PICK r \in Movement :
          /\ [booked EXCEPT ![i].status = "processing"] = [booked EXCEPT ![i] = r]
          /\ Alike(r, booked[i]) /\ r.status = "processing"
    BY <2>1, <2>2, NewStatus
  <2>5. Truly(r, told[i])
    BY <1>a, <2>1, <2>2, <2>4 DEF Truly
  <2>6. told' = [told EXCEPT ![i] = told[i]]
    BY <1>0, <2>3, Numbered
  <2>7. QED
    BY <1>a, <2>1, <2>2, <2>3, <2>4, <2>5, <2>6, EntryChanges
<1>5. ASSUME Analytics!AutoSettle PROVE AnalyticsInv'
  <2>1. PICK i \in DOMAIN booked :
          /\ Analytics!Open(i)
          /\ booked' = [booked EXCEPT ![i].status = "cleared"]
          /\ told' = [told EXCEPT ![i] = told[i] \cup {"cleared"}]
          /\ UNCHANGED <<heard, fetched>>
    BY <1>0, <1>5, Numbered DEF Analytics!AutoSettle
  <2>2. booked[i].status # "failed"
    BY <2>1 DEF Analytics!Open
  <2>3. PICK r \in Movement :
          /\ [booked EXCEPT ![i].status = "cleared"] = [booked EXCEPT ![i] = r]
          /\ Alike(r, booked[i]) /\ r.status = "cleared"
    BY <2>2, NewStatus
  <2> DEFINE S == told[i] \cup {"cleared"}
  <2>4. S \in SUBSET Analytics!Status /\ told[i] \subseteq S
    BY <1>a DEF Analytics!Status
  <2>5. Truly(r, S)
    BY <1>a, <2>2, <2>3 DEF Truly
  <2>6. told' = [told EXCEPT ![i] = S]
    BY <2>1
  <2> HIDE DEF S
  <2>7. QED
    BY <2>1, <2>2, <2>3, <2>4, <2>5, <2>6, EntryChanges
<1>6. ASSUME Analytics!FetchTransactions PROVE AnalyticsInv'
  <2>1. PICK S \in SUBSET DOMAIN booked :
          \E status \in [S -> Analytics!Status] :
            /\ \A i \in S : status[i] \in told[i]
            /\ fetched' = [i \in S |-> [booked[i] EXCEPT !.status = status[i]]]
    BY <1>6 DEF Analytics!FetchTransactions
  <2>2. PICK status \in [S -> Analytics!Status] :
            /\ \A i \in S : status[i] \in told[i]
            /\ fetched' = [i \in S |-> [booked[i] EXCEPT !.status = status[i]]]
    BY <2>1
  <2>3. UNCHANGED <<booked, told, heard>>
    BY <1>6 DEF Analytics!FetchTransactions
  <2>4. DOMAIN fetched' = S
    BY <2>2
  <2>5. ASSUME NEW i \in S
        PROVE  /\ fetched'[i] \in Movement /\ Alike(fetched'[i], booked[i])
               /\ fetched'[i].status \in told[i]
    <3>1. fetched'[i] = [booked[i] EXCEPT !.status = status[i]]
      BY <2>2
    <3>2. booked[i] \in Movement /\ status[i] \in Analytics!Status /\ status[i] \in told[i]
      BY <1>a, <2>2
    <3>3. PICK r \in Movement : r = booked[i]
      BY <3>2
    <3>4. /\ [r EXCEPT !.status = status[i]] \in Movement
          /\ Alike([r EXCEPT !.status = status[i]], r)
          /\ [r EXCEPT !.status = status[i]].status = status[i]
      BY <3>2 DEF Movement, Analytics!Record, Alike
    <3>5. QED
      BY <3>1, <3>2, <3>3, <3>4
  <2>6. PageInv'
    BY <2>3, <2>4, <2>5 DEF PageInv, Alike, Movement, Analytics!Record, Analytics!Status
  <2>7. BankInv' /\ WorkerInv'
    BY <1>0, <2>3
    DEF BankInv, WorkerInv, Directed, Truly, Movement, Analytics!Record, Analytics!Status
  <2>8. QED
    BY <2>6, <2>7 DEF AnalyticsInv
<1>7. ASSUME UNCHANGED analyticsVars PROVE AnalyticsInv'
  <2>1. UNCHANGED <<booked, told, heard, fetched>>
    BY <1>7 DEF analyticsVars
  <2>2. BankInv' /\ WorkerInv'
    BY <1>0, <2>1
    DEF BankInv, WorkerInv, Directed, Truly, Movement, Analytics!Record, Analytics!Status
  <2>3. PageInv'
    BY <1>0, <2>1 DEF PageInv, Alike, Movement, Analytics!Record, Analytics!Status
  <2>4. QED
    BY <2>2, <2>3 DEF AnalyticsInv
<1>8. QED
  BY <1>2, <1>3, <1>4, <1>5, <1>6, <1>7, Booking DEF Analytics!Next

-----------------------------------------------------------------------------
(* The direction of a record that has its side or its merchant.            *)
LEMMA DirectionKnown ==
    ASSUME NEW r \in Movement, Directed(r), ~({"side", "merchant"} \subseteq r.blank),
           NEW known \in BOOLEAN
    PROVE  Analytics!IsTransactionIncome(r, known) <=> r.leg = "CREDIT"
<1> DEFINE rules == Analytics!Rules(r, known)
<1>1. /\ r.leg \in {"DEBIT", "CREDIT"} /\ r.kind \in MovementKind
      /\ "side" \in r.blank => "merchant" \notin r.blank
  BY DEF Movement, Analytics!Record
<1>2. /\ DOMAIN rules = 1..6
      /\ rules[1] = Analytics!BySide(r) /\ rules[2] = Analytics!ByType(r)
      /\ rules[3] = Analytics!ByMarker(r) /\ rules[4] = Analytics!ByEmail(r, known)
      /\ rules[5] = Analytics!ByMerchant(r)
  BY DEF Analytics!Rules
<1> HIDE DEF rules
<1> DEFINE way == IF r.leg = "CREDIT" THEN "in" ELSE "out"
           decides(i) == rules[i] = way /\ \A j \in 1..(i - 1) : rules[j] = "open"
<1>3. ASSUME NEW i \in 1..5, decides(i)
      PROVE  Analytics!IsTransactionIncome(r, known) <=> r.leg = "CREDIT"
  <2>1. ASSUME NEW n \in 1..6, \A j \in 1..(n - 1) : rules[j] = "open", rules[n] = "in"
        PROVE  n = i
    <3>1. n < i => rules[n] = "open"
      BY <1>3
    <3>2. i < n => rules[i] = "open"
      BY <2>1
    <3>3. rules[i] # "open"
      BY <1>3
    <3>4. QED
      BY <2>1, <3>1, <3>2, <3>3
  <2>2. Analytics!IsTransactionIncome(r, known) <=>
          \E n \in 1..6 : rules[n] = "in" /\ \A j \in 1..(n - 1) : rules[j] = "open"
    BY <1>2 DEF Analytics!IsTransactionIncome, rules
  <2>3. i \in 1..6
    OBVIOUS
  <2>4. CASE r.leg = "CREDIT"
    BY <1>3, <2>2, <2>3, <2>4
  <2>5. CASE r.leg # "CREDIT"
    BY <1>3, <2>1, <2>2, <2>5
  <2>6. QED
    BY <2>4, <2>5
<1>4. CASE "side" \notin r.blank
  <2>1. decides(1)
    BY <1>1, <1>2, <1>4 DEF Analytics!BySide
  <2>2. QED
    BY <1>3, <2>1
<1>5. CASE "side" \in r.blank
  <2>0. Analytics!BySide(r) = "open"
    BY <1>5 DEF Analytics!BySide
  <2>1. rules[1] = "open" /\ "merchant" \notin r.blank
    BY <1>1, <1>2, <1>5, <2>0
  <2>2. r.kind \in {"p2p", "internal", "bill", "simulation", "deposit", "wire", "fednow", "ach"}
    BY <1>1, AnalyticsConstants DEF AnalyticsConstants, Analytics!Type
  <2>3. CASE r.kind \in {"deposit", "bill", "simulation"}
    <3>1. rules[2] = way
      BY <1>1, <1>2, <2>3 DEF Analytics!ByType, Analytics!Type, Directed
    <3>2. decides(2)
      BY <2>1, <3>1
    <3>3. QED
      BY <1>3, <3>2
  <2>4. CASE r.kind \in {"p2p", "internal"}
    <3>1. rules[2] = "open"
      BY <1>2, <2>4 DEF Analytics!ByType, Analytics!Type
    <3>2. rules[3] = way
      BY <1>1, <1>2, <2>1, <2>4 DEF Analytics!ByMarker, Analytics!TwoLegs
    <3>3. decides(3)
      BY <2>1, <3>1, <3>2
    <3>4. QED
      BY <1>3, <3>3
  <2>5. CASE r.kind \in {"wire", "fednow", "ach"}
    <3>1. rules[2] = "open"
      BY <1>2, <2>5 DEF Analytics!ByType, Analytics!Type
    <3>2. rules[3] = "open" /\ rules[4] = "open" /\ rules[5] = "out" /\ way = "out"
      BY <1>2, <2>1, <2>5
      DEF Analytics!ByMarker, Analytics!ByEmail, Analytics!ByMerchant, Analytics!TwoLegs, Directed
    <3>3. decides(5)
      <4>1. \A j \in 1..(5 - 1) : j \in {1, 2, 3, 4}
        OBVIOUS
      <4>2. QED
        BY <2>1, <3>1, <3>2, <4>1
    <3>4. QED
      BY <1>3, <3>3
  <2>6. QED
    BY <2>2, <2>3, <2>4, <2>5
<1>6. QED
  BY <1>4, <1>5

(* What the page has is directed as the bank has booked it.                *)
LEMMA FetchedMovement ==
    ASSUME AnalyticsInv
    PROVE  /\ Movements(fetched)
           /\ \A i \in DOMAIN fetched : fetched[i] \in Movement /\ Directed(fetched[i])
<1>1. /\ BankInv /\ PageInv /\ Len(booked) \in Nat /\ DOMAIN booked = 1..Len(booked)
      /\ DOMAIN fetched \subseteq DOMAIN booked
  BY Numbered DEF AnalyticsInv, PageInv
<1>2. IsFiniteSet(DOMAIN fetched)
  <2>1. IsFiniteSet(1..Len(booked))
    BY <1>1, FS_Interval
  <2>2. QED
    BY <1>1, <2>1, FS_Subset
<1>3. ASSUME NEW i \in DOMAIN fetched PROVE fetched[i] \in Movement /\ Directed(fetched[i])
  <2>1. /\ fetched[i] \in Movement /\ Directed(booked[i])
        /\ fetched[i].kind = booked[i].kind /\ fetched[i].leg = booked[i].leg
    BY <1>1 DEF BankInv, PageInv, Alike
  <2>2. QED
    BY <2>1 DEF Directed
<1>4. QED
  BY <1>2, <1>3 DEF Movements

(* So each record is taken for income or for an expense, as it was.        *)
LEMMA DirectionHolds == AnalyticsInv => Analytics!DirectionRight
  BY FetchedMovement, DirectionKnown DEF Analytics!DirectionRight

(* Declined is what failed at the bank.                                    *)
LEMMA DeclinedHolds == AnalyticsInv => Analytics!DeclinedIsFailed
<1> SUFFICES ASSUME AnalyticsInv, NEW i \in DOMAIN fetched
             PROVE  /\ Analytics!FeedLabel(fetched[i].status) = "Declined"
                         <=> booked[i].status = "failed"
                    /\ Analytics!ListLabel(fetched[i].status) = "Failed"
                         <=> booked[i].status = "failed"
  BY DEF Analytics!DeclinedIsFailed
<1>1. fetched[i].status \in {"sent_to_kafka", "processing", "cleared", "failed"}
  BY FetchedMovement DEF Movement, Analytics!Record, Analytics!Status
<1>2. fetched[i].status \in told[i] /\ Truly(booked[i], told[i])
  BY DEF AnalyticsInv, BankInv, PageInv
<1>3. fetched[i].status = "failed" <=> booked[i].status = "failed"
  BY <1>2 DEF Truly
<1>4. QED
  BY <1>1, <1>3 DEF Analytics!FeedLabel, Analytics!ListLabel

(* The sums of the page are the sums of the lemmas.                        *)
LEMMA AnalyticsSum ==
    ASSUME NEW f, NEW S PROVE Analytics!SumFunctionOnSet(f, S) = SumFunctionOnSet(f, S)
  BY DEF Analytics!SumFunctionOnSet, Analytics!FoldFunctionOnSet, Analytics!MapThenFoldSet,
         SumFunctionOnSet, FoldFunctionOnSet, MapThenFoldSet

(* What can be listed is finite.                                           *)
LEMMA ListedFinite ==
    ASSUME NEW n \in Nat, NEW S, NEW f \in Surjection(1..n, S)
    PROVE  IsFiniteSet(S)
<1>1. IsFiniteSet(1..n)
  BY FS_Interval
<1>2. QED
  BY <1>1, FS_Surjection

(* The amounts by index.                                                   *)
CentsOf(txs) == [i \in DOMAIN txs |-> txs[i].cents]

(* Amounts can be added up, over any of the movements.                     *)
LEMMA CentsAdd ==
    ASSUME NEW txs, Movements(txs)
    PROVE  /\ IsFiniteSet(DOMAIN txs) /\ Finite(CentsOf(txs), DOMAIN txs)
           /\ \A S \in SUBSET DOMAIN txs : Analytics!Cents(txs, S) \in Nat
           /\ \A A, B \in SUBSET DOMAIN txs : A \cap B = {} =>
                Analytics!Cents(txs, A \cup B) = Analytics!Cents(txs, A) + Analytics!Cents(txs, B)
<1>1. IsFiniteSet(DOMAIN txs)
  BY DEF Movements
<1>2. ASSUME NEW i \in DOMAIN txs PROVE CentsOf(txs)[i] \in Nat
  <2>1. txs[i] \in Movement
    BY DEF Movements
  <2>2. txs[i].cents \in Nat
    BY <2>1, AnalyticsConstants DEF AnalyticsConstants, Movement, Analytics!Record
  <2>3. QED
    BY <2>2 DEF CentsOf
<1>3. Finite(CentsOf(txs), DOMAIN txs)
  BY <1>1, <1>2 DEF Finite
<1>4. \A S : Analytics!Cents(txs, S) = SumFunctionOnSet(CentsOf(txs), S)
  BY AnalyticsSum DEF Analytics!Cents, CentsOf
<1>5. ASSUME NEW S \in SUBSET DOMAIN txs PROVE SumFunctionOnSet(CentsOf(txs), S) \in Nat
  <2>1. IsFiniteSet(S) /\ \A i \in S : CentsOf(txs)[i] \in Nat
    BY <1>1, <1>2, FS_Subset
  <2>2. QED
    BY <2>1, SumNat
<1>6. QED
  BY <1>1, <1>3, <1>4, <1>5, SumUnion

(* What is added up part by part is the whole.                             *)
LEMMA Divided ==
    ASSUME NEW txs, Movements(txs), NEW S \in SUBSET DOMAIN txs, NEW P, IsFiniteSet(P),
           NEW part \in [S -> P]
    PROVE  Analytics!SumFunction([p \in P |-> Analytics!Cents(txs, {i \in S : part[i] = p})])
             = Analytics!Cents(txs, S)
<1>1. IsFiniteSet(S) /\ Finite(CentsOf(txs), S)
  BY CentsAdd, FS_Subset DEF Finite
<1>2. \A T : Analytics!Cents(txs, T) = SumFunctionOnSet(CentsOf(txs), T)
  BY AnalyticsSum DEF Analytics!Cents, CentsOf
<1>3. SumFunctionOnSet(PartsOf(CentsOf(txs), part, P, S), P) = SumFunctionOnSet(CentsOf(txs), S)
  BY <1>1, SumParts
<1>4. [p \in P |-> Analytics!Cents(txs, {i \in S : part[i] = p})] = PartsOf(CentsOf(txs), part, P, S)
  BY <1>2 DEF PartsOf
<1>5. \A f : Analytics!SumFunction(f) = SumFunctionOnSet(f, DOMAIN f)
  BY AnalyticsSum DEF Analytics!SumFunction
<1>6. DOMAIN PartsOf(CentsOf(txs), part, P, S) = P
  BY DEF PartsOf
<1>7. QED
  BY <1>2, <1>3, <1>4, <1>5, <1>6

(* Every movement comes in or goes out.                                    *)
LEMMA Turnover ==
    ASSUME NEW txs, Movements(txs), NEW S \in SUBSET DOMAIN txs
    PROVE  /\ Analytics!Income(txs) \in SUBSET DOMAIN txs
           /\ Analytics!Expense(txs) \in SUBSET DOMAIN txs
           /\ Analytics!Cents(txs, Analytics!Income(txs) \cap S)
                + Analytics!Cents(txs, Analytics!Expense(txs) \cap S) = Analytics!Cents(txs, S)
<1> DEFINE in == Analytics!Income(txs)
           out == Analytics!Expense(txs)
<1>1. in \in SUBSET DOMAIN txs /\ out = DOMAIN txs \ in
  BY DEF Analytics!Income, Analytics!Expense
<1> HIDE DEF in, out
<1>2. /\ in \cap S \in SUBSET DOMAIN txs /\ out \cap S \in SUBSET DOMAIN txs
      /\ (in \cap S) \cap (out \cap S) = {} /\ (in \cap S) \cup (out \cap S) = S
  BY <1>1
<1>3. Analytics!Cents(txs, S) = Analytics!Cents(txs, in \cap S) + Analytics!Cents(txs, out \cap S)
  <2> DEFINE A == in \cap S
             B == out \cap S
  <2>1. A \in SUBSET DOMAIN txs /\ B \in SUBSET DOMAIN txs /\ A \cap B = {} /\ A \cup B = S
    BY <1>2
  <2> HIDE DEF A, B
  <2>2. Analytics!Cents(txs, A \cup B) = Analytics!Cents(txs, A) + Analytics!Cents(txs, B)
    BY <2>1, CentsAdd
  <2>3. QED
    BY <2>1, <2>2 DEF A, B
<1>4. QED
  BY <1>1, <1>3 DEF in, out

(* The parts of the income and of the expenses add up to their totals.     *)
LEMMA PartsHold == AnalyticsInv => Analytics!PartsAddUp
<1> SUFFICES ASSUME AnalyticsInv PROVE Analytics!PartsAddUp
  OBVIOUS
<1> DEFINE D == DOMAIN fetched
           in == Analytics!Income(fetched)
           out == Analytics!Expense(fetched)
           turnover == Analytics!Cents(fetched, in) + Analytics!Cents(fetched, out)
<1>0. Movements(fetched) /\ \A i \in D : fetched[i] \in Movement /\ fetched[i].kind \in MovementKind
  BY FetchedMovement DEF Movement, Analytics!Record
<1>1. turnover = Analytics!Cents(fetched, D)
  <2>1. in \in SUBSET D /\ out \in SUBSET D
    BY <1>0, Turnover
  <2> HIDE DEF in, out
  <2>2. in \cap D = in /\ out \cap D = out
    BY <2>1
  <2>3. QED
    BY <1>0, <2>2, Turnover DEF in, out
<1>2. Analytics!SumFunction(Analytics!RailMap(fetched)) = Analytics!Cents(fetched, D)
  <2> DEFINE P == {"fednow", "wire", "ach", "internal"}
             part == [i \in D |-> Analytics!RailOf(fetched[i])]
  <2>1. part \in [D -> P]
    BY DEF Analytics!RailOf
  <2>2. IsFiniteSet(P)
    <3> DEFINE list == <<"fednow", "wire", "ach", "internal">>
    <3>1. list \in Surjection(1..4, P)
      BY DEF Surjection
    <3> HIDE DEF list, P
    <3>2. QED
      BY <3>1, ListedFinite
  <2>3. \A p : {i \in D : Analytics!RailOf(fetched[i]) = p} = {i \in D : part[i] = p}
    OBVIOUS
  <2>4. Analytics!RailMap(fetched) = [p \in P |-> Analytics!Cents(fetched, {i \in D : part[i] = p})]
    BY <2>3 DEF Analytics!RailMap
  <2> HIDE DEF P, part
  <2>5. QED
    BY <1>0, <2>1, <2>2, <2>4, Divided
<1>3. Analytics!SumFunction(Analytics!CategoryMap(fetched)) = Analytics!Cents(fetched, D)
  <2> DEFINE P == {Analytics!Category[k] : k \in MovementKind}
             part == [i \in D |-> Analytics!Category[fetched[i].kind]]
  <2>1. part \in [D -> P]
    BY <1>0
  <2>2. IsFiniteSet(P)
    <3>1. IsFiniteSet(MovementKind)
      <4>1. MovementKind \subseteq {"p2p", "internal", "bill", "simulation", "deposit",
                                    "wire", "fednow", "ach"}
        BY AnalyticsConstants DEF AnalyticsConstants, Analytics!Type
      <4>2. IsFiniteSet({"p2p", "internal", "bill", "simulation", "deposit",
                         "wire", "fednow", "ach"})
        <5> DEFINE list == <<"p2p", "internal", "bill", "simulation", "deposit",
                             "wire", "fednow", "ach">>
                   set == {"p2p", "internal", "bill", "simulation", "deposit",
                           "wire", "fednow", "ach"}
        <5>1. list \in Surjection(1..8, set)
          BY DEF Surjection
        <5> HIDE DEF list, set
        <5>2. IsFiniteSet(set)
          BY <5>1, ListedFinite
        <5>3. QED
          BY <5>2 DEF set
      <4>3. QED
        BY <4>1, <4>2, FS_Subset
    <3> DEFINE name == [k \in MovementKind |-> Analytics!Category[k]]
    <3>2. name \in Surjection(MovementKind, P)
      BY DEF Surjection
    <3> HIDE DEF name, P
    <3>3. QED
      BY <3>1, <3>2, FS_Surjection
  <2>3. \A p : {i \in D : Analytics!Category[fetched[i].kind] = p} = {i \in D : part[i] = p}
    OBVIOUS
  <2>4. Analytics!CategoryMap(fetched) = [p \in P |-> Analytics!Cents(fetched, {i \in D : part[i] = p})]
    BY <2>3 DEF Analytics!CategoryMap
  <2> HIDE DEF P, part
  <2>5. QED
    BY <1>0, <2>1, <2>2, <2>4, Divided
<1>4. Analytics!SumFunction(Analytics!ByCategoryOf(fetched)) = Analytics!TotalExpenses(fetched)
  <2> DEFINE S == out \cap Analytics!External(fetched)
             P == {Analytics!SpendingCategory(fetched[i]) : i \in S}
             part == [i \in S |-> Analytics!SpendingCategory(fetched[i])]
  <2>1. S \in SUBSET D
    BY DEF Analytics!External
  <2> HIDE DEF S
  <2>2. part \in [S -> P] /\ part \in Surjection(S, P)
    BY DEF Surjection
  <2>3. \A p : {i \in S : Analytics!SpendingCategory(fetched[i]) = p} = {i \in S : part[i] = p}
    OBVIOUS
  <2>4. Analytics!ByCategoryOf(fetched)
          = [p \in P |-> Analytics!Cents(fetched, {i \in S : part[i] = p})]
    BY <2>3 DEF Analytics!ByCategoryOf, S
  <2> HIDE DEF P, part
  <2>5. IsFiniteSet(P)
    <3>1. IsFiniteSet(S)
      BY <1>0, <2>1, CentsAdd, FS_Subset
    <3>2. QED
      BY <2>2, <3>1, FS_Surjection
  <2>6. Analytics!TotalExpenses(fetched) = Analytics!Cents(fetched, S)
    BY DEF Analytics!TotalExpenses, S
  <2>7. QED
    BY <1>0, <2>1, <2>2, <2>4, <2>5, <2>6, Divided
<1> HIDE DEF turnover
<1>5. QED
  BY <1>1, <1>2, <1>3, <1>4 DEF Analytics!PartsAddUp, turnover

(* The dashboard and the studio agree on the net flow.                     *)
LEMMA NetFlowsHold == AnalyticsInv => Analytics!NetFlowsAgree
<1> SUFFICES ASSUME AnalyticsInv,
                    \A i \in DOMAIN fetched : ~({"side", "merchant"} \subseteq fetched[i].blank),
                    Analytics!InternalCents("DEBIT") = Analytics!InternalCents("CREDIT")
             PROVE  Analytics!Cents(fetched, Analytics!Income(fetched))
                      - Analytics!Cents(fetched, Analytics!Expense(fetched))
                    = Analytics!TotalIncome(fetched) - Analytics!TotalExpenses(fetched)
  BY DEF Analytics!NetFlowsAgree
<1> DEFINE D == DOMAIN fetched
           in == Analytics!Income(fetched)
           out == Analytics!Expense(fetched)
           ext == Analytics!External(fetched)
           leg(l) == {i \in D \ ext : fetched[i].leg = l}
           Sum(S) == Analytics!Cents(fetched, S)
<1>0. Movements(fetched) /\ in \in SUBSET D /\ out = D \ in /\ ext \in SUBSET D
  BY FetchedMovement DEF Analytics!Income, Analytics!Expense, Analytics!External
<1>1. \A i \in D : i \in in <=> fetched[i].leg = "CREDIT"
  BY FetchedMovement, DirectionKnown DEF Analytics!Income
<1>2. \A i \in D : fetched[i].leg \in {"DEBIT", "CREDIT"}
  BY FetchedMovement DEF Movement, Analytics!Record
<1>3. Sum(leg("DEBIT")) = Sum(leg("CREDIT"))
  BY DEF Analytics!InternalCents
<1> HIDE DEF in, out, ext, D
<1>4. /\ in = (in \cap ext) \cup leg("CREDIT") /\ (in \cap ext) \cap leg("CREDIT") = {}
      /\ out = (out \cap ext) \cup leg("DEBIT") /\ (out \cap ext) \cap leg("DEBIT") = {}
      /\ in \cap ext \in SUBSET D /\ out \cap ext \in SUBSET D
      /\ leg("CREDIT") \in SUBSET D /\ leg("DEBIT") \in SUBSET D
  BY <1>0, <1>1, <1>2
<1>5. /\ \A S \in SUBSET D : Sum(S) \in Nat
      /\ \A A, B \in SUBSET D : A \cap B = {} => Sum(A \cup B) = Sum(A) + Sum(B)
  BY <1>0, CentsAdd DEF D
<1> HIDE DEF Sum, leg
<1>6. Sum(in) = Sum(in \cap ext) + Sum(leg("CREDIT"))
  BY <1>4, <1>5
<1>7. Sum(out) = Sum(out \cap ext) + Sum(leg("DEBIT"))
  BY <1>4, <1>5
<1>8. /\ Sum(in \cap ext) \in Int /\ Sum(out \cap ext) \in Int
      /\ Sum(leg("DEBIT")) \in Int /\ Sum(leg("CREDIT")) \in Int
  BY <1>4, <1>5
<1>9. Sum(in) - Sum(out) = Sum(in \cap ext) - Sum(out \cap ext)
  BY <1>3, <1>6, <1>7, <1>8
<1>10. QED
  BY <1>9 DEF Sum, in, out, ext, Analytics!TotalIncome, Analytics!TotalExpenses

(* A share of what came in is at most all of it.                           *)
LEMMA SavingsBounded == AnalyticsInv => Analytics!SavingsRate(fetched) \in 0..100
<1> SUFFICES ASSUME AnalyticsInv PROVE Analytics!SavingsRate(fetched) \in 0..100
  OBVIOUS
<1> DEFINE in == Analytics!Cents(fetched, Analytics!Income(fetched))
           out == Analytics!Cents(fetched, Analytics!Expense(fetched))
<1>1. in \in Nat /\ out \in Nat
  <2>1. Movements(fetched)
    BY FetchedMovement
  <2>2. QED
    BY <2>1, CentsAdd, Turnover
<1> HIDE DEF in, out
<1>2. Analytics!Percent(in - out, in) \in Int /\ Analytics!Percent(in - out, in) <= 100
  <2>1. CASE in > 0
    <3> DEFINE a == 200 * (in - out) + in
               b == 2 * in
    <3>1. a \in Int /\ b \in Nat \ {0} /\ a < 101 * b
      BY <1>1, <2>1
    <3> HIDE DEF a, b
    <3>2. a \div b \in Int /\ a \div b <= 100
      BY <3>1
    <3>3. QED
      BY <2>1, <3>2 DEF Analytics!Percent, a, b
  <2>2. CASE ~(in > 0)
    BY <2>2 DEF Analytics!Percent
  <2>3. QED
    BY <2>1, <2>2
<1>3. QED
  BY <1>2 DEF Analytics!SavingsRate, in, out

(* The records and their sums keep their types.                            *)
LEMMA AnalyticsTypes == AnalyticsInv => Analytics!TypeOK
<1> SUFFICES ASSUME AnalyticsInv PROVE Analytics!TypeOK
  OBVIOUS
<1>0. BankInv /\ WorkerInv /\ PageInv /\ Movement = Analytics!Record
  BY DEF AnalyticsInv, Movement
<1>1. Analytics!ToSet(booked) \subseteq Analytics!Record
  BY <1>0, Numbered DEF Analytics!ToSet
<1>2. told \in [DOMAIN booked -> SUBSET Analytics!Status]
  <2> DEFINE T == SUBSET Analytics!Status
  <2>1. told \in Seq(T) /\ DOMAIN told = DOMAIN booked
    BY <1>0, Numbered DEF BankInv
  <2> HIDE DEF T
  <2>2. told \in [DOMAIN booked -> T]
    BY <2>1
  <2>3. QED
    BY <2>2 DEF T
<1>3. heard \in 0..Len(booked) /\ DOMAIN fetched \subseteq DOMAIN booked
  BY <1>0 DEF WorkerInv, PageInv
<1>4. ASSUME NEW i \in DOMAIN fetched
      PROVE  /\ fetched[i].status \in told[i]
             /\ [fetched[i] EXCEPT !.status = booked[i].status] = booked[i]
  <2>1. /\ fetched[i] \in Movement /\ booked[i] \in Movement /\ Alike(fetched[i], booked[i])
        /\ fetched[i].status \in told[i]
    BY <1>0, Numbered DEF PageInv
  <2>2. \A q, r \in Movement : Alike(q, r) => [q EXCEPT !.status = r.status] = r
    BY DEF Alike, Movement, Analytics!Record
  <2>3. QED
    BY <2>1, <2>2
<1>5. QED
  BY <1>1, <1>2, <1>3, <1>4, SavingsBounded DEF Analytics!TypeOK

-----------------------------------------------------------------------------
(* The charts.                                                             *)

(* The transaction is watched from when it was made.                       *)
ChartInv ==
    /\ timeRange \in Chart!Range
    /\ txTime \in TxTime /\ txTime \in Nat
    /\ refDate \in Nat /\ txTime <= refDate
    /\ refDate <= txTime + Chart!Year + 4 * Chart!Day

(* The calendar in half hours.                                             *)
LEMMA Calendar == Chart!Hour = 2 /\ Chart!Day = 48 /\ Chart!Year = 17520
  BY DEF Chart!Hour, Chart!Day, Chart!Year

(* At first the transaction has just been made.                            *)
LEMMA ChartInit == Chart!Init => ChartInv
  BY Calendar, ChartConstants DEF ChartConstants, Chart!Init, ChartInv, Chart!Range

(* Recomputing goes on for a year and a few days.                          *)
LEMMA ChartStep == ChartInv /\ (Chart!Next \/ UNCHANGED chartVars) => ChartInv'
<1> SUFFICES ASSUME ChartInv, Chart!Next \/ UNCHANGED chartVars PROVE ChartInv'
  OBVIOUS
<1>1. CASE Chart!SetTimeRange
  BY <1>1 DEF Chart!SetTimeRange, ChartInv
<1>2. CASE Chart!Recompute
  BY <1>2, Calendar, ChartConstants DEF ChartConstants, Chart!Recompute, ChartInv
<1>3. CASE UNCHANGED chartVars
  BY <1>3 DEF chartVars, ChartInv
<1>4. QED
  BY <1>1, <1>2, <1>3 DEF Chart!Next

(* A clock that is never changed: a day ago is a day earlier.              *)
LEMMA SteadyClock ==
    ASSUME ~DaylightSaving, NEW t \in Int
    PROVE  Chart!Local(t) = t /\ Chart!LocalDay(t) = t \div 48
  BY Calendar DEF Chart!Local, Chart!LocalDay, Chart!Summer

(* So many days ago is so many days earlier.                               *)
LEMMA SteadyDays ==
    ASSUME ~DaylightSaving, NEW t \in Int, NEW n \in Int
    PROVE  Chart!DaysAgo(t, n) = t - n * 48
<1> DEFINE wanted == t - n * 48
           Right(u) == \/ Chart!Local(u) = wanted
                       \/ Chart!Local(wanted) # wanted /\ Chart!Local(wanted - 2) # wanted
<1>1. wanted \in Int /\ wanted - 2 \in Int /\ wanted - 2 # wanted
  OBVIOUS
<1>2. Chart!Local(t) = t
  BY SteadyClock
<1>3. Chart!DaysAgo(t, n) = CHOOSE u \in {wanted, wanted - 2} : Right(u)
  BY <1>2, Calendar DEF Chart!DaysAgo
<1> HIDE DEF wanted
<1>4. Right(wanted) /\ ~Right(wanted - 2)
  BY <1>1, SteadyClock
<1> HIDE DEF Right
<1>5. QED
  BY <1>3, <1>4 DEF wanted

(* So many days ago was so many days earlier.                              *)
LEMMA DayOfDaysAgo ==
    ASSUME ~DaylightSaving, NEW t \in Int, NEW n \in Int
    PROVE  Chart!LocalDay(Chart!DaysAgo(t, n)) = (t \div 48) - n
<1>1. t - n * 48 \in Int /\ (t - n * 48) \div 48 = (t \div 48) - n
  OBVIOUS
<1>2. QED
  BY <1>1, SteadyClock, SteadyDays

(* The month of a day of the year: the last that has begun.                *)
MonthBegun(m, r) ==
    /\ m \in 1..12 /\ Chart!MonthStart[m] <= r
    /\ m < 12 => r < Chart!MonthStart[m + 1]

(* Months begin one after the other, and none is longer than 31 days.      *)
LEMMA Months ==
    /\ \A m \in 1..12 : Chart!MonthStart[m] \in Nat
    /\ \A m \in 1..12, n \in 1..12 : m <= n => Chart!MonthStart[m] <= Chart!MonthStart[n]
    /\ \A m \in 1..11 : Chart!MonthStart[m + 1] <= Chart!MonthStart[m] + 31
    /\ Chart!MonthStart[1] = 0 /\ Chart!MonthStart[12] = 334
  BY DEF Chart!MonthStart

(* The month that is found has begun and has not ended.                    *)
LEMMA MonthFound ==
    ASSUME NEW d \in Int
    PROVE  MonthBegun(Chart!MonthOfDay(d), d % 365)
<1> DEFINE r == d % 365
           begun == {m \in 1..12 : Chart!MonthStart[m] <= r}
<1>1. r \in 0..364
  OBVIOUS
<1> HIDE DEF r
<1>2. \E k \in 1..12 : MonthBegun(k, r)
  <2>1. Chart!MonthStart = <<0, 31, 59, 90, 120, 151, 181, 212, 243, 273, 304, 334>>
    BY DEF Chart!MonthStart
  <2>2. CASE r < 31
    BY <1>1, <2>1, <2>2 DEF MonthBegun
  <2>3. \A k \in 1..12 : MonthBegun(k, r) <=>
           Chart!MonthStart[k] <= r /\ (k < 12 => r < Chart!MonthStart[k + 1])
    BY DEF MonthBegun
  <2>4. QED
    BY <1>1, <2>1, <2>3
<1>3. PICK k \in 1..12 : MonthBegun(k, r)
  BY <1>2
<1>4. begun = 1..k
  <2>1. ASSUME NEW m \in 1..12 PROVE Chart!MonthStart[m] <= r <=> m <= k
    <3>0. Chart!MonthStart[m] \in Int /\ Chart!MonthStart[k] \in Int /\ r \in Int /\ m \in Int /\ k \in Int
      BY <1>1, Months
    <3>1. CASE m <= k
      <4>1. Chart!MonthStart[m] <= Chart!MonthStart[k] /\ Chart!MonthStart[k] <= r
        BY <1>3, <3>1, Months DEF MonthBegun
      <4>2. QED
        BY <3>0, <3>1, <4>1
    <3>2. CASE k < m
      <4>1. k + 1 \in 1..12 /\ k + 1 <= m /\ k < 12
        BY <3>2
      <4>2. r < Chart!MonthStart[k + 1] /\ Chart!MonthStart[k + 1] <= Chart!MonthStart[m]
        BY <1>3, <4>1, Months DEF MonthBegun
      <4>3. Chart!MonthStart[k + 1] \in Int
        BY <4>1, Months
      <4>4. QED
        BY <3>0, <3>2, <4>2, <4>3
    <3>3. QED
      BY <3>1, <3>2
  <2>2. QED
    BY <2>1
<1>5. Chart!MonthOfDay(d) = Cardinality(1..k)
  BY <1>4 DEF Chart!MonthOfDay, r, Chart!Cardinality, Cardinality
<1>6. Cardinality(1..k) = k
  BY CountTo
<1>7. QED
  BY <1>3, <1>5, <1>6 DEF r

(* Later days are in later months, or the same, and 31 days on in another. *)
LEMMA MonthsGoOn ==
    ASSUME NEW d \in Int, NEW e \in Int
    PROVE  /\ Chart!MonthOfDay(d) \in 1..12
           /\ (d % 365) <= (e % 365) => Chart!MonthOfDay(d) <= Chart!MonthOfDay(e)
           /\ (d % 365) + 31 <= (e % 365) => Chart!MonthOfDay(d) < Chart!MonthOfDay(e)
<1> DEFINE r == d % 365
           s == e % 365
           m == Chart!MonthOfDay(d)
           n == Chart!MonthOfDay(e)
<1>1. r \in 0..364 /\ s \in 0..364
  OBVIOUS
<1>2. MonthBegun(m, r) /\ MonthBegun(n, s)
  BY MonthFound
<1> HIDE DEF r, s, m, n
<1>3. /\ m \in 1..12 /\ n \in 1..12
      /\ Chart!MonthStart[m] \in Int /\ Chart!MonthStart[n] \in Int
      /\ Chart!MonthStart[m] <= r /\ Chart!MonthStart[n] <= s
  <2>1. m \in 1..12 /\ n \in 1..12 /\ Chart!MonthStart[m] <= r /\ Chart!MonthStart[n] <= s
    BY <1>2 DEF MonthBegun
  <2>2. Chart!MonthStart[m] \in Int /\ Chart!MonthStart[n] \in Int
    BY <2>1, Months
  <2>3. QED
    BY <2>1, <2>2
<1>4. ASSUME n < m PROVE s < r
  <2>1. n + 1 \in 1..12 /\ n < 12 /\ n + 1 <= m
    BY <1>3, <1>4
  <2>2. s < Chart!MonthStart[n + 1] /\ Chart!MonthStart[n + 1] <= Chart!MonthStart[m]
    BY <1>2, <1>3, <2>1, Months DEF MonthBegun
  <2>3. Chart!MonthStart[n + 1] \in Int
    BY <2>1, Months
  <2>4. QED
    BY <1>1, <1>3, <2>2, <2>3
<1>5. ASSUME n <= m PROVE s < r + 31
  <2>1. CASE n = 12
    BY <1>1, <1>3, <1>5, <2>1, Months
  <2>2. CASE n < 12
    <3>1. n \in 1..11 /\ n + 1 \in 1..12
      BY <1>3, <2>2
    <3>2. /\ s < Chart!MonthStart[n + 1]
          /\ Chart!MonthStart[n + 1] <= Chart!MonthStart[n] + 31
          /\ Chart!MonthStart[n] <= Chart!MonthStart[m]
          /\ Chart!MonthStart[n + 1] \in Int
      <4>1. s < Chart!MonthStart[n + 1]
        BY <1>2, <2>2 DEF MonthBegun
      <4>2. Chart!MonthStart[n + 1] <= Chart!MonthStart[n] + 31
        BY <3>1, Months
      <4>3. Chart!MonthStart[n] <= Chart!MonthStart[m]
        BY <1>3, <1>5, Months
      <4>4. Chart!MonthStart[n + 1] \in Int
        BY <3>1, Months
      <4>5. QED
        BY <4>1, <4>2, <4>3, <4>4
    <3>3. QED
      BY <1>1, <1>3, <3>2
  <2>3. QED
    BY <1>3, <2>1, <2>2
<1>6. QED
  BY <1>1, <1>3, <1>4, <1>5 DEF r, s, m, n

(* Which interval of the months a day is in.                               *)
LEMMA MonthIndex ==
    ASSUME ~DaylightSaving, NEW t \in Int
    PROVE  /\ Chart!YearOf(t) = (t \div 48) \div 365
           /\ Chart!MonthOf(t) = Chart!MonthOfDay(t \div 48)
           /\ Chart!MonthOf(t) \in 1..12
<1>1. t \div 48 \in Int
  OBVIOUS
<1>2. QED
  BY <1>1, SteadyClock, MonthsGoOn DEF Chart!YearOf, Chart!MonthOf

(* What is seen in two intervals is seen in one.                           *)
LEMMA InOneInterval ==
    ASSUME ~DaylightSaving, ChartInv,
           NEW i \in Chart!GenerateChartBuckets(timeRange, txTime, refDate),
           NEW j \in Chart!GenerateChartBuckets(timeRange, txTime, refDate)
    PROVE  i = j /\ i \in Nat
<1>1. txTime \in Int /\ refDate \in Int /\ timeRange \in {"24h", "7d", "30d", "90d", "1y"}
  BY DEF ChartInv, Chart!Range
<1>2. CASE timeRange = "24h"
  BY <1>1, <1>2, Calendar DEF Chart!GenerateChartBuckets, Chart!BucketsOf24h
<1>3. CASE timeRange = "7d"
  <2>1. /\ i \in 0..6 /\ Chart!LocalDay(txTime) = Chart!LocalDay(Chart!DaysAgo(refDate, i))
        /\ j \in 0..6 /\ Chart!LocalDay(txTime) = Chart!LocalDay(Chart!DaysAgo(refDate, j))
    BY <1>3 DEF Chart!GenerateChartBuckets, Chart!BucketsOf7d
  <2>2. i \in Int /\ j \in Int /\ refDate \div 48 \in Int
    BY <1>1, <2>1
  <2>3. /\ Chart!LocalDay(Chart!DaysAgo(refDate, i)) = (refDate \div 48) - i
        /\ Chart!LocalDay(Chart!DaysAgo(refDate, j)) = (refDate \div 48) - j
    BY <1>1, <2>2, DayOfDaysAgo
  <2>4. (refDate \div 48) - i = (refDate \div 48) - j
    BY <2>1, <2>3
  <2>5. QED
    BY <2>1, <2>2, <2>4
<1>4. CASE timeRange = "30d"
  <2>1. /\ i \in 0..14 /\ j \in 0..14
        /\ txTime >= Chart!DaysAgo(refDate, 2 * i) - 48
        /\ txTime < Chart!DaysAgo(refDate, 2 * i) + 48
        /\ txTime >= Chart!DaysAgo(refDate, 2 * j) - 48
        /\ txTime < Chart!DaysAgo(refDate, 2 * j) + 48
    BY <1>4, Calendar DEF Chart!GenerateChartBuckets, Chart!BucketsOf30d
  <2>2. 2 * i \in Int /\ 2 * j \in Int
    BY <2>1
  <2>3. /\ Chart!DaysAgo(refDate, 2 * i) = refDate - (2 * i) * 48
        /\ Chart!DaysAgo(refDate, 2 * j) = refDate - (2 * j) * 48
    BY <1>1, <2>2, SteadyDays
  <2>4. QED
    BY <1>1, <2>1, <2>3
<1>5. CASE timeRange = "90d"
  <2>1. /\ i \in 0..11 /\ j \in 0..11
        /\ txTime >= Chart!DaysAgo(refDate, 7 * i) - 168
        /\ txTime < Chart!DaysAgo(refDate, 7 * i) + 168
        /\ txTime >= Chart!DaysAgo(refDate, 7 * j) - 168
        /\ txTime < Chart!DaysAgo(refDate, 7 * j) + 168
    BY <1>5, Calendar DEF Chart!GenerateChartBuckets, Chart!BucketsOf90d
  <2>2. 7 * i \in Int /\ 7 * j \in Int
    BY <2>1
  <2>3. /\ Chart!DaysAgo(refDate, 7 * i) = refDate - (7 * i) * 48
        /\ Chart!DaysAgo(refDate, 7 * j) = refDate - (7 * j) * 48
    BY <1>1, <2>2, SteadyDays
  <2>4. QED
    BY <1>1, <2>1, <2>3
<1>6. CASE timeRange = "1y"
  <2> DEFINE year == Chart!YearOf(refDate)
             month == Chart!MonthOf(refDate)
  <2>1. year \in Int /\ month \in Int
    BY <1>1, MonthIndex
  <2> HIDE DEF year, month
  <2>2. Chart!GenerateChartBuckets(timeRange, txTime, refDate) = Chart!BucketsOf1y(txTime, refDate)
    BY <1>6 DEF Chart!GenerateChartBuckets
  <2>3. i \in 0..11 /\ j \in 0..11 /\ 12 * year + (month - i) = 12 * year + (month - j)
    BY <2>2 DEF Chart!BucketsOf1y, year, month
  <2>4. QED
    BY <2>1, <2>3
<1>7. QED
  BY <1>1, <1>2, <1>3, <1>4, <1>5, <1>6

(* A transaction is in at most one interval of a chart.                    *)
LEMMA OneBucketHolds == ~DaylightSaving /\ ChartInv => Chart!OneBucket
<1> SUFFICES ASSUME ~DaylightSaving, ChartInv PROVE Chart!OneBucket
  OBVIOUS
<1> DEFINE charted == Chart!Charted(timeRange, txTime, refDate)
<1>1. \A i, j \in charted : i = j
  BY InOneInterval DEF Chart!Charted
<1>2. Chart!Cardinality(charted) = Cardinality(charted)
  BY DEF Chart!Cardinality, Cardinality
<1> HIDE DEF charted
<1>3. CASE charted = {}
  <2>1. Cardinality(charted) = 0
    BY <1>3, FS_EmptySet
  <2>2. QED
    BY <1>2, <2>1 DEF Chart!OneBucket, charted
<1>4. CASE charted # {}
  <2>1. PICK i \in charted : TRUE
    BY <1>4
  <2>2. charted = {i}
    BY <1>1, <2>1
  <2>3. Cardinality(charted) = 1
    BY <2>2, FS_Singleton
  <2>4. QED
    BY <1>2, <2>3 DEF Chart!OneBucket, charted
<1>5. QED
  BY <1>3, <1>4

(* What is shown as the first of the intervals of months reaches back.     *)
LEMMA MonthsReach ==
    ASSUME ~DaylightSaving, NEW t \in Int, NEW now \in Int, t <= now, now - t <= 16032
    PROVE  (12 * Chart!YearOf(now) + Chart!MonthOf(now))
             - (12 * Chart!YearOf(t) + Chart!MonthOf(t)) \in 0..11
<1> DEFINE d == t \div 48
           e == now \div 48
           m == Chart!MonthOf(t)
           n == Chart!MonthOf(now)
<1>1. d \in Int /\ e \in Int /\ d <= e /\ e - d <= 334
  OBVIOUS
<1>2. Chart!YearOf(t) = d \div 365 /\ Chart!YearOf(now) = e \div 365
  BY MonthIndex
<1>3. /\ m \in 1..12 /\ n \in 1..12
      /\ (d % 365) <= (e % 365) => m <= n
      /\ (e % 365) + 31 <= (d % 365) => n < m
  <2>1. m = Chart!MonthOfDay(d) /\ n = Chart!MonthOfDay(e)
    BY MonthIndex
  <2> HIDE DEF d, e, m, n
  <2>2. QED
    BY <1>1, <2>1, MonthsGoOn
<1> HIDE DEF d, e, m, n
<1>4. /\ d = 365 * (d \div 365) + (d % 365) /\ (d % 365) \in 0..364 /\ d \div 365 \in Int
      /\ e = 365 * (e \div 365) + (e % 365) /\ (e % 365) \in 0..364 /\ e \div 365 \in Int
  BY <1>1
<1>5. \/ e \div 365 = d \div 365 /\ (d % 365) <= (e % 365)
      \/ e \div 365 = (d \div 365) + 1 /\ (e % 365) + 31 <= (d % 365)
  BY <1>1, <1>4
<1>6. QED
  BY <1>2, <1>3, <1>4, <1>5 DEF m, n

(* A transaction that a chart reaches is in one of its intervals.          *)
LEMMA NoGapHolds == ~DaylightSaving /\ ChartInv => Chart!NoGap
<1> SUFFICES ASSUME ~DaylightSaving, ChartInv,
                    refDate - txTime <= Chart!ReachOf(timeRange)
             PROVE  Chart!Charted(timeRange, txTime, refDate) # {}
  BY DEF Chart!NoGap
<1> DEFINE t == txTime
           now == refDate
           age == now - t
           buckets == Chart!GenerateChartBuckets(timeRange, t, now)
<1>1. t \in Int /\ now \in Int /\ t <= now /\ timeRange \in {"24h", "7d", "30d", "90d", "1y"}
  BY DEF ChartInv, Chart!Range
<1>2. CASE timeRange = "24h"
  <2>1. age <= 46 /\ Chart!Charted(timeRange, t, now) = buckets
    BY <1>1, <1>2, Calendar
    DEF Chart!ReachOf, Chart!Charted, Chart!FilterTransactionsByTimeRange, Chart!GetTimeRangeHours
  <2> DEFINE i == age \div 2
  <2>2. i \in 0..23 /\ t >= now - i * 2 - 1 /\ t < now - i * 2 + 1
    BY <1>1, <2>1
  <2> HIDE DEF i
  <2>3. i \in buckets
    BY <1>2, <2>2, Calendar DEF Chart!GenerateChartBuckets, Chart!BucketsOf24h
  <2>4. QED
    BY <2>1, <2>3
<1>3. CASE timeRange = "7d"
  <2>1. age <= 288 /\ Chart!Charted(timeRange, t, now) = buckets
    BY <1>1, <1>3, Calendar
    DEF Chart!ReachOf, Chart!Charted, Chart!FilterTransactionsByTimeRange, Chart!GetTimeRangeHours
  <2> DEFINE i == (now \div 48) - (t \div 48)
  <2>2. i \in 0..6 /\ t \div 48 = (now \div 48) - i /\ i \in Int
    BY <1>1, <2>1
  <2> HIDE DEF i
  <2>3. Chart!LocalDay(t) = Chart!LocalDay(Chart!DaysAgo(now, i))
    BY <1>1, <2>2, SteadyClock, DayOfDaysAgo
  <2>4. i \in buckets
    BY <1>3, <2>2, <2>3 DEF Chart!GenerateChartBuckets, Chart!BucketsOf7d
  <2>5. QED
    BY <2>1, <2>4
<1>4. CASE timeRange = "30d"
  <2>1. age <= 1344 /\ Chart!Charted(timeRange, t, now) = buckets
    BY <1>1, <1>4, Calendar
    DEF Chart!ReachOf, Chart!Charted, Chart!FilterTransactionsByTimeRange, Chart!GetTimeRangeHours
  <2> DEFINE i == (age + 47) \div 96
  <2>2. i \in 0..14 /\ t >= now - (2 * i) * 48 - 48 /\ t < now - (2 * i) * 48 + 48 /\ 2 * i \in Int
    BY <1>1, <2>1
  <2> HIDE DEF i
  <2>3. Chart!DaysAgo(now, 2 * i) = now - (2 * i) * 48
    BY <1>1, <2>2, SteadyDays
  <2>4. i \in buckets
    BY <1>4, <2>2, <2>3, Calendar DEF Chart!GenerateChartBuckets, Chart!BucketsOf30d
  <2>5. QED
    BY <2>1, <2>4
<1>5. CASE timeRange = "90d"
  <2>1. age <= 3696 /\ Chart!Charted(timeRange, t, now) = buckets
    BY <1>1, <1>5, Calendar
    DEF Chart!ReachOf, Chart!Charted, Chart!FilterTransactionsByTimeRange, Chart!GetTimeRangeHours
  <2> DEFINE i == (age + 167) \div 336
  <2>2. i \in 0..11 /\ t >= now - (7 * i) * 48 - 168 /\ t < now - (7 * i) * 48 + 168 /\ 7 * i \in Int
    BY <1>1, <2>1
  <2> HIDE DEF i
  <2>3. Chart!DaysAgo(now, 7 * i) = now - (7 * i) * 48
    BY <1>1, <2>2, SteadyDays
  <2>4. i \in buckets
    BY <1>5, <2>2, <2>3, Calendar DEF Chart!GenerateChartBuckets, Chart!BucketsOf90d
  <2>5. QED
    BY <2>1, <2>4
<1>6. CASE timeRange = "1y"
  <2>1. age <= 16032 /\ Chart!Charted(timeRange, t, now) = buckets
    BY <1>1, <1>6, Calendar
    DEF Chart!ReachOf, Chart!Charted, Chart!FilterTransactionsByTimeRange, Chart!GetTimeRangeHours
  <2> DEFINE year == Chart!YearOf(now)
             month == Chart!MonthOf(now)
             from == 12 * Chart!YearOf(t) + Chart!MonthOf(t)
             i == (12 * year + month) - from
  <2>2. i \in 0..11
    <3>1. t \in Int /\ now \in Int /\ t <= now /\ now - t <= 16032
      BY <1>1, <2>1
    <3> HIDE DEF t, now
    <3>2. QED
      BY <3>1, MonthsReach
  <2>3. year \in Int /\ month \in Int /\ from \in Int
    BY <1>1, MonthIndex
  <2> HIDE DEF year, month, from
  <2>4. from = 12 * year + (month - i)
    BY <2>3
  <2>5. buckets = Chart!BucketsOf1y(t, now)
    BY <1>6 DEF Chart!GenerateChartBuckets
  <2>6. i \in Chart!BucketsOf1y(t, now)
    BY <2>2, <2>4 DEF Chart!BucketsOf1y, year, month, from
  <2>7. QED
    BY <2>1, <2>5, <2>6
<1>7. QED
  BY <1>1, <1>2, <1>3, <1>4, <1>5, <1>6

(* One heading is for one day.                                             *)
LEMMA HeadingsHold == ~DaylightSaving /\ ChartInv => Chart!HeadingsApart
<1> SUFFICES ASSUME ~DaylightSaving, ChartInv,
                    NEW k \in 0..((refDate - txTime) \div (Chart!Day \div 2))
             PROVE  Chart!Heading(txTime + k * (Chart!Day \div 2), refDate)
                        = Chart!Heading(txTime, refDate)
                    <=> Chart!LocalDay(txTime + k * (Chart!Day \div 2)) = Chart!LocalDay(txTime)
  BY DEF Chart!HeadingsApart
<1> DEFINE t == txTime + k * (Chart!Day \div 2)
<1>1. Chart!Day \div 2 = 24 /\ refDate \in Nat /\ txTime \in Nat
  BY Calendar DEF ChartInv
<1>2. t \in Nat
  BY <1>1
<1> HIDE DEF t
<1> DEFINE day(u) == u \div 48
           today == day(refDate)
           name(u) == <<Chart!MonthOf(u), Chart!LocalDay(u) % 365, Chart!YearWritten(u, refDate)>>
<1>3. ASSUME NEW u \in Nat
      PROVE  /\ day(u) \in Nat /\ Chart!LocalDay(u) = day(u)
             /\ day(u) = today => Chart!Heading(u, refDate) = <<"Today">>
             /\ day(u) = today - 1 => Chart!Heading(u, refDate) = <<"Yesterday">>
             /\ day(u) # today /\ day(u) # today - 1 => Chart!Heading(u, refDate) = name(u)
  <2>1. day(u) \in Nat /\ today \in Nat /\ today # today - 1
    BY <1>1
  <2>2. /\ Chart!LocalDay(u) = day(u) /\ Chart!LocalDay(refDate) = today
        /\ Chart!LocalDay(Chart!DaysAgo(refDate, 1)) = today - 1
    <3>1. u \in Int /\ refDate \in Int /\ 1 \in Int
      BY <1>1
    <3>2. Chart!LocalDay(u) = u \div 48 /\ Chart!LocalDay(refDate) = refDate \div 48
      BY <3>1, SteadyClock
    <3>3. Chart!LocalDay(Chart!DaysAgo(refDate, 1)) = (refDate \div 48) - 1
      BY <3>1, DayOfDaysAgo
    <3>4. QED
      BY <3>2, <3>3
  <2> HIDE DEF day
  <2>3. QED
    BY <2>1, <2>2 DEF Chart!Heading
<1>4. ASSUME NEW u \in Nat, NEW v \in Nat, name(u) = name(v) PROVE day(u) = day(v)
  <2> DEFINE year(w) == day(w) \div 365
             rest(w) == day(w) % 365
             written(w) == IF year(w) = year(refDate) THEN -1 ELSE year(w)
  <2>1. ASSUME NEW w \in Nat
        PROVE  /\ year(w) \in Nat /\ rest(w) \in Int /\ day(w) = 365 * year(w) + rest(w)
               /\ Chart!YearWritten(w, refDate) = written(w)
               /\ Chart!LocalDay(w) % 365 = rest(w)
    <3>1. day(w) \in Nat /\ Chart!LocalDay(w) = day(w)
      BY <1>3
    <3>2. w \in Int /\ refDate \in Int
      BY <1>1
    <3>3. Chart!YearOf(w) = year(w) /\ Chart!YearOf(refDate) = year(refDate)
      BY <3>2, MonthIndex
    <3>4. Chart!YearWritten(w, refDate) = written(w)
      BY <3>3 DEF Chart!YearWritten
    <3> HIDE DEF day
    <3>5. year(w) \in Nat /\ rest(w) \in Int /\ day(w) = 365 * year(w) + rest(w)
      BY <3>1
    <3>6. QED
      BY <3>1, <3>4, <3>5
  <2>2. year(refDate) \in Nat
    BY <1>1, <2>1
  <2>3. rest(u) = rest(v) /\ written(u) = written(v)
    <3>1. /\ Chart!LocalDay(u) % 365 = Chart!LocalDay(v) % 365
          /\ Chart!YearWritten(u, refDate) = Chart!YearWritten(v, refDate)
      BY <1>4
    <3> HIDE DEF rest, written
    <3>2. QED
      BY <2>1, <3>1
  <2> HIDE DEF day, year, rest
  <2>4. year(u) = year(v)
    BY <2>1, <2>2, <2>3
  <2>5. QED
    BY <2>1, <2>3, <2>4
<1>5. ASSUME NEW u \in Nat, NEW v \in Nat, day(u) = day(v)
      PROVE  Chart!Heading(u, refDate) = Chart!Heading(v, refDate)
  <2>1. name(u) = name(v)
    <3>1. Chart!LocalDay(u) = Chart!LocalDay(v)
      BY <1>3, <1>5
    <3>2. QED
      BY <3>1 DEF Chart!MonthOf, Chart!YearWritten, Chart!YearOf
  <2> HIDE DEF day, name
  <2>2. QED
    BY <1>3, <1>5, <2>1
<1>6. \A u \in Nat : /\ <<"Today">> # <<"Yesterday">>
                     /\ name(u) # <<"Today">> /\ name(u) # <<"Yesterday">>
  OBVIOUS
<1> HIDE DEF day, name
<1>7. ASSUME NEW u \in Nat, NEW v \in Nat, Chart!Heading(u, refDate) = Chart!Heading(v, refDate)
      PROVE  day(u) = day(v)
  <2> DEFINE h(w) == Chart!Heading(w, refDate)
             Kind3(w) == \/ day(w) = today /\ h(w) = <<"Today">>
                         \/ day(w) = today - 1 /\ h(w) = <<"Yesterday">>
                         \/ h(w) = name(w)
  <2>1. Kind3(u) /\ Kind3(v)
    BY <1>3
  <2>2. h(u) = h(v)
    BY <1>7
  <2> HIDE DEF h
  <2>3. QED
    BY <1>4, <1>6, <2>1, <2>2
<1>8. QED
  BY <1>1, <1>2, <1>3, <1>5, <1>7 DEF t

(* The charts keep their types, whatever the clock does.                   *)
LEMMA ChartTypes == ChartInv => Chart!TypeOK
<1> SUFFICES ASSUME ChartInv PROVE Chart!TypeOK
  OBVIOUS
<1>1. /\ timeRange \in {"24h", "7d", "30d", "90d", "1y"} /\ timeRange \in Chart!Range
      /\ txTime \in TxTime /\ txTime \in Nat /\ refDate \in Nat
      /\ txTime <= refDate /\ refDate <= txTime + Chart!Year + 4 * Chart!Day
  BY DEF ChartInv, Chart!Range
<1>2. refDate \in txTime..(txTime + Chart!Year + 4 * Chart!Day)
  BY <1>1, Calendar
<1>3. Chart!GenerateChartBuckets(timeRange, txTime, refDate) \subseteq 0..(Chart!Points[timeRange] - 1)
  BY <1>1
  DEF Chart!GenerateChartBuckets, Chart!Points, Chart!Range, Chart!BucketsOf24h,
      Chart!BucketsOf7d, Chart!BucketsOf30d, Chart!BucketsOf90d, Chart!BucketsOf1y
<1>4. QED
  BY <1>1, <1>2, <1>3 DEF Chart!TypeOK, Chart!Charted

-----------------------------------------------------------------------------
(* Check digits.                                                           *)

(* The sums of digits are the sums of the lemmas.                          *)
LEMMA DigitsSum ==
    ASSUME NEW f PROVE Digits!SumFunction(f) = SumFunctionOnSet(f, DOMAIN f)
  BY DEF Digits!SumFunction, Digits!SumFunctionOnSet, Digits!FoldFunctionOnSet,
         Digits!MapThenFoldSet, SumFunctionOnSet, FoldFunctionOnSet, MapThenFoldSet

(* The digit that is missing to a multiple of ten.                         *)
LEMMA CheckMakesTen ==
    ASSUME NEW s \in Nat, NEW c \in 0..9
    PROVE  c = (10 - (s % 10)) % 10 <=> (c + s) % 10 = 0
<1> DEFINE r == s % 10
           q == s \div 10
<1>1. r \in 0..9 /\ q \in Int /\ s = 10 * q + r
  OBVIOUS
<1> HIDE DEF q, r
<1>2. (c + s) % 10 = (c + r) % 10
  BY <1>1
<1>3. QED
  BY <1>1, <1>2 DEF r

(* The digits are the numbers up to nine.                                  *)
LEMMA DigitRange == \A x : x \in Digits!Digit <=> x \in Nat /\ x <= 9
  BY DEF Digits!Digit

(* The numbers people type: at least one digit.                            *)
Numbers == Seq(Digits!Digit) \ {<<>>}

(* What is known of each digit of a number.                                *)
LEMMA NumberFacts ==
    ASSUME NEW d \in Numbers
    PROVE  /\ d \in Seq(Digits!Digit) /\ Len(d) \in Nat /\ Len(d) >= 1 /\ DOMAIN d = 1..Len(d)
           /\ \A i \in DOMAIN d : d[i] \in 0..9 /\ d[i] \in Nat
           /\ Finite(d, DOMAIN d)
<1>1. d \in Seq(Digits!Digit) /\ Len(d) \in Nat /\ DOMAIN d = 1..Len(d) /\ d # <<>>
  BY DEF Numbers
<1>2. Len(d) # 0
  BY <1>1
<1>3. \A i \in DOMAIN d : d[i] \in 0..9 /\ d[i] \in Nat
  <2>1. \A i \in DOMAIN d : d[i] \in Digits!Digit
    BY <1>1
  <2>2. QED
    BY <2>1, DigitRange
<1>4. IsFiniteSet(DOMAIN d)
  BY <1>1, UpTo
<1>5. QED
  BY <1>1, <1>2, <1>3, <1>4 DEF Finite

(* A digit at a place.                                                     *)
LEMMA Placed ==
    ASSUME NEW d \in Seq(Digits!Digit), NEW i \in Nat, 1 <= i, i <= Len(d)
    PROVE  d[i] \in 0..9 /\ d[i] \in Nat /\ i \in DOMAIN d
<1> DEFINE x == d[i]
<1>1. x \in Digits!Digit /\ i \in DOMAIN d
  OBVIOUS
<1> HIDE DEF x
<1>2. x \in Nat /\ x <= 9
  BY <1>1, DigitRange
<1>3. QED
  BY <1>1, <1>2 DEF x

(* A digit at the end.                                                     *)
LEMMA DigitAppended ==
    ASSUME NEW d \in Seq(Digits!Digit), NEW c \in 0..9, NEW m \in Nat, Len(d) = m
    PROVE  /\ Append(d, c) \in Numbers /\ Len(Append(d, c)) = m + 1
           /\ Append(d, c)[m + 1] = c
           /\ \A i \in Nat : 1 <= i /\ i <= m => Append(d, c)[i] = d[i]
<1>1. c \in Digits!Digit
  BY DigitRange
<1>2. QED
  BY <1>1 DEF Numbers

(* One place changes.                                                      *)
LEMMA SumChanged ==
    ASSUME NEW D, NEW f, NEW g, Finite(f, D), Finite(g, D), NEW i \in D,
           \A x \in D : x # i => f[x] = g[x]
    PROVE  SumFunctionOnSet(g, D) - g[i] = SumFunctionOnSet(f, D) - f[i]
<1> DEFINE rest == D \ {i}
<1>1. rest \in SUBSET D /\ D \in SUBSET D /\ rest = D \ {i}
  OBVIOUS
<1>2. Finite(f, rest) /\ \A x \in rest : f[x] = g[x]
  BY FS_Subset DEF Finite
<1> HIDE DEF rest
<1>3. SumFunctionOnSet(f, rest) = SumFunctionOnSet(g, rest)
  BY <1>2, SumSame
<1>4. /\ SumFunctionOnSet(f, D) = f[i] + SumFunctionOnSet(f, rest)
      /\ SumFunctionOnSet(g, D) = g[i] + SumFunctionOnSet(g, rest)
      /\ SumFunctionOnSet(f, rest) \in Int /\ SumFunctionOnSet(g, rest) \in Int
  BY <1>1, Summed
<1>5. f[i] \in Int /\ g[i] \in Int
  BY DEF Finite
<1>6. QED
  BY <1>3, <1>4, <1>5

(* Two places change.                                                      *)
LEMMA SumSwapped ==
    ASSUME NEW D, NEW f, NEW g, Finite(f, D), Finite(g, D), NEW i \in D, NEW j \in D, i # j,
           \A x \in D : x # i /\ x # j => f[x] = g[x]
    PROVE  SumFunctionOnSet(g, D) - (g[i] + g[j]) = SumFunctionOnSet(f, D) - (f[i] + f[j])
<1> DEFINE rest == D \ {i}
<1>1. rest \in SUBSET D /\ D \in SUBSET D /\ rest = D \ {i} /\ j \in rest
  OBVIOUS
<1>2. Finite(f, rest) /\ Finite(g, rest) /\ \A x \in rest : x # j => f[x] = g[x]
  BY FS_Subset DEF Finite
<1> HIDE DEF rest
<1>3. SumFunctionOnSet(g, rest) - g[j] = SumFunctionOnSet(f, rest) - f[j]
  BY <1>1, <1>2, SumChanged
<1>4. /\ SumFunctionOnSet(f, D) = f[i] + SumFunctionOnSet(f, rest)
      /\ SumFunctionOnSet(g, D) = g[i] + SumFunctionOnSet(g, rest)
      /\ SumFunctionOnSet(f, rest) \in Int /\ SumFunctionOnSet(g, rest) \in Int
  BY <1>1, Summed
<1>5. f[i] \in Int /\ g[i] \in Int /\ f[j] \in Int /\ g[j] \in Int
  BY DEF Finite
<1>6. QED
  BY <1>3, <1>4, <1>5

-----------------------------------------------------------------------------
(* What each check adds up modulo ten: all digits of an account number, of *)
(* a card number the odd ones doubled, of a routing number with weights.   *)
CardValues(d) == [i \in 1..16 |-> IF i % 2 = 1 THEN Digits!Doubled(d[i]) ELSE d[i]]
Total(d) == SumFunctionOnSet(d, DOMAIN d)
CardTotal(d) == SumFunctionOnSet(CardValues(d), 1..16)

(* The check digit makes the sum of all digits divisible by ten.           *)
LEMMA Mod10Total ==
    ASSUME NEW d \in Numbers
    PROVE  "mod10" \in Digits!DetectCheckMethod(d) <=> Len(d) >= 2 /\ Total(d) % 10 = 0
<1> DEFINE n == Len(d)
           sum == SumFunctionOnSet(d, 1..(n - 1))
<1>1. n \in Nat /\ n >= 1 /\ DOMAIN d = 1..n /\ d[n] \in 0..9
      /\ \A i \in 1..n : d[i] \in Nat
  BY NumberFacts
<1> HIDE DEF n
<1>2. Total(d) = d[n] + sum /\ sum \in Nat
  <2>1. 1..n \in SUBSET DOMAIN d /\ n \in 1..n /\ (1..n) \ {n} = 1..(n - 1)
    BY <1>1
  <2>2. Total(d) = d[n] + sum
    <3>1. Finite(d, DOMAIN d)
      BY NumberFacts
    <3>2. SumFunctionOnSet(d, 1..n) = d[n] + SumFunctionOnSet(d, (1..n) \ {n})
      BY <2>1, <3>1, Summed
    <3>3. QED
      BY <1>1, <2>1, <3>2 DEF Total
  <2>3. IsFiniteSet(1..(n - 1)) /\ \A i \in 1..(n - 1) : d[i] \in Nat
    BY <1>1, UpTo
  <2>4. QED
    BY <2>2, <2>3, SumNat
<1>3. Digits!DigitSum(Digits!Front(d)) = sum
  <2>1. /\ Digits!Front(d) = SubSeq(d, 1, n - 1)
        /\ DOMAIN Digits!Front(d) = 1..(n - 1)
        /\ \A i \in 1..(n - 1) : Digits!Front(d)[i] = d[i]
    BY <1>1, NumberFacts DEF Digits!Front, n
  <2>2. Digits!DigitSum(Digits!Front(d)) = SumFunctionOnSet(Digits!Front(d), 1..(n - 1))
    BY <2>1, DigitsSum DEF Digits!DigitSum
  <2>3. Finite(d, 1..(n - 1))
    BY <1>1, UpTo DEF Finite
  <2>4. QED
    BY <2>1, <2>2, <2>3, SumSame
<1> HIDE DEF sum
<1>4. d[n] = (10 - (sum % 10)) % 10 <=> Total(d) % 10 = 0
  <2>1. d[n] = (10 - (sum % 10)) % 10 <=> (d[n] + sum) % 10 = 0
    BY <1>1, <1>2, CheckMakesTen
  <2>2. QED
    BY <1>2, <2>1
<1>5. "mod10" \in Digits!DetectCheckMethod(d) <=> n >= 2 /\ d[n] = (10 - (sum % 10)) % 10
  BY <1>3 DEF Digits!DetectCheckMethod, Digits!ComputeMod10CheckDigit, Digits!Last, n
<1>6. QED
  BY <1>4, <1>5 DEF n

(* A card number passes if its sum is divisible by ten.                    *)
LEMMA CardPasses ==
    ASSUME NEW d \in Numbers
    PROVE  /\ Digits!PassesLuhn(d) <=> Len(d) = 16 /\ CardTotal(d) % 10 = 0
           /\ Len(d) = 16 => /\ \A i \in 1..16 : CardValues(d)[i] \in 0..9
                             /\ Finite(CardValues(d), 1..16) /\ CardTotal(d) \in Nat
<1>1. DOMAIN CardValues(d) = 1..16
  BY DEF CardValues
<1>2. Digits!SumFunction(CardValues(d)) = CardTotal(d)
  BY <1>1, DigitsSum DEF CardTotal
<1>3. Digits!PassesLuhn(d) <=> Len(d) = 16 /\ CardTotal(d) % 10 = 0
  BY <1>2 DEF Digits!PassesLuhn, CardValues
<1>4. ASSUME Len(d) = 16 PROVE \A i \in 1..16 : CardValues(d)[i] \in 0..9 /\ CardValues(d)[i] \in Nat
  <2>1. \A i \in 1..16 : d[i] \in 0..9
    BY <1>4, NumberFacts
  <2>2. \A x \in 0..9 : Digits!Doubled(x) \in 0..9
    BY DEF Digits!Doubled
  <2>3. QED
    BY <2>1, <2>2 DEF CardValues
<1>5. IsFiniteSet(1..16)
  <2>1. PICK n \in Int : n = 16
    OBVIOUS
  <2>2. IsFiniteSet(1..n)
    BY UpTo
  <2>3. QED
    BY <2>1, <2>2
<1>6. QED
  BY <1>3, <1>4, <1>5, SumNat DEF Finite, CardTotal

(* Doubling tells all digits apart.                                        *)
LEMMA DoubledApart ==
    ASSUME NEW x \in 0..9, NEW y \in 0..9
    PROVE  /\ Digits!Doubled(x) \in 0..9 /\ Digits!Doubled(y) \in 0..9
           /\ Digits!Doubled(x) = Digits!Doubled(y) => x = y
           /\ (Digits!Doubled(x) + y) % 10 = (Digits!Doubled(y) + x) % 10 =>
                 x - y \in {0, 9, -9}
<1>1. /\ Digits!Doubled(x) = IF x >= 5 THEN 2 * x - 9 ELSE 2 * x
      /\ Digits!Doubled(y) = IF y >= 5 THEN 2 * y - 9 ELSE 2 * y
  BY DEF Digits!Doubled
<1>2. CASE x >= 5 /\ y >= 5
  BY <1>1, <1>2
<1>3. CASE x >= 5 /\ ~(y >= 5)
  BY <1>1, <1>3
<1>4. CASE ~(x >= 5) /\ y >= 5
  BY <1>1, <1>4
<1>5. CASE ~(x >= 5) /\ ~(y >= 5)
  BY <1>1, <1>5
<1>6. QED
  BY <1>2, <1>3, <1>4, <1>5

(* A right number: what the check of its kind accepts.                     *)
LEMMA RightRouting ==
    ASSUME NEW d \in RoutingStart
    PROVE  LET n == Append(d, Digits!ComputeRoutingCheckDigit(d))
           IN  n \in Numbers /\ Len(n) = 9 /\ Digits!ValidateAbaRouting(n)
<1> DEFINE c == Digits!ComputeRoutingCheckDigit(d)
           sum == Digits!WeightedSum(d)
           n == Append(d, c)
<1>1. d \in Seq(Digits!Digit) /\ Len(d) = 8
  BY DigitsConstants DEF DigitsConstants
<1>2. /\ d[1] \in Nat /\ d[2] \in Nat /\ d[3] \in Nat /\ d[4] \in Nat
      /\ d[5] \in Nat /\ d[6] \in Nat /\ d[7] \in Nat /\ d[8] \in Nat
  <2>1. \A i \in Nat : 1 <= i /\ i <= 8 => d[i] \in Nat
    BY <1>1, Placed
  <2>2. QED
    BY <2>1
<1>3. sum \in Nat
  BY <1>2 DEF Digits!WeightedSum
<1>4. c \in 0..9 /\ (c + sum) % 10 = 0
  <2>1. c = (10 - (sum % 10)) % 10
    BY DEF Digits!ComputeRoutingCheckDigit
  <2> HIDE DEF c, sum
  <2>2. c \in 0..9
    BY <1>3, <2>1
  <2>3. QED
    BY <1>3, <2>1, <2>2, CheckMakesTen
<1> HIDE DEF c
<1>5. n \in Numbers /\ Len(n) = 9 /\ n[9] = c /\ \A i \in Nat : 1 <= i /\ i <= 8 => n[i] = d[i]
  <2>1. PICK m \in Nat : m = 8
    OBVIOUS
  <2>2. Len(d) = m /\ m + 1 = 9
    BY <1>1, <2>1
  <2>3. /\ n \in Numbers /\ Len(n) = m + 1 /\ n[m + 1] = c
        /\ \A i \in Nat : 1 <= i /\ i <= m => n[i] = d[i]
    BY <1>1, <1>4, <2>2, DigitAppended
  <2> HIDE DEF n
  <2>4. QED
    BY <2>1, <2>2, <2>3
<1> HIDE DEF n
<1>6. Digits!Checksum(n) = c + sum
  <2>1. /\ n[1] = d[1] /\ n[2] = d[2] /\ n[3] = d[3] /\ n[4] = d[4]
        /\ n[5] = d[5] /\ n[6] = d[6] /\ n[7] = d[7] /\ n[8] = d[8]
    BY <1>5
  <2>2. /\ Digits!Checksum(n) = 3 * (n[1] + n[4] + n[7]) + 7 * (n[2] + n[5] + n[8])
                                   + (n[3] + n[6] + n[9])
        /\ sum = 3 * d[1] + 7 * d[2] + d[3] + 3 * d[4] + 7 * d[5] + d[6] + 3 * d[7] + 7 * d[8]
    BY DEF Digits!Checksum, Digits!WeightedSum
  <2> HIDE DEF sum
  <2>3. QED
    BY <1>2, <1>4, <1>5, <2>1, <2>2
<1> HIDE DEF sum
<1>7. Digits!ValidateAbaRouting(n)
  BY <1>4, <1>5, <1>6 DEF Digits!ValidateAbaRouting
<1>8. QED
  BY <1>5, <1>7 DEF n, c

(* The account number behind its check digit does not depend on it.        *)
LEMMA FrontOfAppend ==
    ASSUME NEW d \in Seq(Digits!Digit), NEW x
    PROVE  /\ Digits!Front(Append(d, x)) = d /\ Digits!Last(Append(d, x)) = x
           /\ Len(Append(d, x)) = Len(d) + 1
<1> DEFINE n == Append(d, x)
<1>1. /\ n \in Seq(Digits!Digit \cup {x}) /\ Len(n) = Len(d) + 1 /\ n[Len(d) + 1] = x
      /\ \A i \in 1..Len(d) : n[i] = d[i]
  <2>1. d \in Seq(Digits!Digit \cup {x})
    OBVIOUS
  <2>2. QED
    BY <2>1
<1>2. Digits!Front(n) = SubSeq(n, 1, Len(d))
  BY <1>1 DEF Digits!Front
<1>3. SubSeq(n, 1, Len(d)) = d
  <2> HIDE DEF n
  <2>1. /\ SubSeq(n, 1, Len(d)) \in Seq(Digits!Digit \cup {x}) /\ Len(SubSeq(n, 1, Len(d))) = Len(d)
        /\ \A i \in 1..Len(d) : SubSeq(n, 1, Len(d))[i] = n[i]
    BY <1>1
  <2>2. d \in Seq(Digits!Digit \cup {x})
    OBVIOUS
  <2>3. QED
    BY <1>1, <2>1, <2>2
<1>4. QED
  BY <1>1, <1>2, <1>3 DEF Digits!Last

(* Both check digits of an account number are accepted.                    *)
LEMMA RightAccount ==
    ASSUME NEW d \in AccountStart
    PROVE  LET nine == Append(d, Digits!ComputeMod9CheckDigit(Append(d, 0)))
               ten == Append(d, Digits!ComputeMod10CheckDigit(Append(d, 0)))
           IN  /\ nine \in Numbers /\ Len(nine) >= 2 /\ "mod9" \in Digits!DetectCheckMethod(nine)
               /\ ten \in Numbers /\ Len(ten) >= 2 /\ "mod10" \in Digits!DetectCheckMethod(ten)
<1>1. d \in Numbers
  BY DigitsConstants DEF DigitsConstants, Numbers
<1> DEFINE sum == Digits!DigitSum(d)
<1>2. sum \in Nat
  <2>1. IsFiniteSet(DOMAIN d) /\ \A i \in DOMAIN d : d[i] \in Nat
    BY <1>1, NumberFacts DEF Finite
  <2>2. QED
    BY <2>1, SumNat, DigitsSum DEF Digits!DigitSum
<1>3. d \in Seq(Digits!Digit) /\ Len(d) \in Nat /\ Len(d) >= 1
  BY <1>1, NumberFacts
<1>4. \A x : /\ Digits!ComputeMod9CheckDigit(Append(d, x)) = sum % 9
             /\ Digits!ComputeMod10CheckDigit(Append(d, x)) = (10 - (sum % 10)) % 10
  BY <1>3, FrontOfAppend DEF Digits!ComputeMod9CheckDigit, Digits!ComputeMod10CheckDigit
<1> HIDE DEF sum
<1>5. sum % 9 \in 0..9 /\ (10 - (sum % 10)) % 10 \in 0..9
  BY <1>2
<1>6. ASSUME NEW x \in 0..9
      PROVE  /\ Append(d, x) \in Numbers /\ Len(Append(d, x)) >= 2
             /\ Digits!Last(Append(d, x)) = x
  BY <1>3, FrontOfAppend, DigitAppended
<1>7. QED
  BY <1>4, <1>5, <1>6 DEF Digits!DetectCheckMethod

(* The card number that is made up passes.                                 *)
LEMMA RightCard ==
    ASSUME NEW d \in CardStart
    PROVE  LET n == Digits!GenerateVirtualCardNumber(d)
           IN  n \in Numbers /\ Len(n) = 16 /\ Digits!PassesLuhn(n)
<1> DEFINE f == [i \in DOMAIN d |-> IF (Len(d) - i) % 2 = 0 THEN Digits!Doubled(d[i]) ELSE d[i]]
           sum == Digits!LuhnSum(d)
           c == (10 - (sum % 10)) % 10
           n == Append(d, c)
           D == 1..16
<1>1. d \in Seq(Digits!Digit) /\ Len(d) = 15 /\ DOMAIN d = 1..15 /\ \A i \in 1..15 : d[i] \in 0..9
  <2>1. d \in Seq(Digits!Digit) /\ Len(d) = 15
    BY DigitsConstants DEF DigitsConstants
  <2>2. d # <<>>
    BY <2>1
  <2>3. d \in Numbers
    BY <2>1, <2>2 DEF Numbers
  <2>4. DOMAIN d = 1..Len(d) /\ \A i \in DOMAIN d : d[i] \in 0..9
    BY <2>3, NumberFacts
  <2>5. QED
    BY <2>1, <2>4
<1>2. IsFiniteSet(1..15)
  <2>1. PICK k \in Int : k = 15
    OBVIOUS
  <2>2. IsFiniteSet(1..k)
    BY UpTo
  <2>3. QED
    BY <2>1, <2>2
<1>3. \A i \in 1..15 : /\ f[i] = IF i % 2 = 1 THEN Digits!Doubled(d[i]) ELSE d[i]
                       /\ f[i] \in Nat
  <2>1. ASSUME NEW i \in 1..15
        PROVE  /\ f[i] = IF i % 2 = 1 THEN Digits!Doubled(d[i]) ELSE d[i]
               /\ f[i] \in Nat
    <3>1. (15 - i) % 2 = 0 <=> i % 2 = 1
      OBVIOUS
    <3>2. d[i] \in 0..9 /\ Digits!Doubled(d[i]) \in 0..9
      BY <1>1, DoubledApart
    <3>3. QED
      BY <1>1, <3>1, <3>2
  <2>2. QED
    BY <2>1
<1>4. DOMAIN f = 1..15
  BY <1>1
<1>5. sum = SumFunctionOnSet(f, 1..15)
  BY <1>4, DigitsSum DEF Digits!LuhnSum
<1> HIDE DEF f
<1>6. sum \in Nat
  BY <1>2, <1>3, <1>5, SumNat
<1> HIDE DEF sum
<1>7. c \in 0..9 /\ (c + sum) % 10 = 0
  BY <1>6, CheckMakesTen
<1> HIDE DEF c
<1>8. n \in Numbers /\ Len(n) = 16 /\ n[16] = c /\ \A i \in Nat : 1 <= i /\ i <= 15 => n[i] = d[i]
  <2>1. PICK m \in Nat : m = 15
    OBVIOUS
  <2>2. Len(d) = m /\ m + 1 = 16
    BY <1>1, <2>1
  <2>0. d \in Seq(Digits!Digit) /\ c \in 0..9
    BY <1>1, <1>7
  <2>3. /\ n \in Numbers /\ Len(n) = m + 1 /\ n[m + 1] = c
        /\ \A i \in Nat : 1 <= i /\ i <= m => n[i] = d[i]
    BY <2>0, <2>2, DigitAppended
  <2> HIDE DEF n
  <2>4. QED
    BY <2>1, <2>2, <2>3
<1> HIDE DEF n
<1>10. CardTotal(n) = c + sum
  <2>1. Finite(CardValues(n), D)
    BY <1>8, CardPasses
  <2>0. CardValues(n)[16] = c
    BY <1>8 DEF CardValues
  <2>2. D \in SUBSET D /\ 16 \in D /\ D \ {16} = 1..15
    OBVIOUS
  <2>3. CardTotal(n) = CardValues(n)[16] + SumFunctionOnSet(CardValues(n), D \ {16})
    <3>1. CardTotal(n) = SumFunctionOnSet(CardValues(n), D)
      BY DEF CardTotal
    <3> HIDE DEF D
    <3>2. QED
      BY <2>1, <2>2, <3>1, Summed
  <2>4. ASSUME NEW i \in 1..15 PROVE f[i] = CardValues(n)[i]
    <3>1. i \in 1..16 /\ n[i] = d[i]
      BY <1>8
    <3>2. CardValues(n)[i] = IF i % 2 = 1 THEN Digits!Doubled(n[i]) ELSE n[i]
      BY <3>1 DEF CardValues
    <3>3. QED
      BY <1>3, <3>1, <3>2
  <2>5. Finite(f, 1..15)
    BY <1>2, <1>3 DEF Finite
  <2>6. SumFunctionOnSet(f, 1..15) = SumFunctionOnSet(CardValues(n), 1..15)
    BY <2>4, <2>5, SumSame
  <2>7. QED
    BY <1>5, <2>0, <2>2, <2>3, <2>6
<1>11. Digits!PassesLuhn(n)
  BY <1>7, <1>8, <1>10, CardPasses
<1>12. Digits!GenerateVirtualCardNumber(d) = n
  BY DEF Digits!GenerateVirtualCardNumber, n, c, sum
<1>13. QED
  BY <1>8, <1>11, <1>12

(* So every right number is accepted.                                      *)
LEMMA RightAccepted ==
    ASSUME NEW k \in Digits!Kind, NEW n \in Digits!RightNumbers(k)
    PROVE  /\ n \in Numbers /\ Len(n) >= 2 /\ Digits!Accepted(k, n)
           /\ k = "routing" => Len(n) = 9
           /\ k = "card" => Len(n) = 16
<1>1. k \in {"routing", "mod9", "mod10", "card"}
  BY DEF Digits!Kind
<1>2. CASE k = "routing"
  <2>1. PICK d \in RoutingStart : n = Append(d, Digits!ComputeRoutingCheckDigit(d))
    BY <1>2 DEF Digits!RightNumbers
  <2>2. QED
    BY <1>2, <2>1, RightRouting DEF Digits!Accepted
<1>3. CASE k = "mod9"
  <2>1. PICK d \in AccountStart : n = Append(d, Digits!ComputeMod9CheckDigit(Append(d, 0)))
    BY <1>3 DEF Digits!RightNumbers
  <2>2. QED
    BY <1>3, <2>1, RightAccount DEF Digits!Accepted
<1>4. CASE k = "mod10"
  <2>1. PICK d \in AccountStart : n = Append(d, Digits!ComputeMod10CheckDigit(Append(d, 0)))
    BY <1>4 DEF Digits!RightNumbers
  <2>2. QED
    BY <1>4, <2>1, RightAccount DEF Digits!Accepted
<1>5. CASE k = "card"
  <2>1. PICK d \in CardStart : n = Digits!GenerateVirtualCardNumber(d)
    BY <1>5 DEF Digits!RightNumbers
  <2>2. n \in Numbers /\ Len(n) = 16 /\ Digits!PassesLuhn(n)
    BY <2>1, RightCard
  <2>3. QED
    BY <1>5, <2>2 DEF Digits!Accepted
<1>6. QED
  BY <1>1, <1>2, <1>3, <1>4, <1>5

(* The number that was meant is right, and what was typed is one mistake   *)
(* away from it.                                                           *)
ASwap(i) == [intended EXCEPT ![i] = intended[i + 1], ![i + 1] = intended[i]]
DigitsInv ==
    /\ kind \in Digits!Kind
    /\ intended \in Digits!RightNumbers(kind)
    /\ typed \in Numbers
    /\ mistake \in {"none", "digit", "swap", "missing", "extra"}
    /\ mistake = "none" => typed = intended
    /\ mistake = "digit" =>
        \E i \in DOMAIN intended : \E x \in Digits!Digit :
            x # intended[i] /\ typed = [intended EXCEPT ![i] = x]
    /\ mistake = "swap" =>
        /\ typed # intended
        /\ \E i \in 1..(Len(intended) - 1) : typed = ASwap(i)

(* At first nothing is wrong.                                              *)
LEMMA DigitsInit == Digits!Init => DigitsInv
<1> SUFFICES ASSUME Digits!Init PROVE DigitsInv
  OBVIOUS
<1>1. kind \in Digits!Kind /\ intended \in Digits!RightNumbers(kind) /\ typed = intended /\ mistake = "none"
  BY DEF Digits!Init
<1>2. typed \in Numbers
  BY <1>1, RightAccepted
<1>3. QED
  BY <1>1, <1>2 DEF DigitsInv

(* A number with a digit replaced is a number.                             *)
LEMMA Replaced ==
    ASSUME NEW n \in Numbers, NEW i \in DOMAIN n, NEW x \in Digits!Digit
    PROVE  /\ [n EXCEPT ![i] = x] \in Numbers
           /\ Len([n EXCEPT ![i] = x]) = Len(n)
           /\ [n EXCEPT ![i] = x][i] = x
           /\ \A j \in DOMAIN n : j # i => [n EXCEPT ![i] = x][j] = n[j]
<1> DEFINE m == [n EXCEPT ![i] = x]
<1>1. n \in Seq(Digits!Digit) /\ Len(n) \in Nat /\ Len(n) >= 1
  BY NumberFacts
<1>2. m \in Seq(Digits!Digit) /\ Len(m) = Len(n)
  BY <1>1
<1>3. m # <<>>
  BY <1>1, <1>2
<1>4. QED
  BY <1>1, <1>2, <1>3 DEF Numbers

(* So is one with two neighbours swapped.                                  *)
LEMMA SwappedDigits ==
    ASSUME NEW n \in Numbers, NEW i \in 1..(Len(n) - 1)
    PROVE  LET m == [n EXCEPT ![i] = n[i + 1], ![i + 1] = n[i]]
           IN  /\ m \in Numbers /\ Len(m) = Len(n)
               /\ i \in DOMAIN n /\ i + 1 \in DOMAIN n /\ i # i + 1
               /\ m[i] = n[i + 1] /\ m[i + 1] = n[i]
               /\ \A j \in DOMAIN n : j # i /\ j # i + 1 => m[j] = n[j]
<1>1. n \in Seq(Digits!Digit) /\ Len(n) \in Nat /\ Len(n) >= 1 /\ DOMAIN n = 1..Len(n)
  BY NumberFacts
<1>2. i \in DOMAIN n /\ i + 1 \in DOMAIN n /\ i # i + 1
  BY <1>1
<1>3. n[i] \in Digits!Digit /\ n[i + 1] \in Digits!Digit
  BY <1>1, <1>2
<1> DEFINE p == [n EXCEPT ![i] = n[i + 1]]
           m == [p EXCEPT ![i + 1] = n[i]]
<1>4. /\ p \in Numbers /\ Len(p) = Len(n) /\ p[i] = n[i + 1]
      /\ \A j \in DOMAIN n : j # i => p[j] = n[j]
  BY <1>2, <1>3, Replaced
<1>5. DOMAIN p = DOMAIN n
  BY <1>1
<1> HIDE DEF p
<1>6. /\ m \in Numbers /\ Len(m) = Len(n) /\ m[i + 1] = n[i]
      /\ \A j \in DOMAIN n : j # i + 1 => m[j] = p[j]
  BY <1>2, <1>3, <1>4, <1>5, Replaced
<1>7. m = [n EXCEPT ![i] = n[i + 1], ![i + 1] = n[i]]
  BY DEF p
<1> HIDE DEF m
<1>8. QED
  BY <1>2, <1>4, <1>6, <1>7

(* One digit less or more.                                                 *)
LEMMA LeftOutNumber ==
    ASSUME NEW n \in Numbers, Len(n) >= 2, NEW i \in DOMAIN n
    PROVE  Digits!RemoveAt(n, i) \in Numbers
<1>1. n \in Seq(Digits!Digit) /\ Len(n) \in Nat /\ i \in Nat /\ 1 <= i /\ i <= Len(n)
  BY NumberFacts
<1> DEFINE a == SubSeq(n, 1, i - 1)
           b == SubSeq(n, i + 1, Len(n))
<1>2. /\ a \in Seq(Digits!Digit) /\ Len(a) = i - 1
      /\ b \in Seq(Digits!Digit) /\ Len(b) = Len(n) - i
  BY <1>1
<1> HIDE DEF a, b
<1>3. a \o b \in Seq(Digits!Digit) /\ Len(a \o b) = (i - 1) + (Len(n) - i)
  BY <1>1, <1>2
<1>4. Len(a \o b) # 0
  BY <1>1, <1>3
<1>5. a \o b # <<>>
  BY <1>4
<1>6. QED
  BY <1>3, <1>5 DEF Digits!RemoveAt, Numbers, a, b

(* With a digit more it is a number, too.                                  *)
LEMMA OneMoreNumber ==
    ASSUME NEW n \in Numbers, NEW i \in 1..(Len(n) + 1), NEW x \in Digits!Digit
    PROVE  Digits!InsertAt(n, i, x) \in Numbers
<1>1. n \in Seq(Digits!Digit) /\ Len(n) \in Nat /\ i \in Nat /\ 1 <= i /\ i <= Len(n) + 1
  BY NumberFacts
<1> DEFINE a == SubSeq(n, 1, i - 1)
           b == SubSeq(n, i, Len(n))
<1>2. a \in Seq(Digits!Digit) /\ b \in Seq(Digits!Digit) /\ Len(a) \in Nat /\ Len(b) \in Nat
  BY <1>1
<1> HIDE DEF a, b
<1>3. <<x>> \in Seq(Digits!Digit) /\ Len(<<x>>) = 1
  OBVIOUS
<1>4. /\ (a \o <<x>>) \in Seq(Digits!Digit) /\ Len(a \o <<x>>) = Len(a) + 1
  BY <1>2, <1>3
<1>5. /\ (a \o <<x>>) \o b \in Seq(Digits!Digit)
      /\ Len((a \o <<x>>) \o b) = (Len(a) + 1) + Len(b)
  BY <1>2, <1>4
<1>6. (a \o <<x>>) \o b # <<>>
  BY <1>2, <1>5
<1>7. QED
  BY <1>5, <1>6 DEF Digits!InsertAt, Numbers, a, b

(* Every keystroke keeps to one mistake.                                   *)
LEMMA DigitsStep ==
    DigitsInv /\ (Digits!Next \/ UNCHANGED digitsVars) => DigitsInv'
<1> SUFFICES ASSUME DigitsInv, Digits!Next \/ UNCHANGED digitsVars PROVE DigitsInv'
  OBVIOUS
<1>1. CASE UNCHANGED digitsVars
  BY <1>1 DEF digitsVars, DigitsInv, ASwap
<1>0. /\ kind \in Digits!Kind /\ intended \in Digits!RightNumbers(kind)
      /\ intended \in Numbers /\ Len(intended) >= 2
  BY RightAccepted DEF DigitsInv
<1>2. CASE Digits!WrongDigit
  <2>1. PICK i \in DOMAIN typed : \E x \in Digits!Digit :
            x # typed[i] /\ typed' = [typed EXCEPT ![i] = x]
    BY <1>2 DEF Digits!WrongDigit
  <2>2. PICK x \in Digits!Digit : x # typed[i] /\ typed' = [typed EXCEPT ![i] = x]
    BY <2>1
  <2>3. /\ typed = intended /\ kind' = kind /\ intended' = intended /\ mistake' = "digit"
    BY <1>2 DEF Digits!WrongDigit, DigitsInv
  <2>4. typed' \in Numbers
    BY <1>0, <2>2, <2>3, Replaced
  <2>5. QED
    BY <1>0, <2>2, <2>3, <2>4 DEF DigitsInv
<1>3. CASE Digits!Swapped
  <2>1. PICK i \in 1..(Len(typed) - 1) :
            typed' = [typed EXCEPT ![i] = typed[i + 1], ![i + 1] = typed[i]]
    BY <1>3 DEF Digits!Swapped
  <2>3. /\ typed = intended /\ kind' = kind /\ intended' = intended /\ mistake' = "swap"
        /\ typed' # typed
    BY <1>3 DEF Digits!Swapped, DigitsInv
  <2>4. typed' \in Numbers
    BY <1>0, <2>1, <2>3, SwappedDigits
  <2>5. QED
    BY <1>0, <2>1, <2>3, <2>4 DEF DigitsInv, ASwap
<1>4. CASE Digits!LeftOut
  <2>1. PICK i \in DOMAIN typed : typed' = Digits!RemoveAt(typed, i)
    BY <1>4 DEF Digits!LeftOut
  <2>3. /\ typed = intended /\ kind' = kind /\ intended' = intended /\ mistake' = "missing"
    BY <1>4 DEF Digits!LeftOut, DigitsInv
  <2>4. typed' \in Numbers
    BY <1>0, <2>1, <2>3, LeftOutNumber
  <2>5. QED
    BY <1>0, <2>3, <2>4 DEF DigitsInv
<1>5. CASE Digits!OneTooMany
  <2>1. PICK i \in 1..(Len(typed) + 1) : \E x \in Digits!Digit : typed' = Digits!InsertAt(typed, i, x)
    BY <1>5 DEF Digits!OneTooMany
  <2>3. /\ typed = intended /\ kind' = kind /\ intended' = intended /\ mistake' = "extra"
    BY <1>5 DEF Digits!OneTooMany, DigitsInv
  <2>4. typed' \in Numbers
    BY <1>0, <2>1, <2>3, OneMoreNumber
  <2>5. QED
    BY <1>0, <2>3, <2>4 DEF DigitsInv
<1>6. CASE Digits!Correct
  BY <1>0, <1>6 DEF Digits!Correct, DigitsInv
<1>7. QED
  BY <1>1, <1>2, <1>3, <1>4, <1>5, <1>6 DEF Digits!Next

(* The numbers keep their types.                                           *)
LEMMA DigitsTypes == DigitsInv => Digits!TypeOK
<1> SUFFICES ASSUME DigitsInv PROVE Digits!TypeOK
  OBVIOUS
<1>1. /\ kind \in Digits!Kind /\ intended \in Numbers /\ Digits!Accepted(kind, intended)
  BY RightAccepted DEF DigitsInv
<1>2. intended \in Seq(Digits!Digit) /\ typed \in Seq(Digits!Digit)
  BY <1>1, NumberFacts DEF DigitsInv
<1>3. QED
  BY <1>1, <1>2 DEF Digits!TypeOK, DigitsInv

(* A pair of accounts that is accepted names two.                          *)
LEMMA PairsHold == DigitsInv => Digits!PairsDiffer
  BY DEF Digits!PairsDiffer, Digits!ValidateAccountPair, DigitsInv

(* The digits of a routing number as numbers.                              *)
LEMMA NineDigits ==
    ASSUME NEW d \in Numbers, Len(d) = 9
    PROVE  /\ d[1] \in 0..9 /\ d[2] \in 0..9 /\ d[3] \in 0..9 /\ d[4] \in 0..9 /\ d[5] \in 0..9
           /\ d[6] \in 0..9 /\ d[7] \in 0..9 /\ d[8] \in 0..9 /\ d[9] \in 0..9
           /\ DOMAIN d = 1..9
<1>1. DOMAIN d = 1..9 /\ \A i \in 1..9 : d[i] \in 0..9
  <2>1. PICK m \in Nat : m = 9
    OBVIOUS
  <2>2. DOMAIN d = 1..m /\ \A i \in DOMAIN d : d[i] \in 0..9
    BY <2>1, NumberFacts
  <2>3. QED
    BY <2>1, <2>2
<1>2. QED
  BY <1>1

(* The weight of a place.                                                  *)
Weight(i) == IF i % 3 = 1 THEN 3 ELSE IF i % 3 = 2 THEN 7 ELSE 1

(* The sum of a routing number changes by the weighted change of a digit.  *)
LEMMA ChecksumChanged ==
    ASSUME NEW d \in Numbers, Len(d) = 9, NEW e \in Numbers, Len(e) = 9, NEW i \in 1..9,
           \A j \in 1..9 : j # i => e[j] = d[j]
    PROVE  /\ Digits!Checksum(e) = Digits!Checksum(d) + Weight(i) * (e[i] - d[i])
           /\ Digits!Checksum(d) \in Nat
<1>1. /\ d[1] \in Nat /\ d[2] \in Nat /\ d[3] \in Nat /\ d[4] \in Nat /\ d[5] \in Nat
      /\ d[6] \in Nat /\ d[7] \in Nat /\ d[8] \in Nat /\ d[9] \in Nat
      /\ e[1] \in Nat /\ e[2] \in Nat /\ e[3] \in Nat /\ e[4] \in Nat /\ e[5] \in Nat
      /\ e[6] \in Nat /\ e[7] \in Nat /\ e[8] \in Nat /\ e[9] \in Nat
  BY NineDigits
<1>2. /\ Digits!Checksum(d) = 3 * (d[1] + d[4] + d[7]) + 7 * (d[2] + d[5] + d[8])
                                 + (d[3] + d[6] + d[9])
      /\ Digits!Checksum(e) = 3 * (e[1] + e[4] + e[7]) + 7 * (e[2] + e[5] + e[8])
                                 + (e[3] + e[6] + e[9])
  BY DEF Digits!Checksum
<1> DEFINE x(j) == e[j] - d[j]
<1>3. /\ Digits!Checksum(e) = Digits!Checksum(d) + (3 * (x(1) + x(4) + x(7)) + 7 * (x(2) + x(5) + x(8))
                                                  + (x(3) + x(6) + x(9)))
      /\ Digits!Checksum(d) \in Nat
  <2> DEFINE three(f) == f[1] + f[4] + f[7]
             seven(f) == f[2] + f[5] + f[8]
             one(f) == f[3] + f[6] + f[9]
  <2>0. ASSUME NEW a \in Nat, NEW b \in Nat, NEW c \in Nat,
               NEW u \in Nat, NEW v \in Nat, NEW w \in Nat
        PROVE  /\ a + b + c \in Nat /\ u + v + w \in Nat
               /\ u + v + w = (a + b + c) + ((u - a) + (v - b) + (w - c))
    OBVIOUS
  <2>1. /\ three(d) \in Nat /\ three(e) \in Nat /\ three(e) = three(d) + (x(1) + x(4) + x(7))
        /\ seven(d) \in Nat /\ seven(e) \in Nat /\ seven(e) = seven(d) + (x(2) + x(5) + x(8))
        /\ one(d) \in Nat /\ one(e) \in Nat /\ one(e) = one(d) + (x(3) + x(6) + x(9))
    <3>1. three(d) \in Nat /\ three(e) \in Nat /\ three(e) = three(d) + (x(1) + x(4) + x(7))
      BY ONLY <1>1, <2>0
    <3>2. seven(d) \in Nat /\ seven(e) \in Nat /\ seven(e) = seven(d) + (x(2) + x(5) + x(8))
      BY ONLY <1>1, <2>0
    <3>3. one(d) \in Nat /\ one(e) \in Nat /\ one(e) = one(d) + (x(3) + x(6) + x(9))
      BY ONLY <1>1, <2>0
    <3> HIDE DEF three, seven, one, x
    <3>4. QED
      BY <3>1, <3>2, <3>3
  <2>2. /\ Digits!Checksum(d) = 3 * three(d) + 7 * seven(d) + one(d)
        /\ Digits!Checksum(e) = 3 * three(e) + 7 * seven(e) + one(e)
    BY <1>2
  <2>3. /\ x(1) \in Int /\ x(2) \in Int /\ x(3) \in Int /\ x(4) \in Int /\ x(5) \in Int
        /\ x(6) \in Int /\ x(7) \in Int /\ x(8) \in Int /\ x(9) \in Int
    BY <1>1
  <2> HIDE DEF three, seven, one, x
  <2>4. QED
    BY <2>1, <2>2, <2>3
<1>4. /\ x(1) \in Int /\ x(2) \in Int /\ x(3) \in Int /\ x(4) \in Int /\ x(5) \in Int
      /\ x(6) \in Int /\ x(7) \in Int /\ x(8) \in Int /\ x(9) \in Int
      /\ \A j \in 1..9 : j # i => x(j) = 0
  BY <1>1
<1>5. i \in {1, 2, 3, 4, 5, 6, 7, 8, 9}
  OBVIOUS
<1> SUFFICES Digits!Checksum(e) = Digits!Checksum(d) + Weight(i) * x(i)
  BY <1>3
<1> HIDE DEF x
<1>6. CASE i = 1
  <2>1. Weight(1) = 3
    BY DEF Weight
  <2>2. x(2) = 0 /\ x(3) = 0 /\ x(4) = 0 /\ x(5) = 0 /\ x(6) = 0 /\ x(7) = 0 /\ x(8) = 0 /\ x(9) = 0
    BY <1>4, <1>6
  <2>3. QED
    BY <1>3, <1>4, <1>6, <2>1, <2>2
<1>7. CASE i = 2
  <2>1. Weight(2) = 7
    BY DEF Weight
  <2>2. x(1) = 0 /\ x(3) = 0 /\ x(4) = 0 /\ x(5) = 0 /\ x(6) = 0 /\ x(7) = 0 /\ x(8) = 0 /\ x(9) = 0
    BY <1>4, <1>7
  <2>3. QED
    BY <1>3, <1>4, <1>7, <2>1, <2>2
<1>8. CASE i = 3
  <2>1. Weight(3) = 1
    BY DEF Weight
  <2>2. x(1) = 0 /\ x(2) = 0 /\ x(4) = 0 /\ x(5) = 0 /\ x(6) = 0 /\ x(7) = 0 /\ x(8) = 0 /\ x(9) = 0
    BY <1>4, <1>8
  <2>3. QED
    BY <1>3, <1>4, <1>8, <2>1, <2>2
<1>9. CASE i = 4
  <2>1. Weight(4) = 3
    BY DEF Weight
  <2>2. x(1) = 0 /\ x(2) = 0 /\ x(3) = 0 /\ x(5) = 0 /\ x(6) = 0 /\ x(7) = 0 /\ x(8) = 0 /\ x(9) = 0
    BY <1>4, <1>9
  <2>3. QED
    BY <1>3, <1>4, <1>9, <2>1, <2>2
<1>10. CASE i = 5
  <2>1. Weight(5) = 7
    BY DEF Weight
  <2>2. x(1) = 0 /\ x(2) = 0 /\ x(3) = 0 /\ x(4) = 0 /\ x(6) = 0 /\ x(7) = 0 /\ x(8) = 0 /\ x(9) = 0
    BY <1>4, <1>10
  <2>3. QED
    BY <1>3, <1>4, <1>10, <2>1, <2>2
<1>11. CASE i = 6
  <2>1. Weight(6) = 1
    BY DEF Weight
  <2>2. x(1) = 0 /\ x(2) = 0 /\ x(3) = 0 /\ x(4) = 0 /\ x(5) = 0 /\ x(7) = 0 /\ x(8) = 0 /\ x(9) = 0
    BY <1>4, <1>11
  <2>3. QED
    BY <1>3, <1>4, <1>11, <2>1, <2>2
<1>12. CASE i = 7
  <2>1. Weight(7) = 3
    BY DEF Weight
  <2>2. x(1) = 0 /\ x(2) = 0 /\ x(3) = 0 /\ x(4) = 0 /\ x(5) = 0 /\ x(6) = 0 /\ x(8) = 0 /\ x(9) = 0
    BY <1>4, <1>12
  <2>3. QED
    BY <1>3, <1>4, <1>12, <2>1, <2>2
<1>13. CASE i = 8
  <2>1. Weight(8) = 7
    BY DEF Weight
  <2>2. x(1) = 0 /\ x(2) = 0 /\ x(3) = 0 /\ x(4) = 0 /\ x(5) = 0 /\ x(6) = 0 /\ x(7) = 0 /\ x(9) = 0
    BY <1>4, <1>13
  <2>3. QED
    BY <1>3, <1>4, <1>13, <2>1, <2>2
<1>14. CASE i = 9
  <2>1. Weight(9) = 1
    BY DEF Weight
  <2>2. x(1) = 0 /\ x(2) = 0 /\ x(3) = 0 /\ x(4) = 0 /\ x(5) = 0 /\ x(6) = 0 /\ x(7) = 0 /\ x(8) = 0
    BY <1>4, <1>14
  <2>3. QED
    BY <1>3, <1>4, <1>14, <2>1, <2>2
<1>15. QED
  BY <1>5, <1>6, <1>7, <1>8, <1>9, <1>10, <1>11, <1>12, <1>13, <1>14

(* The weights 3, 7 and 1 have no divisor in common with ten, and two of   *)
(* them differ by 4 or 6.                                                  *)
LEMMA Weighted ==
    ASSUME NEW s \in Nat, s % 10 = 0, NEW w \in {3, 7, 1}, NEW x \in 0..9, NEW y \in 0..9,
           (s + w * (x - y)) % 10 = 0
    PROVE  x = y
<1> DEFINE q == s \div 10
           r == (s + w * (x - y)) \div 10
<1>1. q \in Int /\ s = 10 * q
  OBVIOUS
<1>2. w * (x - y) \in Int
  BY w \in Int, x - y \in Int
<1>3. r \in Int /\ s + w * (x - y) = 10 * r
  BY <1>2
<1> HIDE DEF q, r
<1>4. PICK t \in Int : w * (x - y) = 10 * t
  <2>1. r - q \in Int
    BY <1>1, <1>3
  <2>2. w * (x - y) = 10 * (r - q)
    BY <1>1, <1>2, <1>3
  <2>3. QED
    BY <2>1, <2>2
<1>5. CASE w = 1
  BY <1>4, <1>5
<1>6. CASE w = 3
  BY <1>4, <1>6
<1>7. CASE w = 7
  BY <1>4, <1>7
<1>8. QED
  BY <1>5, <1>6, <1>7

(* There are three weights.                                                *)
LEMMA Weights == \A i \in 1..9 : Weight(i) \in {3, 7, 1}
  BY DEF Weight

(* A sum divisible by ten changes by less than ten only if it stays.       *)
LEMMA LessThanTen ==
    ASSUME NEW s \in Int, NEW t \in Int, s % 10 = 0, t % 10 = 0, NEW x \in 0..9, NEW y \in 0..9,
           t - y = s - x
    PROVE  x = y
<1> DEFINE q == s \div 10
           r == t \div 10
<1>1. q \in Int /\ s = 10 * q /\ r \in Int /\ t = 10 * r
  OBVIOUS
<1> HIDE DEF q, r
<1>2. QED
  BY <1>1

(* One wrong digit is noticed.                                             *)
LEMMA WrongDigitHolds == DigitsInv => Digits!WrongDigitNoticed
<1> SUFFICES ASSUME DigitsInv, mistake = "digit", kind # "mod9", Digits!Accepted(kind, typed)
             PROVE  FALSE
  BY DEF Digits!WrongDigitNoticed
<1>1. /\ kind \in Digits!Kind /\ intended \in Numbers /\ Digits!Accepted(kind, intended)
      /\ typed \in Numbers
  BY RightAccepted DEF DigitsInv
<1>2. PICK i \in DOMAIN intended : \E x \in Digits!Digit :
          x # intended[i] /\ typed = [intended EXCEPT ![i] = x]
  BY DEF DigitsInv
<1>3. PICK x \in Digits!Digit : x # intended[i] /\ typed = [intended EXCEPT ![i] = x]
  BY <1>2
<1>4. /\ Len(typed) = Len(intended) /\ typed[i] = x /\ typed[i] # intended[i]
      /\ \A j \in DOMAIN intended : j # i => typed[j] = intended[j]
  BY <1>1, <1>3, Replaced
<1>5. /\ DOMAIN typed = DOMAIN intended /\ intended[i] \in 0..9 /\ typed[i] \in 0..9
      /\ Finite(intended, DOMAIN intended) /\ Finite(typed, DOMAIN typed)
  BY <1>1, <1>4, NumberFacts
<1>6. CASE kind = "routing"
  <2>1. /\ Len(intended) = 9 /\ Digits!Checksum(intended) % 10 = 0
        /\ Len(typed) = 9 /\ Digits!Checksum(typed) % 10 = 0
    BY <1>1, <1>6 DEF Digits!Accepted, Digits!ValidateAbaRouting
  <2>2. DOMAIN intended = 1..9
    BY <1>1, <2>1, NineDigits
  <2>3. /\ Digits!Checksum(typed) = Digits!Checksum(intended) + Weight(i) * (typed[i] - intended[i])
        /\ Digits!Checksum(intended) \in Nat
    BY <1>1, <1>4, <2>1, <2>2, ChecksumChanged
  <2>4. Weight(i) \in {3, 7, 1}
    BY <2>2, Weights
  <2>5. QED
    BY <1>4, <1>5, <2>1, <2>3, <2>4, Weighted
<1>7. CASE kind = "mod10"
  <2>1. Total(intended) % 10 = 0 /\ Total(typed) % 10 = 0
    BY <1>1, <1>7, Mod10Total DEF Digits!Accepted
  <2>2. Total(typed) - typed[i] = Total(intended) - intended[i]
    BY <1>4, <1>5, SumChanged DEF Total
  <2>3. Total(intended) \in Int /\ Total(typed) \in Int
    BY <1>5, Summed DEF Total
  <2> HIDE DEF Total
  <2>4. intended[i] = typed[i]
    BY <1>5, <2>1, <2>2, <2>3, LessThanTen
  <2>5. QED
    BY <1>4, <2>4
<1>8. CASE kind = "card"
  <2>1. /\ Len(intended) = 16 /\ CardTotal(intended) % 10 = 0
        /\ Len(typed) = 16 /\ CardTotal(typed) % 10 = 0
    BY <1>1, <1>8, CardPasses DEF Digits!Accepted
  <2> DEFINE D == 1..16
             f == CardValues(intended)
             g == CardValues(typed)
  <2>2. DOMAIN intended = D
    BY <1>1, <2>1, NumberFacts
  <2>3. /\ \A j \in D : f[j] \in 0..9 /\ g[j] \in 0..9
        /\ Finite(f, D) /\ Finite(g, D)
        /\ CardTotal(intended) \in Int /\ CardTotal(typed) \in Int
    BY <1>1, <2>1, CardPasses
  <2>4. \A j \in D : /\ f[j] = IF j % 2 = 1 THEN Digits!Doubled(intended[j]) ELSE intended[j]
                     /\ g[j] = IF j % 2 = 1 THEN Digits!Doubled(typed[j]) ELSE typed[j]
    BY DEF CardValues
  <2>6. CardTotal(intended) = SumFunctionOnSet(f, D) /\ CardTotal(typed) = SumFunctionOnSet(g, D)
    BY DEF CardTotal
  <2> HIDE DEF D, f, g
  <2>7. \A j \in D : j # i => f[j] = g[j]
    BY <1>4, <2>2, <2>4
  <2>8. SumFunctionOnSet(g, D) - g[i] = SumFunctionOnSet(f, D) - f[i]
    BY <2>2, <2>3, <2>7, SumChanged
  <2>9. f[i] = g[i]
    BY <2>1, <2>2, <2>3, <2>6, <2>8, LessThanTen
  <2>10. intended[i] = typed[i]
    BY <1>5, <2>2, <2>4, <2>9, DoubledApart
  <2>11. QED
    BY <1>4, <2>10
<1>9. QED
  BY <1>1, <1>6, <1>7, <1>8 DEF Digits!Kind

(* Two neighbours swapped are noticed unless their weights hide it.        *)
LEMMA RoutingSwap ==
    ASSUME NEW s \in Nat, s % 10 = 0, NEW v \in {3, 7, 1}, NEW w \in {3, 7, 1},
           <<v, w>> \in {<<3, 7>>, <<7, 1>>, <<1, 3>>},
           NEW x \in 0..9, NEW y \in 0..9, x # y,
           ((s + v * (y - x)) + w * (x - y)) % 10 = 0
    PROVE  y - x \in {-5, 5}
<1> DEFINE z == y - x
<1>1. z \in Int /\ z # 0 /\ -9 <= z /\ z <= 9 /\ x - y = -z
  OBVIOUS
<1> HIDE DEF z
<1>2. PICK q \in Int : s = 10 * q
  <2>1. s \div 10 \in Int /\ s = 10 * (s \div 10)
    OBVIOUS
  <2>2. QED
    BY <2>1
<1>3. PICK u \in Int : /\ u = (s + v * (y - x)) + w * (x - y)
                       /\ \/ u = s - 4 * z
                          \/ u = s + 6 * z
                          \/ u = s - 2 * z
  <2>1. CASE v = 3 /\ w = 7
    BY <1>1, <2>1 DEF z
  <2>2. CASE v = 7 /\ w = 1
    BY <1>1, <2>2 DEF z
  <2>3. CASE v = 1 /\ w = 3
    BY <1>1, <2>3 DEF z
  <2>4. QED
    BY <2>1, <2>2, <2>3
<1>4. PICK r \in Int : u = 10 * r
  <2>1. u % 10 = 0
    BY <1>3
  <2>2. u \div 10 \in Int /\ u = 10 * (u \div 10)
    BY <2>1
  <2>3. QED
    BY <2>2
<1>5. z = 5 \/ z = -5
  BY <1>1, <1>2, <1>3, <1>4
<1>6. QED
  BY <1>5 DEF z

(* The weights of neighbours follow each other.                            *)
LEMMA NeighbourWeights ==
    ASSUME NEW i \in 1..8
    PROVE  /\ Weight(i) \in {3, 7, 1} /\ Weight(i + 1) \in {3, 7, 1}
           /\ <<Weight(i), Weight(i + 1)>> \in {<<3, 7>>, <<7, 1>>, <<1, 3>>}
<1>1. i \in {1, 2, 3, 4, 5, 6, 7, 8}
  OBVIOUS
<1>2. /\ Weight(1) = 3 /\ Weight(2) = 7 /\ Weight(3) = 1 /\ Weight(4) = 3 /\ Weight(5) = 7
      /\ Weight(6) = 1 /\ Weight(7) = 3 /\ Weight(8) = 7 /\ Weight(9) = 1
  BY DEF Weight
<1>3. QED
  BY <1>1, <1>2

(* Sums divisible by ten that differ in a part: the parts have the same    *)
(* last digit.                                                             *)
LEMMA SameLastDigit ==
    ASSUME NEW s \in Int, NEW t \in Int, s % 10 = 0, t % 10 = 0, NEW a \in Nat, NEW b \in Nat,
           t - a = s - b
    PROVE  a % 10 = b % 10
<1>1. PICK q \in Int : s = 10 * q
  <2>1. s \div 10 \in Int /\ s = 10 * (s \div 10)
    OBVIOUS
  <2>2. QED
    BY <2>1
<1>2. PICK r \in Int : t = 10 * r
  <2>1. t \div 10 \in Int /\ t = 10 * (t \div 10)
    OBVIOUS
  <2>2. QED
    BY <2>1
<1>3. PICK k \in Int : k = r - q /\ a = b + 10 * k
  <2>1. r - q \in Int /\ a = b + 10 * (r - q)
    BY <1>1, <1>2
  <2>2. QED
    BY <2>1
<1>4. QED
  BY <1>3

(* Two digits swapped are noticed, but for those whose weights hide it.    *)
LEMMA SwapHolds == DigitsInv => Digits!SwapNoticed
<1> SUFFICES ASSUME DigitsInv, mistake = "swap", kind \in {"routing", "card"},
                    Digits!Accepted(kind, typed)
             PROVE  \E i \in 1..(Len(typed) - 1) :
                        /\ typed[i] = intended[i + 1] /\ typed[i + 1] = intended[i]
                        /\ (typed[i] - typed[i + 1]) \in
                              IF kind = "routing" THEN {-5, 5} ELSE {-9, 9}
  BY DEF Digits!SwapNoticed
<1>1. /\ intended \in Numbers /\ Digits!Accepted(kind, intended) /\ typed \in Numbers
  BY RightAccepted DEF DigitsInv
<1>2. PICK i \in 1..(Len(intended) - 1) : typed = ASwap(i)
  BY DEF DigitsInv
<1>3. /\ Len(typed) = Len(intended) /\ i \in DOMAIN intended /\ i + 1 \in DOMAIN intended
      /\ i # i + 1
      /\ typed[i] = intended[i + 1] /\ typed[i + 1] = intended[i]
      /\ \A j \in DOMAIN intended : j # i /\ j # i + 1 => typed[j] = intended[j]
  BY <1>1, <1>2, SwappedDigits DEF ASwap
<1> DEFINE x == intended[i]
           y == intended[i + 1]
<1>4. /\ x \in 0..9 /\ y \in 0..9 /\ DOMAIN intended = 1..Len(intended) /\ Len(intended) \in Nat
      /\ DOMAIN typed = DOMAIN intended
      /\ intended \in Seq(Digits!Digit) /\ typed \in Seq(Digits!Digit)
  BY <1>1, <1>3, NumberFacts
<1>5. x # y
  <2>1. SUFFICES ASSUME x = y PROVE FALSE
    OBVIOUS
  <2>2. \A j \in DOMAIN intended : typed[j] = intended[j]
    BY <1>3, <2>1
  <2>3. typed = intended
    BY <1>3, <1>4, <2>2
  <2>4. QED
    BY <2>3 DEF DigitsInv
<1>6. SUFFICES typed[i] - typed[i + 1] \in IF kind = "routing" THEN {-5, 5} ELSE {-9, 9}
  BY <1>2, <1>3
<1>7. CASE kind = "routing"
  <2> DEFINE p == [intended EXCEPT ![i] = y]
  <2>1. /\ Len(intended) = 9 /\ Digits!Checksum(intended) % 10 = 0
        /\ Len(typed) = 9 /\ Digits!Checksum(typed) % 10 = 0
    BY <1>1, <1>7 DEF Digits!Accepted, Digits!ValidateAbaRouting
  <2>2. DOMAIN intended = 1..9 /\ i \in 1..8 /\ i \in 1..9 /\ i + 1 \in 1..9
    BY <1>1, <1>3, <2>1, NineDigits
  <2>3. /\ p \in Numbers /\ Len(p) = 9 /\ p[i] = y
        /\ \A j \in DOMAIN intended : j # i => p[j] = intended[j]
    <3>1. y \in Digits!Digit
      BY <1>4, DigitRange
    <3> HIDE DEF y
    <3>2. /\ p \in Numbers /\ Len(p) = Len(intended) /\ p[i] = y
          /\ \A j \in DOMAIN intended : j # i => p[j] = intended[j]
      BY ONLY <1>1, <1>3, <3>1, Replaced
    <3>3. QED
      BY <2>1, <3>2
  <2> HIDE DEF p
  <2>4. /\ \A j \in 1..9 : j # i => p[j] = intended[j]
        /\ \A j \in 1..9 : j # i + 1 => typed[j] = p[j]
        /\ p[i + 1] = y /\ typed[i + 1] = x
    BY <1>3, <2>2, <2>3
  <2> DEFINE s == Digits!Checksum(intended)
             v == Weight(i)
             w == Weight(i + 1)
  <2>5. Digits!Checksum(p) = s + v * (y - x) /\ s \in Nat
    BY <1>1, <2>1, <2>2, <2>3, <2>4, ChecksumChanged
  <2>6. Digits!Checksum(typed) = Digits!Checksum(p) + w * (x - y)
    BY <1>1, <2>1, <2>2, <2>3, <2>4, ChecksumChanged
  <2>7. v \in {3, 7, 1} /\ w \in {3, 7, 1} /\ <<v, w>> \in {<<3, 7>>, <<7, 1>>, <<1, 3>>}
    BY <2>2, NeighbourWeights
  <2> HIDE DEF s, v, w, x, y
  <2>8. s % 10 = 0 /\ ((s + v * (y - x)) + w * (x - y)) % 10 = 0
    BY <2>1, <2>5, <2>6 DEF s
  <2>9. y - x \in {-5, 5}
    BY <1>4, <1>5, <2>5, <2>7, <2>8, RoutingSwap
  <2>10. QED
    BY <1>3, <1>7, <2>9 DEF x, y
<1>8. CASE kind = "card"
  <2>1. /\ Len(intended) = 16 /\ CardTotal(intended) % 10 = 0
        /\ Len(typed) = 16 /\ CardTotal(typed) % 10 = 0
    BY <1>1, <1>8, CardPasses DEF Digits!Accepted
  <2> DEFINE D == 1..16
             f == CardValues(intended)
             g == CardValues(typed)
  <2>2. DOMAIN intended = D
    BY <1>1, <2>1, NumberFacts
  <2>3. /\ Finite(f, D) /\ Finite(g, D)
        /\ CardTotal(intended) \in Int /\ CardTotal(typed) \in Int
    BY <1>1, <2>1, CardPasses
  <2>4. \A j \in D : /\ f[j] = IF j % 2 = 1 THEN Digits!Doubled(intended[j]) ELSE intended[j]
                     /\ g[j] = IF j % 2 = 1 THEN Digits!Doubled(typed[j]) ELSE typed[j]
    BY DEF CardValues
  <2>6. CardTotal(intended) = SumFunctionOnSet(f, D) /\ CardTotal(typed) = SumFunctionOnSet(g, D)
    BY DEF CardTotal
  <2>0. i \in Int /\ (i % 2 = 1 <=> (i + 1) % 2 # 1)
    BY <1>2
  <2> HIDE DEF D, f, g, x, y
  <2>7. \A j \in D : j # i /\ j # i + 1 => f[j] = g[j]
    BY <1>3, <2>2, <2>4
  <2>8. SumFunctionOnSet(g, D) - (g[i] + g[i + 1]) = SumFunctionOnSet(f, D) - (f[i] + f[i + 1])
    BY <1>3, <2>2, <2>3, <2>7, SumSwapped
  <2>9. /\ Digits!Doubled(x) \in 0..9 /\ Digits!Doubled(y) \in 0..9
        /\ Digits!Doubled(x) + y \in Nat /\ Digits!Doubled(y) + x \in Nat
    <3>1. Digits!Doubled(x) \in 0..9 /\ Digits!Doubled(y) \in 0..9
      BY <1>4, DoubledApart
    <3>2. QED
      BY <1>4, <3>1
  <2>10. \/ /\ f[i] + f[i + 1] = Digits!Doubled(x) + y
            /\ g[i] + g[i + 1] = Digits!Doubled(y) + x
         \/ /\ f[i] + f[i + 1] = Digits!Doubled(y) + x
            /\ g[i] + g[i + 1] = Digits!Doubled(x) + y
    <3>1. CASE i % 2 = 1
      <4>1. /\ f[i] = Digits!Doubled(x) /\ f[i + 1] = y
            /\ g[i] = Digits!Doubled(y) /\ g[i + 1] = x
        BY <1>3, <2>0, <2>2, <2>4, <3>1 DEF x, y
      <4>2. QED
        BY <4>1
    <3>2. CASE i % 2 # 1
      <4>1. /\ f[i] = x /\ f[i + 1] = Digits!Doubled(y)
            /\ g[i] = y /\ g[i + 1] = Digits!Doubled(x)
        BY <1>3, <2>0, <2>2, <2>4, <3>2 DEF x, y
      <4>2. QED
        BY <1>4, <2>9, <4>1
    <3>3. QED
      BY <3>1, <3>2
  <2>11. (Digits!Doubled(x) + y) % 10 = (Digits!Doubled(y) + x) % 10
    <3> DEFINE a == Digits!Doubled(x) + y
               b == Digits!Doubled(y) + x
               s == CardTotal(intended)
               t == CardTotal(typed)
    <3>0. /\ s \in Int /\ t \in Int /\ s % 10 = 0 /\ t % 10 = 0 /\ a \in Nat /\ b \in Nat
          /\ t - (g[i] + g[i + 1]) = s - (f[i] + f[i + 1])
      BY <2>1, <2>3, <2>6, <2>8, <2>9
    <3> HIDE DEF a, b, s, t
    <3>1. CASE t - b = s - a
      <4>1. a % 10 = b % 10
        BY <3>0, <3>1, SameLastDigit
      <4>2. QED
        BY <4>1 DEF a, b
    <3>2. CASE t - a = s - b
      <4>1. a % 10 = b % 10
        BY <3>0, <3>2, SameLastDigit
      <4>2. QED
        BY <4>1 DEF a, b
    <3>3. t - b = s - a \/ t - a = s - b
      BY <2>10, <3>0 DEF a, b
    <3>4. QED
      BY <3>1, <3>2, <3>3
  <2>12. x - y \in {0, 9, -9}
    BY <1>4, <2>11, DoubledApart
  <2>13. y - x \in {-9, 9}
    BY <1>4, <1>5, <2>12
  <2>14. QED
    BY <1>3, <1>8, <2>13 DEF x, y
<1>9. QED
  BY <1>7, <1>8

(* The two checks of routing numbers.                                      *)
LEMMA ChecksHold == DigitsInv => Digits!ChecksAgree
<1> SUFFICES ASSUME DigitsInv, Len(typed) = 9
             PROVE  /\ Digits!ValidateAbaRouting(typed)
                          <=> typed[9] = Digits!ComputeRoutingCheckDigit(typed)
                    /\ Digits!ValidateRoutingNumber(typed) => Digits!ValidateAbaRouting(typed)
                    /\ Digits!Prefix(typed) \in 1..12 =>
                           Digits!DistrictOfMap(Digits!Prefix(typed))
                               = Digits!GetFederalReserveDistrict(Digits!Prefix(typed))
  BY DEF Digits!ChecksAgree
<1> DEFINE d == typed
           sum == Digits!WeightedSum(d)
<1>1. /\ d[1] \in Nat /\ d[2] \in Nat /\ d[3] \in Nat /\ d[4] \in Nat
      /\ d[5] \in Nat /\ d[6] \in Nat /\ d[7] \in Nat /\ d[8] \in Nat /\ d[9] \in 0..9
  BY NineDigits DEF DigitsInv
<1>2. sum = 3 * d[1] + 7 * d[2] + d[3] + 3 * d[4] + 7 * d[5] + d[6] + 3 * d[7] + 7 * d[8]
  BY DEF Digits!WeightedSum
<1>3. Digits!Checksum(d) = 3 * (d[1] + d[4] + d[7]) + 7 * (d[2] + d[5] + d[8])
                              + (d[3] + d[6] + d[9])
  BY DEF Digits!Checksum
<1> HIDE DEF sum, d
<1>4. sum \in Nat /\ Digits!Checksum(d) = d[9] + sum
  <2>1. PICK a \in Nat : a = d[1] + d[4] + d[7]
    BY <1>1
  <2>2. PICK b \in Nat : b = d[2] + d[5] + d[8]
    BY <1>1
  <2>3. PICK c \in Nat : c = d[3] + d[6]
    BY <1>1
  <2>4. sum = 3 * a + 7 * b + c
    BY <1>1, <1>2, <2>1, <2>2, <2>3
  <2>5. Digits!Checksum(d) = 3 * a + 7 * b + (c + d[9])
    BY <1>1, <1>3, <2>1, <2>2, <2>3
  <2>6. QED
    BY <1>1, <2>4, <2>5
<1>5. Digits!ValidateAbaRouting(d) <=> d[9] = Digits!ComputeRoutingCheckDigit(d)
  <2>1. d[9] = (10 - (sum % 10)) % 10 <=> (d[9] + sum) % 10 = 0
    BY <1>1, <1>4, CheckMakesTen
  <2>2. QED
    BY <1>4, <2>1 DEF Digits!ValidateAbaRouting, Digits!ComputeRoutingCheckDigit, sum, d
<1>6. Digits!ValidateRoutingNumber(d) => Digits!ValidateAbaRouting(d)
  BY <1>5 DEF Digits!ValidateRoutingNumber
<1>7. ASSUME NEW p \in 1..12 PROVE Digits!DistrictOfMap(p) = Digits!GetFederalReserveDistrict(p)
  <2>1. p \in 0..12 /\ p # 0 /\ p \notin 21..29 /\ p \notin 30..32 /\ p \notin 61..69
        /\ p \notin 70..72 /\ p # 80 /\ p \notin 90..92 /\ p \notin 21..32
    OBVIOUS
  <2>2. Digits!DistrictOfMap(p) = p
    BY <2>1 DEF Digits!DistrictOfMap
  <2>3. Digits!GetFederalReserveDistrict(p) = p
    BY <2>1 DEF Digits!GetFederalReserveDistrict
  <2>4. QED
    BY <2>2, <2>3
<1>8. QED
  BY <1>5, <1>6, <1>7 DEF d

(* A function that joins the sequences one by one is what flattens them.   *)
Joins(h, seqs, n) == h = [i \in 1..n |-> IF i = 1 THEN seqs[i] ELSE h[i - 1] \o seqs[i]]

(* There is one such function.                                             *)
LEMMA Flattened ==
    ASSUME NEW seqs, NEW n \in Nat, n >= 1, Len(seqs) = n, NEW h, Joins(h, seqs, n)
    PROVE  Digits!FlattenSeq(seqs) = h[n]
<1> DEFINE choice == CHOOSE f : Joins(f, seqs, n)
<1>1. Joins(choice, seqs, n)
  OBVIOUS
<1>2. Digits!FlattenSeq(seqs) = choice[n]
  BY DEF Digits!FlattenSeq, Joins
<1> HIDE DEF choice
<1> DEFINE G == {k \in Nat : k + 1 <= n => choice[k + 1] = h[k + 1]}
<1>3. 0 \in G
  BY <1>1 DEF Joins
<1>4. ASSUME NEW k \in Nat, k \in G PROVE k + 1 \in G
  <2>1. SUFFICES ASSUME (k + 1) + 1 <= n PROVE choice[(k + 1) + 1] = h[(k + 1) + 1]
    OBVIOUS
  <2>2. (k + 1) + 1 \in 1..n /\ (k + 1) + 1 # 1 /\ ((k + 1) + 1) - 1 = k + 1 /\ k + 1 <= n
    BY <2>1
  <2>3. choice[k + 1] = h[k + 1]
    BY <1>4, <2>2
  <2>4. /\ choice[(k + 1) + 1] = choice[((k + 1) + 1) - 1] \o seqs[(k + 1) + 1]
        /\ h[(k + 1) + 1] = h[((k + 1) + 1) - 1] \o seqs[(k + 1) + 1]
    BY <1>1, <2>2 DEF Joins
  <2>5. QED
    BY <2>2, <2>3, <2>4
<1>5. n - 1 \in G
  <2> HIDE DEF G
  <2>1. Nat \subseteq G
    BY <1>3, <1>4, NumbersGrow
  <2>2. QED
    BY <2>1
<1>6. QED
  BY <1>2, <1>5

(* Two parts of a number that lie side by side.                            *)
LEMMA SideBySide ==
    ASSUME NEW S, NEW d \in Seq(S), NEW a \in Nat, NEW b \in Nat, a <= b, b <= Len(d)
    PROVE  SubSeq(d, 1, a) \o SubSeq(d, a + 1, b) = SubSeq(d, 1, b)
<1> DEFINE p == SubSeq(d, 1, a)
           q == SubSeq(d, a + 1, b)
           r == SubSeq(d, 1, b)
<1>1. Len(d) \in Nat
  OBVIOUS
<1>2. p \in Seq(S) /\ Len(p) = a /\ \A i \in 1..a : p[i] = d[i]
  BY <1>1
<1>3. q \in Seq(S) /\ Len(q) = b - a /\ \A i \in 1..(b - a) : q[i] = d[a + i]
  <2>1. q = [i \in 1..(b - a) |-> d[a + i]] /\ Len(q) = b - a
    BY <1>1
  <2>2. \A i \in 1..(b - a) : d[a + i] \in S
    BY <1>1
  <2>3. QED
    BY <2>1, <2>2
<1>4. r \in Seq(S) /\ Len(r) = b /\ \A i \in 1..b : r[i] = d[i]
  BY <1>1
<1> HIDE DEF p, q, r
<1>5. p \o q \in Seq(S) /\ Len(p \o q) = b
  <2>1. p \in Seq(S) /\ q \in Seq(S) /\ Len(p) = a /\ Len(q) = b - a
    BY <1>2, <1>3
  <2>2. p \o q \in Seq(S) /\ Len(p \o q) = Len(p) + Len(q)
    BY ONLY <2>1
  <2>3. QED
    BY <2>1, <2>2
<1>6. \A i \in 1..b : (p \o q)[i] = r[i]
  <2>1. ASSUME NEW i \in 1..b PROVE (p \o q)[i] = r[i]
    <3>1. CASE i <= a
      BY <1>2, <1>3, <1>4, <3>1
    <3>2. CASE ~(i <= a)
      <4>1. (p \o q)[i] = q[i - a]
        BY <1>2, <1>3, <3>2
      <4>2. i - a \in 1..(b - a) /\ a + (i - a) = i
        BY <3>2
      <4>3. QED
        BY <1>3, <1>4, <4>1, <4>2
    <3>3. QED
      BY <3>1, <3>2
  <2>2. QED
    BY <2>1
<1>7. p \o q = r
  BY <1>4, <1>5, <1>6
<1>8. QED
  BY <1>7 DEF p, q, r

(* The groups of a number are its digits, in fours from the right.         *)
LEMMA GroupsHold == DigitsInv => Digits!GroupedInFours
<1> SUFFICES ASSUME DigitsInv PROVE Digits!GroupedInFours
  OBVIOUS
<1> DEFINE d == typed
           l == Len(d)
           g == Digits!Groups(d)
<1>1. d \in Seq(Digits!Digit) /\ l \in Nat /\ l >= 1
  BY NumberFacts DEF DigitsInv
<1>2. CASE l <= 8
  <2>1. g = <<d>>
    BY <1>2 DEF Digits!Groups
  <2>2. Len(g) = 1 /\ g[1] = d
    BY <2>1
  <2> HIDE DEF g, d
  <2>3. Digits!FlattenSeq(g) = d
    <3> DEFINE h == [i \in 1..1 |-> d]
    <3>1. Joins(h, g, 1)
      BY <2>2 DEF Joins
    <3>2. h[1] = d
      OBVIOUS
    <3> HIDE DEF h
    <3>3. QED
      BY <2>2, <3>1, <3>2, Flattened
  <2>4. l \in 1..(IF Len(typed) <= 8 THEN 8 ELSE 4)
    BY <1>1, <1>2 DEF d
  <2>5. \A i \in 2..Len(g) : Len(g[i]) = 4
    BY <2>2
  <2>6. QED
    BY <2>2, <2>3, <2>4, <2>5 DEF Digits!GroupedInFours, g, d
<1>3. CASE l > 8
  <2> DEFINE n == (l + 3) \div 4
             end(j) == l - 4 * (n - j)
             h == [i \in 1..n |-> SubSeq(d, 1, end(i))]
  <2>1. g = [j \in 1..n |-> SubSeq(d, IF j = 1 THEN 1 ELSE end(j) - 3, end(j))]
    BY <1>1, <1>3 DEF Digits!Groups
  <2> HIDE DEF g, d, l
  <2>2. n \in Nat /\ n >= 1 /\ 4 * n >= l /\ 4 * n <= l + 3
    BY <1>1, <1>3
  <2> HIDE DEF n
  <2>3. \A j \in 1..n : /\ end(j) \in Nat /\ end(j) <= l /\ end(j) >= 1
                        /\ j # 1 => end(j) = end(j - 1) + 4 /\ end(j) - 3 = end(j - 1) + 1
    BY <1>1, <2>2
  <2>4. end(1) \in 1..4 /\ end(n) = l
    BY <1>1, <2>2
  <2> HIDE DEF end
  <2>5. Len(g) = n
    BY <2>1, <2>2
  <2>6. Joins(h, g, n)
    <3>1. ASSUME NEW i \in 1..n PROVE h[i] = IF i = 1 THEN g[i] ELSE h[i - 1] \o g[i]
      <4>1. CASE i = 1
        BY <2>1, <4>1
      <4>2. CASE i # 1
        <5>1. i - 1 \in 1..n
          BY <2>2, <4>2
        <5>2. g[i] = SubSeq(d, end(i - 1) + 1, end(i)) /\ h[i - 1] = SubSeq(d, 1, end(i - 1))
              /\ h[i] = SubSeq(d, 1, end(i))
          BY <2>1, <2>3, <4>2, <5>1
        <5>3. /\ end(i - 1) \in Nat /\ end(i) \in Nat /\ end(i - 1) <= end(i) /\ end(i) <= Len(d)
          BY <1>1, <2>3, <4>2, <5>1 DEF l
        <5>4. QED
          BY <1>1, <4>2, <5>2, <5>3, SideBySide
      <4>3. QED
        BY <4>1, <4>2
    <3>2. QED
      BY <3>1 DEF Joins
  <2>7. h[n] = d
    <3>1. h[n] = SubSeq(d, 1, l)
      <4>1. n \in 1..n
        BY <2>2
      <4>2. h[n] = SubSeq(d, 1, end(n))
        BY <4>1
      <4>3. QED
        BY <2>4, <4>2
    <3>2. SubSeq(d, 1, l) = d
      BY <1>1 DEF l
    <3>3. QED
      BY <3>1, <3>2
  <2> HIDE DEF h
  <2>8. Digits!FlattenSeq(g) = d
    BY <2>2, <2>5, <2>6, <2>7, Flattened
  <2>9. \A i \in 2..n : Len(g[i]) = 4
    <3>1. ASSUME NEW i \in 2..n PROVE Len(g[i]) = 4
      <4>1. i \in 1..n /\ i # 1 /\ i - 1 \in 1..n
        BY <2>2
      <4>2. g[i] = SubSeq(d, end(i) - 3, end(i))
        BY <2>1, <4>1
      <4>3. end(i) \in Nat /\ end(i) - 3 >= 1 /\ end(i) <= Len(d)
        BY <1>1, <2>3, <4>1 DEF l
      <4>4. Len(SubSeq(d, end(i) - 3, end(i))) = (end(i) - (end(i) - 3)) + 1
        BY <1>1, <4>3
      <4>5. QED
        BY <4>2, <4>3, <4>4
    <3>2. QED
      BY <3>1
  <2>10. Len(g[1]) \in 1..4
    <3>1. g[1] = SubSeq(d, 1, end(1))
      <4>1. 1 \in 1..n
        BY <2>2
      <4>2. QED
        BY <2>1, <4>1
    <3>2. end(1) \in Nat /\ end(1) >= 1 /\ end(1) <= Len(d)
      BY <1>1, <2>2, <2>3 DEF l
    <3>3. Len(g[1]) = end(1)
      BY <1>1, <3>1, <3>2
    <3>4. QED
      BY <2>4, <3>3
  <2>11. QED
    <3>1. ~(Len(typed) <= 8)
      BY <1>1, <1>3 DEF l, d
    <3>2. /\ Digits!FlattenSeq(Digits!Groups(typed)) = typed
          /\ Len(Digits!Groups(typed)[1]) \in 1..4
      BY <2>8, <2>10 DEF g, d
    <3>3. \A i \in 2..Len(Digits!Groups(typed)) : Len(Digits!Groups(typed)[i]) = 4
      BY <2>5, <2>9 DEF g, d
    <3>4. QED
      BY <3>1, <3>2, <3>3 DEF Digits!GroupedInFours
<1>4. QED
  BY <1>1, <1>2, <1>3

(* With an invariant for each of them, what is reckoned from records and   *)
(* digits adds up: of the analytics that ClickHouse is told of failures    *)
(* truly, of a chart that it is looked at within a year, of a number that  *)
(* it is one mistake away from a right one.  Of a chart nothing is said    *)
(* where the clock is changed: there the intervals do overlap.             *)
THEOREM FiguresHold ==
    VisitSpec => []((At("chart") => ~DaylightSaving) => FiguresAddUp)
<1> DEFINE I ==
        /\ At("analytics") => AnalyticsInv
        /\ At("chart") => ChartInv
        /\ At("numbers") => DigitsInv
<1>1. VisitInit => I
  BY AnalyticsInit, ChartInit, DigitsInit DEF VisitInit, At
<1>2. I /\ [VisitNext]_visitVars => I'
  <2> SUFFICES ASSUME I, [VisitNext]_visitVars PROVE I'
    OBVIOUS
  <2>1. At("analytics")' => AnalyticsInv'
    BY AnalyticsStep DEF VisitNext, visitVars, At
  <2>2. At("chart")' => ChartInv'
    BY ChartStep DEF VisitNext, visitVars, At
  <2>3. At("numbers")' => DigitsInv'
    BY DigitsStep DEF VisitNext, visitVars, At
  <2>4. QED
    BY <2>1, <2>2, <2>3
<1>3. I => ((At("chart") => ~DaylightSaving) => FiguresAddUp)
  <2>1. AnalyticsInv => /\ Analytics!DirectionRight /\ Analytics!PartsAddUp
                        /\ Analytics!NetFlowsAgree /\ Analytics!DeclinedIsFailed
    BY DirectionHolds, PartsHold, NetFlowsHold, DeclinedHolds
  <2>2. ChartInv /\ ~DaylightSaving =>
          Chart!OneBucket /\ Chart!NoGap /\ Chart!HeadingsApart
    BY OneBucketHolds, NoGapHolds, HeadingsHold
  <2>3. DigitsInv => /\ Digits!WrongDigitNoticed /\ Digits!SwapNoticed
                     /\ Digits!ChecksAgree /\ Digits!PairsDiffer /\ Digits!GroupedInFours
    BY WrongDigitHolds, SwapHolds, ChecksHold, PairsHold, GroupsHold
  <2>4. QED
    BY <2>1, <2>2, <2>3 DEF FiguresAddUp
<1> HIDE DEF I
<1>4. QED
  BY <1>1, <1>2, <1>3, PTL DEF VisitSpec

-----------------------------------------------------------------------------
(* The two copies of the consumer agree on its types, too.                 *)
LEMMA PoisonedTypes == PoisonedInv => Poisoned!TypeOK
<1>1. Poisoned!Message = Again!Message /\ Poisoned!Partition = Again!Partition
  BY DEF Poisoned!Message, Again!Message, Poisoned!TxMessage, Again!TxMessage,
         Poisoned!ActivityMessage, Again!ActivityMessage, Poisoned!Partition, Again!Partition
<1>2. QED
  BY <1>1 DEF PoisonedInv, Poisoned!TypeOK, Again!TypeOK, Poisoned!TxMessage, Again!TxMessage,
              Poisoned!ActivityMessage, Again!ActivityMessage

(* The consumers and the screens keep their types: of the tables, the log, *)
(* the ledger and the account pages by invariants of their own, which      *)
(* count the calls under way; of the figures by those of FiguresHold.      *)
THEOREM RecordTypesHold == VisitSpec => []TypesOK
<1> DEFINE I ==
        /\ At("malformed") => PoisonedInv
        /\ At("tables") => TablesInv /\ Tables!TypeOK
        /\ At("transactions") => ListInv /\ Transactions!TypeOK
        /\ At("activity") => LogTypesInv
        /\ At("account") => AccountTypesInv
        /\ At("account_main") => AccountTypesInv
        /\ At("audit") => AuditTypesInv
        /\ At("audit_failing") => AuditFailTypesInv
        /\ At("analytics") => AnalyticsInv
        /\ At("chart") => ChartInv
        /\ At("numbers") => DigitsInv
<1>1. VisitInit => Init /\ I
  BY SameInit, PoisonedInit, TablesInit, TablesTypesInit, ListInit, ListTypesInit,
     LogTypesInit, AccountTypesInit, MainAccountTypesInit, AuditTypesInit, AuditFailTypesInit,
     AnalyticsInit, ChartInit, DigitsInit
  DEF VisitInit, At
<1>2. [VisitNext]_visitVars => [Next]_vars
  BY DEF VisitNext, visitVars
<1>3. I /\ [VisitNext]_visitVars => I'
  <2> SUFFICES ASSUME I, [VisitNext]_visitVars PROVE I'
    OBVIOUS
  <2>1. At("malformed")' => PoisonedInv'
    <3> SUFFICES ASSUME At("malformed")' PROVE PoisonedInv'
      OBVIOUS
    <3>1. At("malformed")
      BY DEF VisitNext, visitVars, At
    <3>2. Poisoned!Next \/ UNCHANGED poisonedVars
      BY <3>1 DEF VisitNext, visitVars
    <3>3. Again!Next \/ UNCHANGED Again!vars
      BY <3>2, SameNext DEF poisonedVars, Again!vars
    <3>4. QED
      BY <3>1, <3>3, PoisonedStep
  <2>2. At("tables")' => (TablesInv /\ Tables!TypeOK)'
    BY TablesStep, TablesTypesStep DEF VisitNext, visitVars, At
  <2>3. At("transactions")' => (ListInv /\ Transactions!TypeOK)'
    BY ListStep, ListTypesStep DEF VisitNext, visitVars, At
  <2>4. At("activity")' => LogTypesInv'
    BY LogTypesStep DEF VisitNext, visitVars, At
  <2>5. At("account")' => AccountTypesInv'
    BY AccountTypesStep DEF VisitNext, visitVars, At
  <2>6. At("account_main")' => AccountTypesInv'
    BY MainAccountTypesStep DEF VisitNext, visitVars, At
  <2>7. At("audit")' => AuditTypesInv'
    BY AuditTypesStep DEF VisitNext, visitVars, At
  <2>8. At("audit_failing")' => AuditFailTypesInv'
    BY AuditFailTypesStep DEF VisitNext, visitVars, At
  <2>9. At("analytics")' => AnalyticsInv'
    BY AnalyticsStep DEF VisitNext, visitVars, At
  <2>10. At("chart")' => ChartInv'
    BY ChartStep DEF VisitNext, visitVars, At
  <2>11. At("numbers")' => DigitsInv'
    BY DigitsStep DEF VisitNext, visitVars, At
  <2>12. QED
    BY <2>1, <2>2, <2>3, <2>4, <2>5, <2>6, <2>7, <2>8, <2>9, <2>10, <2>11
<1>4. TypeOK /\ I => TypesOK
  BY PoisonedTypes, LogTyped, AccountTyped, MainAccountTyped, AnalyticsTypes, ChartTypes, DigitsTypes
  DEF TypesOK, AuditTypesInv, AuditFailTypesInv
<1> HIDE DEF I
<1>5. VisitSpec => Spec
  BY <1>1, <1>2, PTL DEF VisitSpec, Spec
<1>6. VisitSpec => []I
  BY <1>1, <1>3, PTL DEF VisitSpec
<1>7. QED
  BY <1>4, <1>5, <1>6, TypeCorrect, PTL
================================================================================
