-------------------------- MODULE RecordScreensProofs --------------------------
(***************************************************************************)
(* Theorems about the visits of RecordScreens, for any tables, pages,      *)
(* filters and numbers of calls: what is displayed is what is asked for,   *)
(* and damage to what is stored needs faults.  At the end the lemmas about *)
(* types from which RecordFiguresProofs proves those of all the screens.   *)
(***************************************************************************)
EXTENDS RecordScreens, Lists, ConsumerProofs, FiniteSetTheorems, SequenceTheorems

-----------------------------------------------------------------------------
(* Lists.                                                                  *)

(* Without its first member a list is the rest of it.                      *)
LEMMA WithoutFirst ==
    ASSUME NEW S, NEW s \in Seq(S), s # <<>>
    PROVE  /\ RemoveAt(s, 1) \in Seq(S)
           /\ Len(RemoveAt(s, 1)) = Len(s) - 1
           /\ \A j \in 1..(Len(s) - 1) : RemoveAt(s, 1)[j] = s[j + 1]
<1>1. Len(s) \in Nat /\ Len(s) >= 1 /\ DOMAIN s = 1..Len(s) /\ \A j \in 1..Len(s) : s[j] \in S
  OBVIOUS
<1>2. SubSeq(s, 1, 1 - 1) = <<>>
  OBVIOUS
<1>3. /\ SubSeq(s, 2, Len(s)) \in Seq(S) /\ Len(SubSeq(s, 2, Len(s))) = Len(s) - 1
      /\ \A j \in 1..(Len(s) - 1) : SubSeq(s, 2, Len(s))[j] = s[j + 1]
  BY <1>1
<1>4. RemoveAt(s, 1) = SubSeq(s, 2, Len(s))
  BY <1>2, <1>3 DEF RemoveAt
<1>5. QED
  BY <1>3, <1>4

(* The last member of a list remains, unless it is the first.              *)
LEMMA LastRemains ==
    ASSUME NEW S, NEW s \in Seq(S), s # <<>>
    PROVE  /\ RemoveAt(s, 1) \in Seq(S)
           /\ RemoveAt(s, 1) = <<>> => s[1] = s[Len(s)]
           /\ RemoveAt(s, 1) # <<>> => RemoveAt(s, 1)[Len(RemoveAt(s, 1))] = s[Len(s)]
<1> DEFINE r == RemoveAt(s, 1)
<1>1. /\ r \in Seq(S) /\ Len(r) = Len(s) - 1
      /\ \A j \in 1..(Len(s) - 1) : r[j] = s[j + 1]
  BY WithoutFirst
<1> HIDE DEF r
<1>2. Len(s) \in Nat /\ Len(s) # 0 /\ (r = <<>> <=> Len(r) = 0)
  BY <1>1
<1>3. CASE Len(s) = 1
  BY <1>1, <1>2, <1>3 DEF r
<1>4. CASE Len(s) # 1
  <2>1. Len(s) - 1 \in 1..(Len(s) - 1) /\ (Len(s) - 1) + 1 = Len(s)
    <3>1. \A n \in Nat : n # 0 /\ n # 1 => n - 1 \in 1..(n - 1) /\ (n - 1) + 1 = n
      OBVIOUS
    <3>2. QED
      BY <1>2, <1>4, <3>1, Zenon
  <2>2. Len(r) # 0 /\ r[Len(r)] = s[Len(s)]
    BY <1>1, <2>1
  <2>3. QED
    BY <1>1, <1>2, <2>2 DEF r
<1>5. QED
  BY <1>3, <1>4

(* The numbers of a finite set can be put in order: each has a rank.       *)
LEMMA Ranked ==
    ASSUME NEW S \in SUBSET Nat, IsFiniteSet(S)
    PROVE  \E s \in [1..Cardinality(S) -> S] : \A i, j \in DOMAIN s : i < j => s[i] < s[j]
<1> DEFINE n == Cardinality(S)
           below(x) == {y \in S : y < x}
           rank == [x \in S |-> Cardinality(below(x)) + 1]
<1>0. \A x \in S : x \in Nat
  OBVIOUS
<1>1. n \in Nat
  BY FS_CardinalityType
<1>2. ASSUME NEW x \in S
      PROVE  IsFiniteSet(below(x)) /\ Cardinality(below(x)) \in Nat /\ Cardinality(below(x)) < n
  <2>1. IsFiniteSet(S \ {x}) /\ Cardinality(S \ {x}) = n - 1
    BY FS_RemoveElement
  <2>2. below(x) \in SUBSET (S \ {x})
    OBVIOUS
  <2>3. IsFiniteSet(below(x)) /\ Cardinality(below(x)) <= n - 1
    BY <2>1, <2>2, FS_Subset
  <2>4. Cardinality(below(x)) \in Nat
    BY <2>3, FS_CardinalityType
  <2> HIDE DEF below
  <2>5. QED
    BY <1>1, <2>3, <2>4
<1>3. ASSUME NEW x \in S, NEW y \in S, x < y
      PROVE  Cardinality(below(x)) < Cardinality(below(y))
  <2>0. \A z \in S : z < x => z < y
    BY <1>0, <1>3
  <2>1. below(x) \in SUBSET below(y) /\ x \in below(y) /\ x \notin below(x)
    <3>1. ~(x < x)
      BY <1>0
    <3>2. QED
      BY <1>3, <2>0, <3>1, Zenon
  <2>2. below(x) # below(y)
    BY <2>1
  <2>3. /\ Cardinality(below(x)) <= Cardinality(below(y))
        /\ Cardinality(below(x)) # Cardinality(below(y))
    BY <1>2, <2>1, <2>2, FS_Subset
  <2>4. QED
    BY <1>2, <2>3
<1>4. \A x \in S : rank[x] \in 1..n
  BY <1>1, <1>2
<1>5. \A x, y \in S : x < y => rank[x] < rank[y]
  BY <1>2, <1>3
<1> HIDE DEF below
<1>6. rank \in [S -> 1..n]
  BY <1>4
<1> HIDE DEF rank
<1>7. rank \in Injection(S, 1..n)
  <2>1. \A x, y \in S : rank[x] = rank[y] => x = y
    <3>1. SUFFICES ASSUME NEW x \in S, NEW y \in S, x # y PROVE rank[x] # rank[y]
      OBVIOUS
    <3>2. x < y \/ y < x
      BY <3>1
    <3>3. rank[x] \in Int /\ rank[y] \in Int
      BY <1>4
    <3>4. QED
      BY <1>5, <3>2, <3>3
  <2>2. QED
    BY <1>6, <2>1 DEF Injection, IsInjective
<1>8. rank \in Surjection(S, 1..n)
  <2>1. IsFiniteSet(1..n) /\ Cardinality(1..n) = n
    BY <1>1, FS_Interval
  <2>2. \/ Cardinality(S) # Cardinality(1..n)
        \/ rank \in Surjection(S, 1..n)
    BY <1>7, <2>1, FS_Injection
  <2>3. QED
    BY <2>1, <2>2
<1> DEFINE s == [k \in 1..n |-> CHOOSE x \in S : rank[x] = k]
<1>9. \A k \in 1..n : s[k] \in S /\ rank[s[k]] = k
  <2>1. \A k \in 1..n : \E x \in S : rank[x] = k
    BY <1>8 DEF Surjection
  <2>2. QED
    BY <2>1
<1>10. s \in [1..n -> S]
  BY <1>9
<1>11. ASSUME NEW i \in DOMAIN s, NEW j \in DOMAIN s, i < j
       PROVE  s[i] < s[j]
  <2>1. i \in 1..n /\ j \in 1..n
    OBVIOUS
  <2> HIDE DEF s
  <2>2. s[i] \in S /\ s[j] \in S /\ rank[s[i]] = i /\ rank[s[j]] = j
    BY <1>9, <2>1
  <2>3. s[i] # s[j]
    BY <1>11, <2>1, <2>2
  <2>4. ~(s[j] < s[i])
    <3>1. s[j] < s[i] => j < i
      BY <1>5, <2>2
    <3>2. ~(j < i)
      BY <1>1, <1>11, <2>1
    <3>3. QED
      BY <3>1, <3>2
  <2>5. s[i] \in Nat /\ s[j] \in Nat
    BY <1>0, <2>2
  <2>6. QED
    BY <2>3, <2>4, <2>5
<1> HIDE DEF s
<1>12. QED
  BY <1>10, <1>11

(* Ascending puts every number once.                                       *)
LEMMA InOrder ==
    ASSUME NEW S \in SUBSET Nat, IsFiniteSet(S)
    PROVE  /\ Ascending(S) \in [1..Cardinality(S) -> S]
           /\ Cardinality(S) \in Nat /\ Len(Ascending(S)) = Cardinality(S)
           /\ \A i, j \in 1..Cardinality(S) : i # j => Ascending(S)[i] # Ascending(S)[j]
<1>1. Cardinality(S) \in Nat
  BY FS_CardinalityType
<1>2. /\ Ascending(S) \in [1..Cardinality(S) -> S]
      /\ \A i, j \in DOMAIN Ascending(S) : i < j => Ascending(S)[i] < Ascending(S)[j]
  BY Ranked DEF Ascending
<1>3. ASSUME NEW i \in 1..Cardinality(S), NEW j \in 1..Cardinality(S), i # j
      PROVE  Ascending(S)[i] # Ascending(S)[j]
  <2>1. i < j \/ j < i
    BY <1>1, <1>3
  <2>2. Ascending(S)[i] \in Nat /\ Ascending(S)[j] \in Nat
    BY <1>2
  <2>3. Ascending(S)[i] < Ascending(S)[j] \/ Ascending(S)[j] < Ascending(S)[i]
    BY <1>2, <2>1
  <2>4. QED
    BY <2>2, <2>3
<1>4. Len(Ascending(S)) = Cardinality(S)
  BY <1>1, <1>2
<1>5. QED
  BY <1>1, <1>2, <1>3, <1>4

(* Without one of its members a list is shorter, and nothing is new in it. *)
LEMMA WithoutOne ==
    ASSUME NEW S, NEW s \in Seq(S), NEW i \in DOMAIN s
    PROVE  RemoveAt(s, i) \in Seq(S) /\ Len(RemoveAt(s, i)) = Len(s) - 1
<1>1. Len(s) \in Nat /\ i \in Nat /\ 1 <= i /\ i <= Len(s)
  OBVIOUS
<1> DEFINE a == SubSeq(s, 1, i - 1)
           b == SubSeq(s, i + 1, Len(s))
<1>2. a \in Seq(S) /\ Len(a) = i - 1 /\ b \in Seq(S) /\ Len(b) = Len(s) - i
  BY <1>1
<1> HIDE DEF a, b
<1>3. a \in Seq(S) /\ b \in Seq(S)
  BY <1>2
<1>4. a \o b \in Seq(S) /\ Len(a \o b) = Len(a) + Len(b)
  BY ONLY <1>3
<1>5. RemoveAt(s, i) = a \o b
  BY DEF RemoveAt, a, b
<1>6. i - 1 + (Len(s) - i) = Len(s) - 1
  BY ONLY <1>1
<1>7. QED
  BY <1>2, <1>4, <1>5, <1>6

(* So many numbers are finitely many.                                      *)
LEMMA UpTo == ASSUME NEW n \in Int PROVE IsFiniteSet(1..n)
  BY FS_Interval

(* So many are counted from one.                                           *)
LEMMA CountTo ==
    ASSUME NEW n \in Nat PROVE Cardinality(1..n) = n
  BY FS_Interval

-----------------------------------------------------------------------------
(* The list of transactions.                                               *)

ListFilters == Transactions!Filters

(* The last call is for the filter as it is; without a call the list is    *)
(* that of the filter.                                                     *)
ListInv ==
    /\ <<dayRange, txType, minAmount, sortAsc>> \in ListFilters
    /\ calls \in Seq(ListFilters)
    /\ calls # <<>> => calls[Len(calls)] = <<dayRange, txType, minAmount, sortAsc>>
    /\ calls = <<>> => shown = <<dayRange, txType, minAmount, sortAsc>>

(* At first the list is called for.                                        *)
LEMMA ListInit == Transactions!Init => ListInv
<1> SUFFICES ASSUME Transactions!Init PROVE ListInv
  OBVIOUS
<1>1. <<dayRange, txType, minAmount, sortAsc>> \in ListFilters
  BY TransactionsConstants
  DEF TransactionsConstants, Transactions!Init, ListFilters, Transactions!Filters
<1>2. calls = <<<<dayRange, txType, minAmount, sortAsc>>>>
  BY DEF Transactions!Init, Transactions!filter
<1>3. /\ calls \in Seq(ListFilters) /\ calls # <<>>
      /\ calls[Len(calls)] = <<dayRange, txType, minAmount, sortAsc>>
  BY <1>1, <1>2
<1>4. QED
  BY <1>1, <1>3 DEF ListInv

(* The effect of a change of the filter.                                   *)
LEMMA ListRefetched ==
    ASSUME ListInv, <<dayRange, txType, minAmount, sortAsc>>' \in ListFilters,
           Transactions!Refetch
    PROVE  ListInv'
<1> DEFINE f == <<dayRange, txType, minAmount, sortAsc>>
<1>1. shown' = shown
  BY DEF Transactions!Refetch
<1>2. CASE f' # f
  <2>1. calls' = Append(calls, f')
    BY <1>2 DEF Transactions!Refetch, Transactions!Depends, Transactions!filter
  <2>2. /\ calls' \in Seq(ListFilters) /\ calls' # <<>>
        /\ calls'[Len(calls')] = f'
    BY <2>1 DEF ListInv
  <2>3. QED
    BY <2>2 DEF ListInv
<1>3. CASE f' = f
  <2>1. calls' = calls
    BY <1>3 DEF Transactions!Refetch, Transactions!Depends, Transactions!filter
  <2>2. QED
    BY <1>1, <1>3, <2>1 DEF ListInv
<1>4. QED
  BY <1>2, <1>3

(* A call ends: the answer to the last one is the list that is displayed.  *)
LEMMA ListAnswered ==
    ASSUME ListInv, NEW i \in DOMAIN calls, Transactions!Answered(i),
           shown' = calls[i]
    PROVE  ListInv'
<1>1. /\ i = 1 /\ calls' = Transactions!RemoveAt(calls, 1)
      /\ UNCHANGED <<dayRange, txType, minAmount, sortAsc>>
  BY DEF Transactions!Answered, Transactions!filter
<1>2. calls \in Seq(ListFilters) /\ calls # <<>>
  BY DEF ListInv
<1>3. calls' = RemoveAt(calls, 1)
  BY <1>1 DEF RemoveAt, Transactions!RemoveAt
<1>4. /\ calls' \in Seq(ListFilters)
      /\ calls' = <<>> => calls[1] = calls[Len(calls)]
      /\ calls' # <<>> => calls'[Len(calls')] = calls[Len(calls)]
  BY <1>2, <1>3, LastRemains
<1>5. calls[Len(calls)] = <<dayRange, txType, minAmount, sortAsc>>
  BY <1>2 DEF ListInv
<1>6. QED
  BY <1>1, <1>4, <1>5 DEF ListInv

(* Every step of the list keeps what is known of its calls.                *)
LEMMA ListStep == ListInv /\ (Transactions!Next \/ UNCHANGED listVars) => ListInv'
<1> SUFFICES ASSUME ListInv, (Transactions!Next \/ UNCHANGED listVars) PROVE ListInv'
  OBVIOUS
<1>0. /\ dayRange \in Ranges /\ txType \in {"all", "incoming", "outgoing"}
      /\ minAmount \in Minima /\ sortAsc \in BOOLEAN
      /\ calls \in Seq(ListFilters)
  BY Zenon DEF ListInv, ListFilters, Transactions!Filters
<1> USE DEF ListFilters, Transactions!Filters
<1>1. CASE Transactions!ApplyPreset
  BY <1>0, <1>1, ListRefetched DEF Transactions!ApplyPreset
<1>2. CASE Transactions!TypeCustomDays
  BY <1>2 DEF Transactions!TypeCustomDays, Transactions!filter, ListInv
<1>3. CASE Transactions!ApplyCustomDays
  BY <1>0, <1>3, ListRefetched DEF Transactions!ApplyCustomDays
<1>4. CASE Transactions!ChangeType
  BY <1>0, <1>4, ListRefetched DEF Transactions!ChangeType
<1>5. CASE Transactions!TypeAmount
  BY <1>0, <1>5, ListRefetched DEF Transactions!TypeAmount
<1>6. CASE Transactions!ToggleSort
  BY <1>0, <1>6, ListRefetched DEF Transactions!ToggleSort
<1>7. CASE Transactions!Reset
  BY <1>0, <1>7, ListRefetched, TransactionsConstants DEF TransactionsConstants, Transactions!Reset
<1>8. ASSUME NEW i \in DOMAIN calls, Transactions!Succeeds(i) PROVE ListInv'
  BY <1>8, ListAnswered DEF Transactions!Succeeds
<1>9. ASSUME NEW i \in DOMAIN calls PROVE ~Transactions!QueryFails(i)
  BY DEF Transactions!QueryFails
<1>10. ASSUME NEW i \in DOMAIN calls PROVE ~Transactions!Fails(i)
  <2>1. calls[i] \in ListFilters
    BY <1>0
  <2>2. calls[i][3] # "fraction"
    BY <2>1, TransactionsConstants DEF TransactionsConstants
  <2>3. QED
    BY <2>2 DEF Transactions!Fails, Transactions!Accepted
<1>11. CASE UNCHANGED listVars
  BY <1>11 DEF listVars, ListInv
<1>12. QED
  BY <1>1, <1>2, <1>3, <1>4, <1>5, <1>6, <1>7, <1>8, <1>9, <1>10, <1>11
  DEF Transactions!Next, Transactions!CallEnds

-----------------------------------------------------------------------------
(* The ledger of all transactions.                                         *)

Timeframed == [filter : [days : Days, search : AuditSearch], rows : SUBSET Int]

(* The token stays, and the last fetch is for the timeframe chosen.        *)
AuditInv ==
    /\ token = TRUE
    /\ selectedTimeframe \in Days /\ searchQuery \in AuditSearch
    /\ auditFetches \in Seq(Timeframed)
    /\ auditFetches # <<>> =>
           auditFetches[Len(auditFetches)].filter.days = selectedTimeframe
    /\ auditFetches = <<>> => transactions.filter.days = selectedTimeframe

(* At first the list is fetched for the timeframe chosen.                  *)
LEMMA AuditInit == Audit!Init => AuditInv
<1> SUFFICES ASSUME Audit!Init PROVE AuditInv
  OBVIOUS
<1> DEFINE f == [filter |-> [days |-> selectedTimeframe, search |-> "none"],
                 rows |-> {0}]
<1>1. /\ token = TRUE /\ selectedTimeframe \in Days /\ searchQuery = "none"
      /\ auditFetches = <<f>>
  BY DEF Audit!Init, Audit!Asked, Audit!Unread, Audit!NoTx
<1>2. "none" \in AuditSearch
  BY AuditConstants DEF AuditConstants
<1>3. f \in Timeframed /\ f.filter.days = selectedTimeframe
  BY <1>1, <1>2 DEF Timeframed
<1> HIDE DEF f
<1>4. /\ auditFetches \in Seq(Timeframed) /\ auditFetches # <<>>
      /\ auditFetches[Len(auditFetches)] = f
  BY <1>1, <1>3
<1>5. QED
  BY <1>1, <1>2, <1>3, <1>4 DEF AuditInv

(* One more fetch, for the timeframe as it is then.                        *)
LEMMA AuditFetched ==
    ASSUME AuditInv, selectedTimeframe' \in Days, searchQuery' = searchQuery,
           Audit!FetchBankTransactions
    PROVE  AuditInv'
<1> DEFINE f == [filter |-> [days |-> selectedTimeframe', search |-> searchQuery],
                 rows |-> {0}]
<1>1. /\ token = TRUE /\ searchQuery \in AuditSearch
      /\ auditFetches \in Seq(Timeframed)
  BY DEF AuditInv
<1>2. auditFetches' = Append(auditFetches, f) /\ token' = token
  BY <1>1 DEF Audit!FetchBankTransactions, Audit!Asked, Audit!Unread, Audit!NoTx
<1>3. f \in Timeframed /\ f.filter.days = selectedTimeframe'
  BY <1>1 DEF Timeframed
<1> HIDE DEF f
<1>4. /\ auditFetches' \in Seq(Timeframed) /\ auditFetches' # <<>>
      /\ auditFetches'[Len(auditFetches')] = f
  BY <1>1, <1>2, <1>3
<1>5. QED
  BY <1>1, <1>2, <1>3, <1>4 DEF AuditInv

(* Postgres answers one of the fetches; what it is for stays.              *)
LEMMA AuditRead ==
    ASSUME AuditInv, NEW i \in DOMAIN auditFetches, Audit!GetAllTransactions(i)
    PROVE  AuditInv'
<1> DEFINE f == [auditFetches[i] EXCEPT !.rows = Audit!Newest(records)]
<1>1. /\ auditFetches \in Seq(Timeframed) /\ i \in 1..Len(auditFetches)
      /\ Len(auditFetches) \in Nat
  BY DEF AuditInv
<1>2. /\ auditFetches' = [auditFetches EXCEPT ![i] = f]
      /\ UNCHANGED <<token, selectedTimeframe, searchQuery, transactions>>
  BY DEF Audit!GetAllTransactions
<1>3. auditFetches[i] \in Timeframed
  BY <1>1
<1>4. f \in Timeframed /\ f.filter = auditFetches[i].filter
  <2>1. Audit!Newest(records) \subseteq Int
    BY DEF Audit!Newest
  <2>2. QED
    BY <1>3, <2>1 DEF Timeframed
<1> HIDE DEF f
<1>5. /\ auditFetches' \in Seq(Timeframed) /\ Len(auditFetches') = Len(auditFetches)
      /\ \A j \in 1..Len(auditFetches) : auditFetches'[j].filter = auditFetches[j].filter
  BY <1>1, <1>2, <1>4
<1>6. auditFetches' # <<>> /\ Len(auditFetches) \in 1..Len(auditFetches)
  BY <1>1, <1>5
<1>7. QED
  BY <1>2, <1>5, <1>6 DEF AuditInv

(* The answer to the last fetch is the list that is displayed.             *)
LEMMA AuditAnswered ==
    ASSUME AuditInv, NEW i \in DOMAIN auditFetches, Audit!Succeeds(i)
    PROVE  AuditInv'
<1>1. /\ i = 1 /\ transactions' = auditFetches[1]
      /\ auditFetches' = RemoveAt(auditFetches, 1)
      /\ UNCHANGED <<token, selectedTimeframe, searchQuery>>
  BY DEF Audit!Succeeds, Audit!Answered, Audit!RemoveAt, RemoveAt
<1>2. auditFetches \in Seq(Timeframed) /\ auditFetches # <<>>
  BY DEF AuditInv
<1>3. /\ auditFetches' \in Seq(Timeframed)
      /\ auditFetches' = <<>> => auditFetches[1] = auditFetches[Len(auditFetches)]
      /\ auditFetches' # <<>> =>
             auditFetches'[Len(auditFetches')] = auditFetches[Len(auditFetches)]
  BY <1>1, <1>2, LastRemains
<1>4. auditFetches[Len(auditFetches)].filter.days = selectedTimeframe
  BY <1>2 DEF AuditInv
<1>5. QED
  BY <1>1, <1>3, <1>4 DEF AuditInv

(* Every step of the ledger keeps what is known of its fetches.            *)
LEMMA AuditStep == AuditInv /\ (Audit!Next \/ UNCHANGED auditVars) => AuditInv'
<1> SUFFICES ASSUME AuditInv, (Audit!Next \/ UNCHANGED auditVars) PROVE AuditInv'
  OBVIOUS
<1>1. ASSUME UNCHANGED <<token, selectedTimeframe, auditFetches, transactions>>,
             searchQuery' \in AuditSearch
      PROVE  AuditInv'
  BY <1>1 DEF AuditInv
<1>2. searchQuery \in AuditSearch /\ selectedTimeframe \in Days
  BY DEF AuditInv
<1>3. CASE Audit!SelectTimeframe
  BY <1>3, AuditFetched DEF Audit!SelectTimeframe
<1>4. CASE Audit!TypeSearch
  BY <1>1, <1>4 DEF Audit!TypeSearch
<1>5. CASE Audit!HandleSearchSubmit
  BY <1>2, <1>5, AuditFetched DEF Audit!HandleSearchSubmit
<1>6. ASSUME NEW i \in DOMAIN auditFetches,
             Audit!GetAllTransactions(i) \/ Audit!Succeeds(i) \/ Audit!Fails(i)
      PROVE  AuditInv'
  BY <1>6, AuditRead, AuditAnswered DEF Audit!Fails
<1>7. CASE Audit!Poll \/ Audit!LoadBankingMetrics
  BY <1>1, <1>2, <1>7 DEF Audit!Poll, Audit!LoadBankingMetrics, Audit!listed
<1>8. CASE Audit!Inspect \/ Audit!Close \/ Audit!HandleCopy \/ Audit!CopyTimer
  BY <1>1, <1>2, <1>8
  DEF Audit!Inspect, Audit!Close, Audit!HandleCopy, Audit!CopyTimer, Audit!listed
<1>9. CASE Audit!Booked
  BY <1>1, <1>2, <1>9 DEF Audit!Booked, Audit!listed
<1>10. ~Audit!LogoutElsewhere
  BY DEF Audit!LogoutElsewhere
<1>11. CASE UNCHANGED auditVars
  BY <1>1, <1>2, <1>11 DEF auditVars
<1>12. QED
  BY <1>3, <1>4, <1>5, <1>6, <1>7, <1>8, <1>9, <1>10, <1>11 DEF Audit!Next

-----------------------------------------------------------------------------
(* The balances of two accounts.                                           *)

Both == {"main", "sub"}
NotRead == [a \in Both |-> -1]

(* One moment of the two: nothing is made or lost between them.            *)
Moment == {f \in [Both -> Int] : f["main"] + f["sub"] = 2 * Opening}

Between == [from : Both, to : Both, stage : {"none", "sent", "moved", "refused", "reload"}]

AccountInv ==
    /\ balance \in Moment
    /\ reads \in Seq(Moment \cup {NotRead})
    /\ accounts \in Moment \cup {NotRead}
    /\ transfer \in Between

(* At first both have the same, and the first read is on its way.          *)
LEMMA AccountBegins ==
    ASSUME balance = [a \in Both |-> Opening], reads = <<NotRead>>,
           accounts = NotRead, transfer = [from |-> "main", to |-> "main", stage |-> "none"]
    PROVE  AccountInv
<1>1. balance \in Moment
  BY AccountConstants DEF AccountConstants, Moment, Both
<1>2. transfer \in Between
  BY DEF Between, Both
<1>3. QED
  BY <1>1, <1>2 DEF AccountInv

(* A call for the balances.                                                *)
LEMMA AccountCalled ==
    ASSUME AccountInv, reads' = Append(reads, NotRead), UNCHANGED <<balance, accounts>>,
           transfer' \in Between
    PROVE  AccountInv'
  BY DEF AccountInv

(* The bank reads them both at one moment.                                 *)
LEMMA AccountRead ==
    ASSUME AccountInv, NEW i \in DOMAIN reads, reads' = [reads EXCEPT ![i] = balance],
           UNCHANGED <<balance, accounts, transfer>>
    PROVE  AccountInv'
  BY DEF AccountInv

(* The answer is shown, or dropped.                                        *)
LEMMA AccountAnswered ==
    ASSUME AccountInv, NEW i \in DOMAIN reads, reads' = RemoveAt(reads, i),
           accounts' \in {accounts, reads[i]}, UNCHANGED <<balance, transfer>>
    PROVE  AccountInv'
<1> DEFINE S == Moment \cup {NotRead}
<1>1. reads \in Seq(S) /\ i \in 1..Len(reads) /\ Len(reads) \in Nat
  BY DEF AccountInv
<1> HIDE DEF S
<1>2. reads[i] \in S
  BY <1>1
<1>3. SubSeq(reads, 1, i - 1) \in Seq(S) /\ SubSeq(reads, i + 1, Len(reads)) \in Seq(S)
  BY <1>1
<1>4. reads' \in Seq(S)
  BY <1>3 DEF RemoveAt
<1>5. QED
  BY <1>2, <1>4 DEF S, AccountInv

(* A transfer moves one unit from one of the two to the other.             *)
LEMMA AccountMoved ==
    ASSUME AccountInv, NEW from \in Both, NEW to \in Both, from # to, transfer' \in Between,
           balance' = [balance EXCEPT ![from] = @ - 1, ![to] = @ + 1],
           UNCHANGED <<reads, accounts>>
    PROVE  AccountInv'
<1>1. balance \in [Both -> Int] /\ balance["main"] + balance["sub"] = 2 * Opening
  BY DEF AccountInv, Moment
<1>2. CASE from = "main" /\ to = "sub"
  <2>1. /\ balance' \in [Both -> Int]
        /\ balance'["main"] = balance["main"] - 1 /\ balance'["sub"] = balance["sub"] + 1
    BY <1>1, <1>2 DEF Both
  <2>2. balance["main"] \in Int /\ balance["sub"] \in Int
    BY <1>1 DEF Both
  <2>3. balance'["main"] + balance'["sub"] = 2 * Opening
    <3>1. \A m, n, t \in Int : m + n = t => (m - 1) + (n + 1) = t /\ (m + 1) + (n - 1) = t
      OBVIOUS
    <3>2. 2 * Opening \in Int
      BY AccountConstants DEF AccountConstants
    <3> DEFINE t == 2 * Opening
    <3>3. t \in Int /\ balance["main"] + balance["sub"] = t
      BY <1>1, <3>2
    <3> HIDE DEF t
    <3>4. balance'["main"] + balance'["sub"] = t
      BY <2>1, <2>2, <3>1, <3>3
    <3>5. QED
      BY <3>4 DEF t
  <2>4. QED
    BY <2>1, <2>3 DEF AccountInv, Moment
<1>3. CASE from = "sub" /\ to = "main"
  <2>1. /\ balance' \in [Both -> Int]
        /\ balance'["main"] = balance["main"] + 1 /\ balance'["sub"] = balance["sub"] - 1
    BY <1>1, <1>3 DEF Both
  <2>2. balance["main"] \in Int /\ balance["sub"] \in Int
    BY <1>1 DEF Both
  <2>3. balance'["main"] + balance'["sub"] = 2 * Opening
    <3>1. \A m, n, t \in Int : m + n = t => (m - 1) + (n + 1) = t /\ (m + 1) + (n - 1) = t
      OBVIOUS
    <3>2. 2 * Opening \in Int
      BY AccountConstants DEF AccountConstants
    <3> DEFINE t == 2 * Opening
    <3>3. t \in Int /\ balance["main"] + balance["sub"] = t
      BY <1>1, <3>2
    <3> HIDE DEF t
    <3>4. balance'["main"] + balance'["sub"] = t
      BY <2>1, <2>2, <3>1, <3>3
    <3>5. QED
      BY <3>4 DEF t
  <2>4. QED
    BY <2>1, <2>3 DEF AccountInv, Moment
<1>4. QED
  BY <1>1, <1>2, <1>3 DEF Both

(* Nothing of it changes but the state of the transfer.                    *)
LEMMA AccountStays ==
    ASSUME AccountInv, UNCHANGED <<balance, reads, accounts>>, transfer' \in Between
    PROVE  AccountInv'
  BY DEF AccountInv

(* Every step of the page keeps the balances those of one moment.          *)
LEMMA AccountStep == AccountInv /\ (Account!Next \/ UNCHANGED accountVars) => AccountInv'
<1> SUFFICES ASSUME AccountInv, (Account!Next \/ UNCHANGED accountVars) PROVE AccountInv'
  OBVIOUS
<1>0. transfer \in Between /\ NotRead = Account!Unknown
  BY DEF AccountInv, NotRead, Both, Account!Unknown, Account!Accounts
<1> USE DEF Account!bank, Account!form
<1>1. CASE Account!Poll
  BY <1>0, <1>1, AccountCalled DEF Account!Poll
<1>2. ASSUME NEW i \in DOMAIN reads, Account!BankReads(i) PROVE AccountInv'
  BY <1>2, AccountRead DEF Account!BankReads
<1>3. ASSUME NEW i \in DOMAIN reads, Account!BalanceAnswered(i) \/ Account!BalanceFails(i)
      PROVE  AccountInv'
  BY <1>3, AccountAnswered
  DEF Account!BalanceAnswered, Account!BalanceFails, Account!RemoveAt, RemoveAt
<1>4. CASE Account!HistoryAnswered \/ Account!SyncCheck
  BY <1>0, <1>4, AccountStays DEF Account!HistoryAnswered, Account!SyncCheck, Account!hook
<1>5. CASE Account!OpenForm \/ Account!Cancel
  BY <1>0, <1>5, AccountStays DEF Account!OpenForm, Account!Cancel, Account!hook
<1>6. CASE Account!HandleTransfer
  <2>1. transfer' \in Between
    BY <1>6 DEF Account!HandleTransfer, Between, Both
  <2>2. QED
    BY <1>6, <2>1, AccountStays DEF Account!HandleTransfer, Account!hook
<1>7. CASE Account!ExecuteInternalTransfer
  <2>1. transfer' \in Between
    BY <1>0, <1>7 DEF Account!ExecuteInternalTransfer, Between
  <2>2. transfer.from \in Both /\ transfer.to \in Both
    BY <1>0 DEF Between
  <2>3. CASE Account!Move(transfer.from, transfer.to)
    BY <1>7, <2>1, <2>2, <2>3, AccountMoved
    DEF Account!ExecuteInternalTransfer, Account!Move, Account!hook
  <2>4. CASE UNCHANGED balance
    BY <1>7, <2>1, <2>4, AccountStays DEF Account!ExecuteInternalTransfer, Account!hook
  <2>5. QED
    BY <1>7, <2>3, <2>4 DEF Account!ExecuteInternalTransfer
<1>8. CASE Account!Moved
  <2>1. transfer' \in Between
    BY <1>0, <1>8 DEF Account!Moved, Between
  <2>2. QED
    BY <1>0, <1>8, <2>1, AccountCalled DEF Account!Moved
<1>9. CASE Account!Reloaded \/ Account!TransferFails
  <2>1. transfer' \in Between
    BY <1>9 DEF Account!Reloaded, Account!TransferFails, Account!Ends, Account!NoTransfer,
                Between, Both
  <2>2. QED
    BY <1>9, <2>1, AccountStays DEF Account!Reloaded, Account!TransferFails, Account!hook
<1>10. CASE Account!FetchFullCredentials \/ Account!CredentialsAnswered
  BY <1>0, <1>10, AccountStays
  DEF Account!FetchFullCredentials, Account!CredentialsAnswered, Account!hook
<1>11. CASE UNCHANGED accountVars
  BY <1>0, <1>11, AccountStays DEF accountVars
<1>12. ASSUME NEW from \in Account!Accounts, NEW to \in Account!Accounts,
              Account!ExecuteDelayed(from, to)
       PROVE  AccountInv'
  <2>1. from \in Both /\ to \in Both
    BY DEF Account!Accounts, Both
  <2>2. QED
    BY <1>0, <1>12, <2>1, AccountMoved DEF Account!ExecuteDelayed, Account!Move, Account!hook
<1>13. QED
  BY <1>1, <1>2, <1>3, <1>4, <1>5, <1>6, <1>7, <1>8, <1>9, <1>10, <1>11, <1>12 DEF Account!Next

(* So does every step of the page of the main account.                     *)
LEMMA MainAccountStep == AccountInv /\ (MainAccount!Next \/ UNCHANGED accountVars) => AccountInv'
<1> SUFFICES ASSUME AccountInv, (MainAccount!Next \/ UNCHANGED accountVars) PROVE AccountInv'
  OBVIOUS
<1>0. transfer \in Between /\ NotRead = MainAccount!Unknown
  BY DEF AccountInv, NotRead, Both, MainAccount!Unknown, MainAccount!Accounts
<1> USE DEF MainAccount!bank, MainAccount!form
<1>1. CASE MainAccount!Poll
  BY <1>0, <1>1, AccountCalled DEF MainAccount!Poll
<1>2. ASSUME NEW i \in DOMAIN reads, MainAccount!BankReads(i) PROVE AccountInv'
  BY <1>2, AccountRead DEF MainAccount!BankReads
<1>3. ASSUME NEW i \in DOMAIN reads, MainAccount!BalanceAnswered(i) \/ MainAccount!BalanceFails(i)
      PROVE  AccountInv'
  BY <1>3, AccountAnswered
  DEF MainAccount!BalanceAnswered, MainAccount!BalanceFails, MainAccount!RemoveAt, RemoveAt
<1>4. CASE MainAccount!HistoryAnswered \/ MainAccount!SyncCheck
  BY <1>0, <1>4, AccountStays DEF MainAccount!HistoryAnswered, MainAccount!SyncCheck, MainAccount!hook
<1>5. CASE MainAccount!OpenForm \/ MainAccount!Cancel
  BY <1>0, <1>5, AccountStays DEF MainAccount!OpenForm, MainAccount!Cancel, MainAccount!hook
<1>6. CASE MainAccount!HandleTransfer
  <2>1. transfer' \in Between
    BY <1>6 DEF MainAccount!HandleTransfer, Between, Both
  <2>2. QED
    BY <1>6, <2>1, AccountStays DEF MainAccount!HandleTransfer, MainAccount!hook
<1>7. CASE MainAccount!ExecuteInternalTransfer
  <2>1. transfer' \in Between
    BY <1>0, <1>7 DEF MainAccount!ExecuteInternalTransfer, Between
  <2>2. transfer.from \in Both /\ transfer.to \in Both
    BY <1>0 DEF Between
  <2>3. CASE MainAccount!Move(transfer.from, transfer.to)
    BY <1>7, <2>1, <2>2, <2>3, AccountMoved
    DEF MainAccount!ExecuteInternalTransfer, MainAccount!Move, MainAccount!hook
  <2>4. CASE UNCHANGED balance
    BY <1>7, <2>1, <2>4, AccountStays DEF MainAccount!ExecuteInternalTransfer, MainAccount!hook
  <2>5. QED
    BY <1>7, <2>3, <2>4 DEF MainAccount!ExecuteInternalTransfer
<1>8. CASE MainAccount!Moved
  <2>1. transfer' \in Between
    BY <1>0, <1>8 DEF MainAccount!Moved, Between
  <2>2. QED
    BY <1>0, <1>8, <2>1, AccountCalled DEF MainAccount!Moved
<1>9. CASE MainAccount!Reloaded \/ MainAccount!TransferFails
  <2>1. transfer' \in Between
    BY <1>9 DEF MainAccount!Reloaded, MainAccount!TransferFails, MainAccount!Ends, MainAccount!NoTransfer,
                Between, Both
  <2>2. QED
    BY <1>9, <2>1, AccountStays DEF MainAccount!Reloaded, MainAccount!TransferFails, MainAccount!hook
<1>10. CASE MainAccount!FetchFullCredentials \/ MainAccount!CredentialsAnswered
  BY <1>0, <1>10, AccountStays
  DEF MainAccount!FetchFullCredentials, MainAccount!CredentialsAnswered, MainAccount!hook
<1>11. CASE UNCHANGED accountVars
  BY <1>0, <1>11, AccountStays DEF accountVars
<1>12. ASSUME NEW from \in MainAccount!Accounts, NEW to \in MainAccount!Accounts,
              MainAccount!ExecuteDelayed(from, to)
       PROVE  AccountInv'
  <2>1. from \in Both /\ to \in Both
    BY DEF MainAccount!Accounts, Both
  <2>2. QED
    BY <1>0, <1>12, <2>1, AccountMoved DEF MainAccount!ExecuteDelayed, MainAccount!Move, MainAccount!hook
<1>13. QED
  BY <1>1, <1>2, <1>3, <1>4, <1>5, <1>6, <1>7, <1>8, <1>9, <1>10, <1>11, <1>12 DEF MainAccount!Next

-----------------------------------------------------------------------------
(* The paged tables.                                                       *)

(* A quotient and the number that is divided.                              *)
LEMMA Quotient ==
    ASSUME NEW a \in Nat, NEW k \in Nat \ {0}
    PROVE  a \div k \in Nat /\ (a \div k) * k <= a /\ a < ((a \div k) + 1) * k
  OBVIOUS

(* More pages hold no less.                                                *)
LEMMA MorePages ==
    ASSUME NEW p \in Int, NEW q \in Int, NEW k \in Nat \ {0}
    PROVE  /\ p <= q => p * k <= q * k
           /\ p * k < q * k => p < q
           /\ p * k \in Int /\ (p - 1) * k = p * k - k
  OBVIOUS

(* The members of a part of a list.                                        *)
LEMMA PartMembers ==
    ASSUME NEW S, NEW s \in Seq(S), NEW a \in Nat \ {0}, NEW b \in Int, b <= Len(s), NEW x
    PROVE  x \in ToSet(SubSeq(s, a, b)) <=> \E j \in a..b : x = s[j]
<1>1. /\ Len(s) \in Nat /\ DOMAIN s = 1..Len(s)
      /\ \A j \in a..b : s[j] \in S
  OBVIOUS
<1>2. DOMAIN SubSeq(s, a, b) = 1..(b - a + 1)
  BY <1>1
<1>3. \A i \in 1..(b - a + 1) : SubSeq(s, a, b)[i] = s[a + i - 1]
  BY <1>1
<1>4. ASSUME NEW i \in 1..(b - a + 1) PROVE a + i - 1 \in a..b
  OBVIOUS
<1>5. ASSUME NEW j \in a..b PROVE j - a + 1 \in 1..(b - a + 1) /\ a + (j - a + 1) - 1 = j
  OBVIOUS
<1>6. x \in ToSet(SubSeq(s, a, b)) <=> \E i \in 1..(b - a + 1) : x = s[a + i - 1]
  BY <1>2, <1>3 DEF ToSet
<1>7. QED
  BY <1>4, <1>5, <1>6

(* Where a page of k rows begins and ends in a list of n.                  *)
From(p, k) == (p - 1) * k + 1
Upto(p, k, n) == IF p * k <= n THEN p * k ELSE n

(* Every place is on one page, and on one of those there are.              *)
LEMMA PlacesPaged ==
    ASSUME NEW n \in Nat, NEW k \in Nat \ {0}
    PROVE  LET P == (n + k - 1) \div k
           IN  /\ P \in Nat
               /\ \A p \in 1..P : From(p, k) \in Nat \ {0} /\ Upto(p, k, n) \in Int /\ Upto(p, k, n) <= n
               /\ \A j \in 1..n : \E p \in 1..P : j \in From(p, k)..Upto(p, k, n)
               /\ \A p, q \in 1..P : p # q =>
                     \A j \in From(p, k)..Upto(p, k, n) : j \notin From(q, k)..Upto(q, k, n)
<1> DEFINE P == (n + k - 1) \div k
<1>1. P \in Nat /\ n + k - 1 < (P + 1) * k
  <2>1. n + k - 1 \in Nat
    OBVIOUS
  <2>2. QED
    BY <2>1, Quotient
<1> HIDE DEF P
<1>2. ASSUME NEW p \in 1..P
      PROVE  From(p, k) \in Nat \ {0} /\ Upto(p, k, n) \in Int /\ Upto(p, k, n) <= n
  <2>1. p \in Int /\ 1 <= p /\ p * k \in Int /\ (p - 1) * k \in Int
    BY <1>1, MorePages
  <2>2. 0 <= (p - 1) * k
    BY <2>1
  <2>3. QED
    BY <2>1, <2>2 DEF From, Upto
<1>3. ASSUME NEW j \in 1..n
      PROVE  \E p \in 1..P : j \in From(p, k)..Upto(p, k, n)
  <2> DEFINE q == (j - 1) \div k
  <2>1. q \in Nat /\ q * k <= j - 1 /\ j - 1 < (q + 1) * k
    <3>1. j - 1 \in Nat
      OBVIOUS
    <3>2. QED
      BY <3>1, Quotient
  <2> HIDE DEF q
  <2>2. q * k \in Int /\ (q + 1) * k = q * k + k /\ (q + 1) * k \in Int
    BY <2>1
  <2>3. (q + 1) * k < (P + 1) * k
    BY <1>1, <2>1, <2>2
  <2>4. q + 1 < P + 1
    BY <1>1, <2>1, <2>3, MorePages
  <2>5. q + 1 \in 1..P
    BY <1>1, <2>1, <2>4
  <2>6. From(q + 1, k) = q * k + 1
    <3>1. (q + 1) - 1 = q
      BY <2>1
    <3>2. QED
      BY <3>1 DEF From
  <2>7. j \in From(q + 1, k)..Upto(q + 1, k, n)
    BY <2>1, <2>2, <2>6 DEF Upto
  <2>8. QED
    BY <2>5, <2>7
<1>4. ASSUME NEW p \in 1..P, NEW q \in 1..P, p < q,
             NEW j \in From(p, k)..Upto(p, k, n), j \in From(q, k)..Upto(q, k, n)
      PROVE  FALSE
  <2>1. p \in Int /\ q \in Int /\ p <= q - 1 /\ p * k \in Int /\ (q - 1) * k \in Int
    BY <1>1, <1>4, MorePages
  <2>2. p * k <= (q - 1) * k
    BY <2>1, MorePages
  <2>3. j <= p * k
    BY <1>4, <2>1 DEF Upto
  <2>4. (q - 1) * k + 1 <= j
    BY <1>4, <2>1 DEF From
  <2>5. j \in Int
    BY <1>2
  <2>6. QED
    BY <2>1, <2>2, <2>3, <2>4, <2>5
<1>5. ASSUME NEW p \in 1..P, NEW q \in 1..P, p # q, NEW j \in From(p, k)..Upto(p, k, n)
      PROVE  j \notin From(q, k)..Upto(q, k, n)
  <2>1. p < q \/ q < p
    BY <1>1, <1>5
  <2>2. QED
    BY <1>4, <1>5, <2>1
<1>6. QED
  BY <1>1, <1>2, <1>3, <1>5 DEF P

(* The pages of a list without repetitions show each member once.          *)
LEMMA ListPaged ==
    ASSUME NEW S, NEW s \in Seq(S), NEW k \in Nat \ {0},
           \A i, j \in 1..Len(s) : i # j => s[i] # s[j],
           NEW page, \A p \in 1..((Len(s) + k - 1) \div k) :
                         page[p] = SubSeq(s, From(p, k), Upto(p, k, Len(s)))
    PROVE  LET P == (Len(s) + k - 1) \div k
           IN  /\ UNION {ToSet(page[p]) : p \in 1..P} = ToSet(s)
               /\ \A p, q \in 1..P : p # q => ToSet(page[p]) \cap ToSet(page[q]) = {}
<1> DEFINE n == Len(s)
           P == (n + k - 1) \div k
           In(p) == From(p, k)..Upto(p, k, n)
<1>1. n \in Nat /\ DOMAIN s = 1..n
  OBVIOUS
<1>0. \A p \in 1..P : page[p] = SubSeq(s, From(p, k), Upto(p, k, n))
  OBVIOUS
<1>2. /\ P \in Nat
      /\ \A p \in 1..P : From(p, k) \in Nat \ {0} /\ Upto(p, k, n) \in Int /\ Upto(p, k, n) <= n
      /\ \A j \in 1..n : \E p \in 1..P : j \in In(p)
      /\ \A p, q \in 1..P : p # q => \A j \in In(p) : j \notin In(q)
  BY <1>1, PlacesPaged
<1> HIDE DEF P
<1>3. ASSUME NEW p \in 1..P, NEW x
      PROVE  x \in ToSet(page[p]) <=> \E j \in In(p) : x = s[j]
  <2>1. /\ From(p, k) \in Nat \ {0} /\ Upto(p, k, n) \in Int /\ Upto(p, k, n) <= Len(s)
        /\ page[p] = SubSeq(s, From(p, k), Upto(p, k, n))
    BY <1>0, <1>2
  <2> DEFINE a == From(p, k)
             b == Upto(p, k, n)
  <2> HIDE DEF n, a, b
  <2>2. a \in Nat \ {0} /\ b \in Int /\ b <= Len(s) /\ page[p] = SubSeq(s, a, b)
    BY <2>1 DEF a, b
  <2>3. x \in ToSet(SubSeq(s, a, b)) <=> \E j \in a..b : x = s[j]
    BY <2>2, PartMembers
  <2>4. QED
    BY <2>2, <2>3 DEF a, b
<1>4. ASSUME NEW p \in 1..P, NEW j \in In(p) PROVE j \in 1..n
  BY <1>1, <1>2
<1>5. ASSUME NEW x PROVE x \in ToSet(s) <=> \E j \in 1..n : x = s[j]
  BY <1>1 DEF ToSet
<1> HIDE DEF n, In
<1>6. ASSUME NEW x PROVE x \in UNION {ToSet(page[p]) : p \in 1..P} <=> x \in ToSet(s)
  <2>1. x \in UNION {ToSet(page[p]) : p \in 1..P} <=> \E p \in 1..P : x \in ToSet(page[p])
    BY Zenon
  <2>2. \A p \in 1..P : x \in ToSet(page[p]) <=> \E j \in In(p) : x = s[j]
    BY <1>3
  <2>3. x \in UNION {ToSet(page[p]) : p \in 1..P} <=> \E p \in 1..P : \E j \in In(p) : x = s[j]
    BY <2>1, <2>2, Zenon
  <2>4. (\E p \in 1..P : \E j \in In(p) : x = s[j]) <=> \E j \in 1..n : x = s[j]
    BY <1>2, <1>4, Zenon
  <2>5. QED
    BY <1>5, <2>3, <2>4
<1>7. ASSUME NEW p \in 1..P, NEW q \in 1..P, p # q
      PROVE  ToSet(page[p]) \cap ToSet(page[q]) = {}
  <2>1. SUFFICES ASSUME NEW x \in ToSet(page[p]), x \in ToSet(page[q]) PROVE FALSE
    BY Zenon
  <2>2. PICK i \in In(p) : x = s[i]
    BY <1>3, Zenon
  <2>3. PICK j \in In(q) : x = s[j]
    BY <1>3, <2>1, Zenon
  <2>4. i # j /\ i \in 1..n /\ j \in 1..n
    BY <1>2, <1>4, <1>7, Zenon
  <2>5. QED
    BY <2>2, <2>3, <2>4 DEF n
<1>8. UNION {ToSet(page[p]) : p \in 1..P} = ToSet(s)
  BY <1>6, Zenon
<1>9. QED
  BY <1>7, <1>8, Zenon DEF P, n

(* The rows that pass: places in the table, each once, in order.           *)
LEMMA DataListed ==
    ASSUME NEW n \in Nat, DOMAIN tablesRows = 1..n
    PROVE  /\ Tables!FilteredData \in Seq(Nat)
           /\ \A i, j \in 1..Len(Tables!FilteredData) :
                 i # j => Tables!FilteredData[i] # Tables!FilteredData[j]
<1> DEFINE S == {i \in DOMAIN tablesRows : i \in TableSearch[search]
                                           /\ Tables!MatchesStatus(tablesRows[i])}
<1>1. S \in SUBSET (1..n) /\ S \in SUBSET Nat
  OBVIOUS
<1>2. IsFiniteSet(S)
  BY <1>1, FS_Interval, FS_Subset
<1>3. Tables!FilteredData = Tables!Ascending(S)
  BY DEF Tables!FilteredData
<1> HIDE DEF S
<1>4. Tables!Ascending(S) = Ascending(S)
  BY DEF Tables!Ascending, Ascending, Tables!Cardinality, Cardinality,
         Tables!IsFiniteSet, IsFiniteSet
<1>5. /\ Ascending(S) \in [1..Cardinality(S) -> S]
      /\ Cardinality(S) \in Nat /\ Len(Ascending(S)) = Cardinality(S)
      /\ \A i, j \in 1..Cardinality(S) : i # j => Ascending(S)[i] # Ascending(S)[j]
  BY <1>1, <1>2, InOrder
<1>6. Ascending(S) \in Seq(Nat)
  <2>1. Ascending(S) \in [1..Cardinality(S) -> Nat]
    BY <1>1, <1>5
  <2>2. QED
    BY <1>5, <2>1
<1>7. QED
  BY <1>3, <1>4, <1>5, <1>6

(* The smaller and the larger of two numbers.                              *)
LEMMA SmallerOfTwo ==
    ASSUME NEW a \in Int, NEW b \in Int
    PROVE  /\ Tables!Min({a, b}) = IF a <= b THEN a ELSE b
           /\ Tables!Max({a, b}) = IF a <= b THEN b ELSE a
<1>1. \E x \in {a, b} : \A y \in {a, b} : x <= y
  OBVIOUS
<1>2. \E x \in {a, b} : \A y \in {a, b} : x >= y
  OBVIOUS
<1>3. Tables!Min({a, b}) \in {a, b} /\ \A y \in {a, b} : Tables!Min({a, b}) <= y
  BY <1>1 DEF Tables!Min
<1>4. Tables!Max({a, b}) \in {a, b} /\ \A y \in {a, b} : Tables!Max({a, b}) >= y
  BY <1>2 DEF Tables!Max
<1>5. QED
  BY <1>3, <1>4

(* The pages partition the rows that pass, whichever these are.            *)
LEMMA TablePages ==
    ASSUME NEW n \in Nat, DOMAIN tablesRows = 1..n
    PROVE  Tables!PagesPartition /\ Tables!TotalPages \in Nat
<1> DEFINE s == Tables!FilteredData
           k == itemsPerPage
           P == (Len(s) + k - 1) \div k
           page == [p \in 1..P |-> Tables!Slice(p)]
<1>1. /\ s \in Seq(Nat) /\ Len(s) \in Nat
      /\ \A i, j \in 1..Len(s) : i # j => s[i] # s[j]
  BY DataListed
<1>2. k \in Nat \ {0}
  BY TablesConstants DEF TablesConstants
<1>3. P \in Nat /\ Tables!TotalPages = P
  BY <1>1, <1>2, PlacesPaged DEF Tables!TotalPages
<1>4. ASSUME NEW p \in 1..P
      PROVE  Tables!Slice(p) = SubSeq(s, From(p, k), Upto(p, k, Len(s)))
  <2>1. p * k \in Int
    BY <1>2, <1>3
  <2> HIDE DEF s, k
  <2>2. Tables!Min({p * k, Len(s)}) = Upto(p, k, Len(s))
    BY <1>1, <2>1, SmallerOfTwo DEF Upto
  <2>3. QED
    BY <2>2 DEF Tables!Slice, From, s, k
<1> HIDE DEF s, k, P
<1>5. /\ UNION {ToSet(page[p]) : p \in 1..P} = ToSet(s)
      /\ \A p, q \in 1..P : p # q => ToSet(page[p]) \cap ToSet(page[q]) = {}
  <2>1. \A p \in 1..P : page[p] = SubSeq(s, From(p, k), Upto(p, k, Len(s)))
    BY <1>4
  <2> HIDE DEF page
  <2>2. QED
    BY <1>1, <1>2, <2>1, ListPaged DEF P
<1>6. /\ UNION {ToSet(Tables!Slice(p)) : p \in 1..P} = ToSet(s)
      /\ \A p, q \in 1..P : p # q => ToSet(Tables!Slice(p)) \cap ToSet(Tables!Slice(q)) = {}
  <2>1. \A p \in 1..P : page[p] = Tables!Slice(p)
    OBVIOUS
  <2> HIDE DEF page
  <2>2. UNION {ToSet(page[p]) : p \in 1..P} = UNION {ToSet(Tables!Slice(p)) : p \in 1..P}
    BY <2>1
  <2>3. QED
    BY <1>5, <2>1, <2>2
<1>7. \A l : Tables!ToSet(l) = ToSet(l)
  BY DEF Tables!ToSet, ToSet
<1>8. Tables!PagesPartition
  <2>1. /\ UNION {Tables!ToSet(Tables!Slice(p)) : p \in 1..P} = Tables!ToSet(s)
        /\ \A p, q \in 1..P :
              p # q => Tables!ToSet(Tables!Slice(p)) \cap Tables!ToSet(Tables!Slice(q)) = {}
    BY <1>6, <1>7
  <2>2. QED
    BY <1>3, <2>1 DEF Tables!PagesPartition, s
<1>9. QED
  BY <1>3, <1>8

(* There are so many rows, and the page is one of them, or none is chosen  *)
(* since they changed.                                                     *)
TablesInv ==
    /\ \E n \in Nat : DOMAIN tablesRows = 1..n
    /\ currentPage \in Int
    /\ ~narrowed => currentPage <= 1 \/ currentPage <= Tables!TotalPages

(* At first there are no rows, on page 1.                                  *)
LEMMA TablesInit == Tables!Init => TablesInv
<1> SUFFICES ASSUME Tables!Init PROVE TablesInv
  OBVIOUS
<1>1. tablesRows = <<>> /\ currentPage = 1 /\ narrowed = FALSE
  BY DEF Tables!Init
<1>2. DOMAIN tablesRows = 1..0
  BY <1>1
<1>3. QED
  BY <1>1, <1>2 DEF TablesInv

(* The rows and the filter stay, and so do the pages there are.            *)
LEMMA TablesStay ==
    ASSUME TablesInv, UNCHANGED <<table, tablesRows, search, filter>>,
           currentPage' \in Int,
           ~narrowed' => currentPage' <= 1 \/ currentPage' <= Tables!TotalPages
    PROVE  TablesInv'
<1>1. Tables!TotalPages' = Tables!TotalPages
  BY DEF Tables!TotalPages, Tables!FilteredData, Tables!Ascending, Tables!MatchesStatus,
         Tables!MatchesRequest, Tables!MatchesScheduled, Tables!MatchesTransfer
<1>2. \E n \in Nat : DOMAIN tablesRows' = 1..n
  BY DEF TablesInv
<1>3. ~narrowed' => currentPage' <= 1 \/ currentPage' <= Tables!TotalPages'
  BY <1>1
<1>4. QED
  BY <1>2, <1>3 DEF TablesInv

(* Every step of a table leads to a page it has, unless its rows changed.  *)
LEMMA TablesStep == TablesInv /\ (Tables!Next \/ UNCHANGED tablesVars) => TablesInv'
<1> SUFFICES ASSUME TablesInv, (Tables!Next \/ UNCHANGED tablesVars) PROVE TablesInv'
  OBVIOUS
<1>0. currentPage \in Int /\ \E n \in Nat : DOMAIN tablesRows = 1..n
  BY DEF TablesInv
<1>1. Tables!TotalPages \in Nat
  BY <1>0, TablePages
<1>2. CASE Tables!Refetch
  <2>1. \E n \in Nat : DOMAIN tablesRows' = 1..n
    BY <1>2, TablesConstants DEF TablesConstants, Tables!Refetch
  <2>2. QED
    BY <1>0, <1>2, <2>1 DEF Tables!Refetch, TablesInv
<1>3. CASE Tables!TypeSearch
  BY <1>0, <1>3 DEF Tables!TypeSearch, TablesInv
<1>4. CASE Tables!ChooseFilter
  <2>1. tablesRows' = tablesRows
        /\ \/ currentPage' = 1 /\ narrowed' = FALSE
           \/ currentPage' = currentPage /\ narrowed' = TRUE
    BY <1>4 DEF Tables!ChooseFilter
  <2>2. QED
    BY <1>0, <2>1 DEF TablesInv
<1>5. CASE Tables!ChoosePage
  <2>1. PICK i \in 1..Tables!TotalPages : Tables!GoTo(i)
    BY <1>5 DEF Tables!ChoosePage
  <2>2. QED
    BY <1>1, <2>1, TablesStay DEF Tables!GoTo
<1>6. CASE Tables!Previous
  <2>1. /\ UNCHANGED <<table, tablesRows, search, filter, narrowed>>
        /\ currentPage' = currentPage - 1
    BY <1>6 DEF Tables!Previous
  <2>2. ~narrowed' => currentPage' <= 1 \/ currentPage' <= Tables!TotalPages
    BY <1>0, <1>1, <2>1 DEF TablesInv
  <2>3. QED
    BY <1>0, <2>1, <2>2, TablesStay
<1>7. CASE Tables!NextPage
  <2>1. /\ UNCHANGED <<table, tablesRows, search, filter, narrowed>>
        /\ currentPage' = currentPage + 1 /\ currentPage # Tables!TotalPages
        /\ Tables!TotalPages > 1
    BY <1>7 DEF Tables!NextPage, Tables!Paged
  <2>2. ~narrowed' => currentPage' <= Tables!TotalPages
    <3>1. SUFFICES ASSUME ~narrowed' PROVE currentPage' <= Tables!TotalPages
      OBVIOUS
    <3>2. currentPage <= 1 \/ currentPage <= Tables!TotalPages
      BY <2>1, <3>1 DEF TablesInv
    <3>3. QED
      BY <1>0, <1>1, <2>1, <3>2
  <2>3. QED
    BY <1>0, <2>1, <2>2, TablesStay
<1>8. ASSUME UNCHANGED <<table, tablesRows, search, filter, currentPage, narrowed>>
      PROVE  TablesInv'
  <2>1. ~narrowed' => currentPage' <= 1 \/ currentPage' <= Tables!TotalPages
    BY <1>8 DEF TablesInv
  <2>2. QED
    BY <1>0, <1>8, <2>1, TablesStay
<1>9. CASE Tables!ViewDetails \/ Tables!CloseDetails
  BY <1>8, <1>9 DEF Tables!ViewDetails, Tables!CloseDetails
<1>10. CASE Tables!ChangeTab
  <2>1. tablesRows' = <<>> /\ currentPage' = 1 /\ narrowed' = FALSE
    BY <1>10 DEF Tables!ChangeTab
  <2>2. DOMAIN tablesRows' = 1..0
    BY <2>1
  <2>3. QED
    BY <2>1, <2>2 DEF TablesInv
<1>11. CASE UNCHANGED tablesVars
  BY <1>8, <1>11 DEF tablesVars
<1>12. QED
  BY <1>2, <1>3, <1>4, <1>5, <1>6, <1>7, <1>9, <1>10, <1>11 DEF Tables!Next

(* What is known of a table makes its pages right.                         *)
LEMMA TablesFacts == TablesInv => Tables!PagesPartition /\ Tables!PageExists
<1> SUFFICES ASSUME TablesInv PROVE Tables!PagesPartition /\ Tables!PageExists
  OBVIOUS
<1>1. Tables!PagesPartition /\ Tables!TotalPages \in Nat
  BY TablePages DEF TablesInv
<1>2. Tables!Max({1, Tables!TotalPages})
          = IF 1 <= Tables!TotalPages THEN Tables!TotalPages ELSE 1
  BY <1>1, SmallerOfTwo
<1>3. currentPage \in Int /\ (~narrowed => currentPage <= 1 \/ currentPage <= Tables!TotalPages)
  BY DEF TablesInv
<1>4. Tables!PageExists
  BY <1>1, <1>2, <1>3 DEF Tables!PageExists
<1>5. QED
  BY <1>1, <1>4

-----------------------------------------------------------------------------
(* The activity log.                                                       *)

LogQuery == [category : {"all"} \cup LogCategory, order : {"asc", "desc"}, offset : Nat]
LogCall == [query : LogQuery, read : BOOLEAN, rows : Seq(Nat)]

(* The stored events of a category, and how many they are.                 *)
Of(log, c) == {i \in DOMAIN log : c \in {"all", log[i]}}
Held(log, c) == Cardinality(Of(log, c))

LogCalls ==
    /\ logFetches \in Seq(LogCall)
    /\ logFetches # <<>> => logFetches[Len(logFetches)].query = Activity!Current
    /\ \A i \in DOMAIN logFetches :
         offset > 0 /\ logFetches[i].query = Activity!Current /\ logFetches[i].read =>
             logFetches[i].rows # <<>>

(* The last call is for the query as it is, and a page is only turned to   *)
(* that has rows: the number of events on display is not more than there   *)
(* are.                                                                    *)
LogInv ==
    /\ stored \in Seq(LogCategory)
    /\ Activity!Current \in LogQuery
    /\ \E k \in Nat : offset = k * LogLimit
    /\ offset > 0 => offset < Held(stored, category)
    /\ LogCalls
    /\ logFetches = <<>> =>
         /\ shownFor = Activity!Current
         /\ total \in Nat /\ total <= Held(stored, category)
         /\ offset > 0 => events # <<>>

(* There are finitely many events of a category.                           *)
LEMMA HeldIsNumber ==
    ASSUME NEW log \in Seq(LogCategory), NEW c
    PROVE  /\ Of(log, c) \in SUBSET Nat /\ IsFiniteSet(Of(log, c))
           /\ Held(log, c) \in Nat
<1>1. Len(log) \in Nat /\ DOMAIN log = 1..Len(log)
  OBVIOUS
<1>2. Of(log, c) \in SUBSET (1..Len(log)) /\ Of(log, c) \in SUBSET Nat
  BY <1>1 DEF Of
<1>3. IsFiniteSet(Of(log, c))
  <2>1. IsFiniteSet(1..Len(log))
    BY <1>1, FS_Interval
  <2>2. QED
    BY <1>2, <2>1, FS_Subset
<1>4. QED
  BY <1>2, <1>3, FS_CardinalityType DEF Held

(* One more event does not make them fewer.                                *)
LEMMA HeldGrows ==
    ASSUME NEW log \in Seq(LogCategory), NEW new \in LogCategory, NEW c
    PROVE  Held(log, c) <= Held(Append(log, new), c)
<1>1. Append(log, new) \in Seq(LogCategory)
  OBVIOUS
<1>2. Of(log, c) \in SUBSET Of(Append(log, new), c)
  <2>1. \A i \in DOMAIN log : i \in DOMAIN Append(log, new) /\ Append(log, new)[i] = log[i]
    OBVIOUS
  <2>2. QED
    BY <2>1 DEF Of
<1>3. IsFiniteSet(Of(Append(log, new), c))
  BY <1>1, HeldIsNumber
<1>4. QED
  BY <1>2, <1>3, FS_Subset DEF Held

(* The query finds the events of its category, in either order.            *)
LEMMA MatchingFound ==
    ASSUME stored \in Seq(LogCategory), NEW q \in LogQuery
    PROVE  /\ Activity!Matching(q) \in Seq(Nat)
           /\ Len(Activity!Matching(q)) = Held(stored, q.category)
<1> DEFINE S == {i \in DOMAIN stored : q.category \in {"all", stored[i]}}
           found == Activity!Ascending(S)
<1>1. S = Of(stored, q.category)
  BY DEF Of
<1>2. S \in SUBSET Nat /\ IsFiniteSet(S) /\ Cardinality(S) = Held(stored, q.category)
  BY <1>1, HeldIsNumber DEF Held
<1>3. Activity!Matching(q) = IF q.order = "asc" THEN found ELSE Activity!Reverse(found)
  BY DEF Activity!Matching, Activity!All
<1> HIDE DEF S
<1>4. found = Ascending(S)
  BY DEF Activity!Ascending, Ascending, Activity!Cardinality, Cardinality,
         Activity!IsFiniteSet, IsFiniteSet
<1>5. /\ found \in [1..Cardinality(S) -> S] /\ Cardinality(S) \in Nat
      /\ Len(found) = Cardinality(S)
  BY <1>2, <1>4, InOrder
<1> HIDE DEF found
<1>6. found \in Seq(Nat)
  <2>1. found \in [1..Cardinality(S) -> Nat]
    BY <1>2, <1>5
  <2>2. QED
    BY <1>5, <2>1
<1>7. Activity!Reverse(found) \in Seq(Nat) /\ Len(Activity!Reverse(found)) = Len(found)
  <2>1. Activity!Reverse(found) = [i \in 1..Len(found) |-> found[Len(found) - i + 1]]
    BY DEF Activity!Reverse
  <2>2. ASSUME NEW i \in 1..Len(found) PROVE found[Len(found) - i + 1] \in Nat
    BY <1>6
  <2>3. Activity!Reverse(found) \in [1..Len(found) -> Nat] /\ Len(found) \in Nat
    BY <1>6, <2>1, <2>2
  <2>4. QED
    BY <2>3
<1>8. QED
  BY <1>2, <1>3, <1>5, <1>6, <1>7

(* A page that begins before the last of them has rows.                    *)
LEMMA RowsThere ==
    ASSUME stored \in Seq(LogCategory), NEW q \in LogQuery
    PROVE  /\ Activity!Rows(q) \in Seq(Nat)
           /\ q.offset < Held(stored, q.category) => Activity!Rows(q) # <<>>
<1> DEFINE found == Activity!Matching(q)
           h == Held(stored, q.category)
           m == Activity!Min({q.offset + LogLimit, Len(found)})
<1>1. found \in Seq(Nat) /\ Len(found) = h /\ h \in Nat
  BY MatchingFound, HeldIsNumber
<1>2. q.offset \in Nat /\ LogLimit \in Nat \ {0}
  BY ActivityConstants DEF LogQuery, ActivityConstants
<1> HIDE DEF found, h
<1>3. m = IF q.offset + LogLimit <= h THEN q.offset + LogLimit ELSE h
  <2>1. q.offset + LogLimit \in Int /\ h \in Int
    BY <1>1, <1>2
  <2>2. m = Tables!Min({q.offset + LogLimit, h})
    BY <1>1 DEF Activity!Min, Tables!Min
  <2> HIDE DEF m
  <2>3. QED
    BY <2>1, <2>2, SmallerOfTwo
<1>4. Activity!Rows(q) = SubSeq(found, q.offset + 1, m)
  BY DEF Activity!Rows, found
<1> HIDE DEF m
<1>5. m \in Nat /\ m <= Len(found)
  BY <1>1, <1>2, <1>3
<1>6. Activity!Rows(q) \in Seq(Nat)
  BY <1>1, <1>2, <1>4, <1>5
<1>7. q.offset < h => Activity!Rows(q) # <<>>
  <2>1. SUFFICES ASSUME q.offset < h PROVE Activity!Rows(q) # <<>>
    OBVIOUS
  <2>2. q.offset + 1 <= m
    BY <1>1, <1>2, <1>3, <2>1
  <2>3. Len(SubSeq(found, q.offset + 1, m)) = m - (q.offset + 1) + 1
    BY <1>1, <1>2, <1>5, <2>2
  <2>4. m - (q.offset + 1) + 1 # 0
    BY <1>2, <1>5, <2>2
  <2>5. Len(Activity!Rows(q)) # 0
    BY <1>4, <2>3, <2>4
  <2>6. QED
    BY <2>5
<1>8. QED
  BY <1>6, <1>7 DEF h

(* At first the first page is asked for.                                   *)
LEMMA LogInit == Activity!Init => LogInv
<1> SUFFICES ASSUME Activity!Init PROVE LogInv
  OBVIOUS
<1> DEFINE call == Activity!Fetch(Activity!Current)
<1>1. /\ stored = <<>> /\ offset = 0 /\ category = "all" /\ order = "desc"
      /\ logFetches = <<call>>
  BY DEF Activity!Init, Activity!All
<1>2. Activity!Current \in LogQuery
  BY <1>1 DEF Activity!Current, LogQuery
<1>3. call \in LogCall /\ call.query = Activity!Current
  BY <1>2 DEF Activity!Fetch, LogCall
<1> HIDE DEF call
<1>4. /\ logFetches \in Seq(LogCall) /\ logFetches # <<>>
      /\ logFetches[Len(logFetches)] = call
  BY <1>1, <1>3
<1>5. offset = 0 * LogLimit /\ ~(offset > 0)
  BY <1>1, ActivityConstants DEF ActivityConstants
<1>6. stored \in Seq(LogCategory)
  BY <1>1
<1>7. LogCalls
  BY <1>3, <1>4, <1>5 DEF LogCalls
<1>8. QED
  BY <1>2, <1>4, <1>5, <1>6, <1>7 DEF LogInv

(* What a list of calls ends with once others were made.                   *)
LEMMA LogAsked ==
    ASSUME LogInv, NEW qs \in Seq(LogCall), qs # <<>>,
           logFetches' = logFetches \o qs,
           Activity!Current' \in LogQuery, qs[Len(qs)].query = Activity!Current',
           \A i \in DOMAIN qs : ~qs[i].read,
           Activity!Current' = Activity!Current \/ logFetches = <<>> \/ offset' = 0,
           \E k \in Nat : offset' = k * LogLimit,
           offset' > 0 => offset' < Held(stored, category'),
           UNCHANGED stored
    PROVE  LogInv'
<1>1. /\ logFetches \in Seq(LogCall) /\ stored \in Seq(LogCategory)
      /\ Len(logFetches) \in Nat /\ Len(qs) \in Nat /\ Len(qs) # 0
      /\ DOMAIN logFetches = 1..Len(logFetches) /\ DOMAIN qs = 1..Len(qs)
  BY DEF LogInv, LogCalls
<1>2. /\ logFetches' \in Seq(LogCall) /\ Len(logFetches') = Len(logFetches) + Len(qs)
      /\ \A i \in 1..Len(logFetches) : logFetches'[i] = logFetches[i]
      /\ \A i \in 1..Len(qs) : logFetches'[Len(logFetches) + i] = qs[i]
  BY <1>1
<1>3. DOMAIN logFetches' = 1..(Len(logFetches) + Len(qs))
  BY <1>2
<1>4. logFetches' # <<>> /\ logFetches'[Len(logFetches')] = qs[Len(qs)]
  BY <1>1, <1>2
<1>5. ASSUME NEW i \in DOMAIN logFetches', offset' > 0,
             logFetches'[i].query = Activity!Current', logFetches'[i].read
      PROVE  logFetches'[i].rows # <<>>
  <2>1. CASE i \in 1..Len(logFetches)
    <3>1. logFetches'[i] = logFetches[i] /\ logFetches # <<>>
      BY <1>1, <1>2, <2>1
    <3>2. offset' # 0
      BY <1>5
    <3>3. Activity!Current' = Activity!Current /\ offset' = offset
      BY <3>1, <3>2 DEF Activity!Current
    <3>4. QED
      BY <1>1, <1>5, <2>1, <3>1, <3>3 DEF LogInv, LogCalls
  <2>2. CASE i \notin 1..Len(logFetches)
    <3>1. i - Len(logFetches) \in 1..Len(qs) /\ Len(logFetches) + (i - Len(logFetches)) = i
      BY <1>1, <1>3, <2>2
    <3>2. logFetches'[i] = qs[i - Len(logFetches)]
      BY <1>2, <3>1
    <3>3. QED
      BY <1>1, <1>5, <3>1, <3>2
  <2>3. QED
    BY <2>1, <2>2
<1>6. LogCalls'
  BY <1>2, <1>4, <1>5 DEF LogCalls
<1>7. QED
  BY <1>1, <1>4, <1>6 DEF LogInv

(* The page that is turned to exists as far as the number of events tells. *)
LEMMA PageTurned ==
    ASSUME NEW k \in Nat, NEW l \in Nat \ {0}, NEW t \in Nat,
           (k * l) \div l + 1 < (t + l - 1) \div l
    PROVE  k * l + l = (k + 1) * l /\ (k + 1) * l < t
<1> DEFINE q == (k * l) \div l
           P == (t + l - 1) \div l
<1>1. k * l \in Nat /\ t + l - 1 \in Nat
  OBVIOUS
<1>2. q \in Nat /\ k * l < (q + 1) * l
  BY <1>1, Quotient
<1>3. P \in Nat /\ P * l <= t + l - 1
  BY <1>1, Quotient
<1>4. q + 1 < P
  OBVIOUS
<1> HIDE DEF q, P
<1>5. k < q + 1
  BY <1>2, MorePages
<1>6. k + 2 <= P
  BY <1>2, <1>3, <1>4, <1>5
<1>7. (k + 2) * l <= P * l /\ P * l \in Int
  BY <1>3, <1>6, MorePages
<1>8. (k + 2) * l = k * l + l + l /\ (k + 1) * l = k * l + l
  OBVIOUS
<1>9. QED
  BY <1>1, <1>3, <1>7, <1>8

(* The customer asks.                                                      *)
LEMMA LogFilterChanged == LogInv /\ Activity!ChangeFilter => LogInv'
<1> SUFFICES ASSUME LogInv, Activity!ChangeFilter PROVE LogInv'
  OBVIOUS
<1> DEFINE q == [category |-> category', order |-> order', offset |-> offset]
           r == [category |-> category', order |-> order', offset |-> 0]
           old == Activity!Fetch(q)
           new == Activity!Fetch(r)
           qs == Activity!AskedAfterChange(q)
<1>1. Activity!Current \in LogQuery
  BY DEF LogInv
<1>2. category \in {"all"} \cup LogCategory /\ order \in {"asc", "desc"} /\ offset \in Nat
  BY <1>1 DEF Activity!Current, LogQuery
<1>3. /\ category' \in {"all"} \cup LogCategory /\ order' \in {"asc", "desc"}
      /\ offset' = 0 /\ stored' = stored /\ logFetches' = logFetches \o qs
  BY <1>2 DEF Activity!ChangeFilter, Activity!Ask, Activity!All
<1>4. q \in LogQuery /\ r \in LogQuery /\ Activity!Current' = r
  BY <1>2, <1>3 DEF LogQuery, Activity!Current
<1>5. /\ old \in LogCall /\ new \in LogCall /\ ~old.read /\ ~new.read
      /\ old.query = q /\ new.query = r
  BY <1>4 DEF Activity!Fetch, LogCall
<1>6. qs = IF offset = 0 THEN <<new>> ELSE <<old, new>>
  <2>1. CASE offset = 0
    <3>1. q = r
      BY <2>1
    <3>2. qs = <<old>> \o <<>>
      BY <2>1 DEF Activity!AskedAfterChange
    <3>3. QED
      BY <2>1, <3>1, <3>2
  <2>2. CASE offset # 0
    <3>1. [q EXCEPT !.offset = 0] = r
      OBVIOUS
    <3>2. qs = <<old>> \o <<new>>
      BY <2>2, <3>1 DEF Activity!AskedAfterChange
    <3>3. QED
      BY <2>2, <3>2
  <2>3. QED
    BY <2>1, <2>2
<1> HIDE DEF q, r, old, new, qs
<1>7. /\ qs \in Seq(LogCall) /\ qs # <<>> /\ qs[Len(qs)].query = Activity!Current'
      /\ \A i \in DOMAIN qs : ~qs[i].read
  <2>1. CASE offset = 0
    BY <1>4, <1>5, <1>6, <2>1
  <2>2. CASE offset # 0
    BY <1>4, <1>5, <1>6, <2>2
  <2>3. QED
    BY <2>1, <2>2
<1>8. 0 * LogLimit = 0 /\ ~(0 > 0)
  BY ActivityConstants DEF ActivityConstants
<1>9. (\E k \in Nat : offset' = k * LogLimit) /\ ~(offset' > 0)
  BY <1>3, <1>8
<1>10. QED
  BY <1>3, <1>4, <1>7, <1>9, LogAsked

(* A refresh asks again for the page there is.                             *)
LEMMA LogRefreshed == LogInv /\ Activity!Refresh => LogInv'
<1> SUFFICES ASSUME LogInv, Activity!Refresh PROVE LogInv'
  OBVIOUS
<1> DEFINE call == Activity!Fetch(Activity!Current)
           qs == <<call>>
<1>1. /\ UNCHANGED <<stored, category, order, offset>> /\ logFetches' = logFetches \o qs
  BY DEF Activity!Refresh, Activity!Ask, Activity!query
<1>2. Activity!Current' = Activity!Current /\ Activity!Current \in LogQuery
  BY <1>1 DEF Activity!Current, LogInv
<1>3. call \in LogCall /\ call.query = Activity!Current /\ ~call.read
  BY <1>2 DEF Activity!Fetch, LogCall
<1> HIDE DEF call
<1>4. /\ qs \in Seq(LogCall) /\ qs # <<>> /\ qs[Len(qs)] = call
      /\ \A i \in DOMAIN qs : ~qs[i].read
  BY <1>3
<1>5. /\ \E k \in Nat : offset' = k * LogLimit
      /\ offset' > 0 => offset' < Held(stored, category')
  BY <1>1 DEF LogInv
<1> HIDE DEF qs
<1>6. QED
  BY <1>1, <1>2, <1>3, <1>4, <1>5, LogAsked

(* Turning the page asks for one that exists.                              *)
LEMMA LogTurned == LogInv /\ Activity!TurnPage => LogInv'
<1> SUFFICES ASSUME LogInv, Activity!TurnPage PROVE LogInv'
  OBVIOUS
<1> DEFINE q == [category |-> category, order |-> order, offset |-> offset']
           call == Activity!Fetch(q)
           qs == <<call>>
<1>1. /\ UNCHANGED <<stored, category, order>> /\ logFetches = <<>>
      /\ logFetches' = logFetches \o qs
  BY DEF Activity!TurnPage, Activity!Ask, Activity!Current
<1>2. /\ total \in Nat /\ total <= Held(stored, category) /\ stored \in Seq(LogCategory)
      /\ offset > 0 => offset < Held(stored, category)
      /\ Activity!Current \in LogQuery
  BY <1>1 DEF LogInv
<1>3. category \in {"all"} \cup LogCategory /\ order \in {"asc", "desc"} /\ offset \in Nat
  BY <1>2 DEF Activity!Current, LogQuery
<1>4. PICK k \in Nat : offset = k * LogLimit
  BY DEF LogInv
<1>5. LogLimit \in Nat \ {0} /\ Held(stored, category) \in Nat
  BY <1>2, ActivityConstants, HeldIsNumber DEF ActivityConstants
<1>6. /\ \E m \in Nat : offset' = m * LogLimit
      /\ offset' \in Nat
      /\ offset' > 0 => offset' < Held(stored, category)
  <2>1. CASE Activity!currentPage > 1 /\ offset' = offset - LogLimit
    <3>1. k # 0
      <4>1. 0 \div LogLimit = 0 /\ 0 * LogLimit = 0
        BY <1>5
      <4>2. k = 0 => Activity!currentPage = 1
        BY <1>4, <4>1 DEF Activity!currentPage
      <4>3. QED
        BY <2>1, <4>2
    <3>2. k - 1 \in Nat /\ offset' = (k - 1) * LogLimit /\ k * LogLimit \in Int
      BY <1>4, <1>5, <2>1, <3>1, MorePages
    <3>3. 0 * LogLimit <= (k - 1) * LogLimit /\ 0 * LogLimit = 0 /\ offset' \in Int
      BY <1>5, <3>2, MorePages
    <3>4. offset' < offset /\ offset' \in Nat
      BY <1>3, <1>5, <2>1, <3>2, <3>3
    <3>5. QED
      BY <1>2, <1>3, <1>5, <3>2, <3>4
  <2>2. CASE Activity!currentPage < Activity!totalPages /\ offset' = offset + LogLimit
    <3>1. (k * LogLimit) \div LogLimit + 1 < (total + LogLimit - 1) \div LogLimit
      BY <1>4, <2>2 DEF Activity!currentPage, Activity!totalPages
    <3>2. offset' = (k + 1) * LogLimit /\ (k + 1) * LogLimit < total
      BY <1>2, <1>4, <1>5, <2>2, <3>1, PageTurned
    <3>3. offset' \in Nat
      BY <1>3, <1>5, <2>2
    <3>4. k + 1 \in Nat /\ offset' < Held(stored, category)
      BY <1>2, <1>5, <3>2, <3>3
    <3>5. QED
      BY <3>2, <3>3, <3>4
  <2>3. QED
    BY <2>1, <2>2 DEF Activity!TurnPage
<1>7. Activity!Current' = q /\ q \in LogQuery
  BY <1>1, <1>3, <1>6 DEF Activity!Current, LogQuery
<1>8. call \in LogCall /\ call.query = q /\ ~call.read
  BY <1>7 DEF Activity!Fetch, LogCall
<1> HIDE DEF call, q
<1>9. /\ qs \in Seq(LogCall) /\ qs # <<>> /\ qs[Len(qs)] = call
      /\ \A i \in DOMAIN qs : ~qs[i].read
  BY <1>8
<1> HIDE DEF qs
<1>10. QED
  BY <1>1, <1>6, <1>7, <1>8, <1>9, LogAsked

(* One more event is stored: a page that exists goes on to.                *)
LEMMA LogStored == LogInv /\ Activity!StoreEvent => LogInv'
<1> SUFFICES ASSUME LogInv, Activity!StoreEvent PROVE LogInv'
  OBVIOUS
<1>1. PICK c \in LogCategory : stored' = Append(stored, c)
  BY DEF Activity!StoreEvent
<1>2. UNCHANGED <<events, total, shownFor, category, order, offset, logFetches>>
  BY DEF Activity!StoreEvent, Activity!page, Activity!query
<1>3. stored \in Seq(LogCategory) /\ stored' \in Seq(LogCategory)
  BY <1>1 DEF LogInv
<1>4. /\ Held(stored, category) <= Held(stored', category)
      /\ Held(stored, category) \in Nat /\ Held(stored', category) \in Nat
  BY <1>1, <1>3, HeldGrows, HeldIsNumber
<1>5. Activity!Current' = Activity!Current /\ Activity!Current \in LogQuery
  BY <1>2 DEF Activity!Current, LogInv
<1>6. LogCalls'
  BY <1>2, <1>5 DEF LogInv, LogCalls
<1>7. offset \in Nat
  BY <1>5 DEF Activity!Current, LogQuery
<1>8. offset' > 0 => offset' < Held(stored', category')
  <2>1. offset > 0 => offset < Held(stored, category)
    BY DEF LogInv
  <2>2. QED
    BY <1>2, <1>4, <1>7, <2>1
<1>9. logFetches' = <<>> =>
         /\ shownFor' = Activity!Current'
         /\ total' \in Nat /\ total' <= Held(stored', category')
         /\ offset' > 0 => events' # <<>>
  <2>1. SUFFICES ASSUME logFetches = <<>>
                 PROVE  /\ shownFor' = Activity!Current'
                        /\ total' \in Nat /\ total' <= Held(stored', category')
                        /\ offset' > 0 => events' # <<>>
    BY <1>2
  <2>2. /\ shownFor = Activity!Current /\ total \in Nat /\ total <= Held(stored, category)
        /\ offset > 0 => events # <<>>
    BY <2>1 DEF LogInv
  <2>3. QED
    BY <1>2, <1>4, <1>5, <2>2
<1>10. \E k \in Nat : offset' = k * LogLimit
  BY <1>2 DEF LogInv
<1>11. QED
  BY <1>3, <1>5, <1>6, <1>8, <1>9, <1>10 DEF LogInv

(* The query reads its rows.                                               *)
LEMMA LogRead ==
    ASSUME LogInv, NEW i \in DOMAIN logFetches, Activity!ReadRows(i)
    PROVE  LogInv'
<1> DEFINE q == logFetches[i].query
           call == [logFetches[i] EXCEPT !.read = TRUE, !.rows = Activity!Rows(q)]
<1>1. UNCHANGED <<stored, events, total, shownFor, category, order, offset>>
  BY DEF Activity!ReadRows, Activity!page, Activity!query
<1>2. /\ logFetches \in Seq(LogCall) /\ stored \in Seq(LogCategory)
      /\ i \in 1..Len(logFetches) /\ Len(logFetches) \in Nat
  BY DEF LogInv, LogCalls
<1>3. logFetches[i] \in LogCall /\ q \in LogQuery
  <2>1. logFetches[i] \in LogCall
    BY <1>2
  <2>2. QED
    BY <2>1 DEF LogCall
<1>4. logFetches' = [logFetches EXCEPT ![i] = call]
  BY <1>2 DEF Activity!ReadRows
<1>5. /\ Activity!Rows(q) \in Seq(Nat)
      /\ q.offset < Held(stored, q.category) => Activity!Rows(q) # <<>>
  BY <1>2, <1>3, RowsThere
<1>6. call \in LogCall /\ call.query = q /\ call.rows = Activity!Rows(q)
  <2>1. ASSUME NEW c \in LogCall, NEW r \in Seq(Nat)
        PROVE  /\ [c EXCEPT !.read = TRUE, !.rows = r] \in LogCall
               /\ [c EXCEPT !.read = TRUE, !.rows = r].query = c.query
               /\ [c EXCEPT !.read = TRUE, !.rows = r].rows = r
    BY DEF LogCall
  <2>2. QED
    BY <1>3, <1>5, <2>1
<1> HIDE DEF call, q
<1>7. /\ logFetches' \in Seq(LogCall) /\ Len(logFetches') = Len(logFetches)
      /\ DOMAIN logFetches' = DOMAIN logFetches
      /\ logFetches'[i] = call
      /\ \A j \in DOMAIN logFetches : j # i => logFetches'[j] = logFetches[j]
  BY <1>2, <1>4, <1>6
<1>8. Activity!Current' = Activity!Current
  BY <1>1 DEF Activity!Current
<1>9. \A j \in DOMAIN logFetches : logFetches'[j].query = logFetches[j].query
  BY <1>6, <1>7 DEF q
<1>10. logFetches # <<>> /\ logFetches' # <<>>
  BY <1>2, <1>7
<1>11. logFetches'[Len(logFetches')].query = Activity!Current'
  <2>1. Len(logFetches) \in DOMAIN logFetches
    BY <1>2
  <2>2. QED
    BY <1>7, <1>8, <1>9, <1>10, <2>1 DEF LogInv, LogCalls
<1>12. ASSUME NEW j \in DOMAIN logFetches', offset' > 0,
              logFetches'[j].query = Activity!Current', logFetches'[j].read
       PROVE  logFetches'[j].rows # <<>>
  <2>1. CASE j = i
    <3>1. q = Activity!Current
      BY <1>6, <1>7, <1>8, <1>12, <2>1
    <3>2. q.offset = offset /\ q.category = category
      BY <3>1 DEF Activity!Current
    <3>3. offset < Held(stored, category)
      BY <1>1, <1>12 DEF LogInv
    <3>4. QED
      BY <1>5, <1>6, <1>7, <2>1, <3>2, <3>3
  <2>2. CASE j # i
    BY <1>1, <1>7, <1>8, <1>12, <2>2 DEF LogInv, LogCalls
  <2>3. QED
    BY <2>1, <2>2
<1>13. LogCalls'
  BY <1>7, <1>11, <1>12 DEF LogCalls
<1>14. QED
  BY <1>1, <1>8, <1>10, <1>13 DEF LogInv

(* The answer to the first call is displayed, that to the last at the end. *)
LEMMA LogAnswered ==
    ASSUME LogInv, NEW i \in DOMAIN logFetches, Activity!Succeeds(i)
    PROVE  LogInv'
<1>1. /\ i = 1 /\ logFetches' = RemoveAt(logFetches, 1)
      /\ UNCHANGED <<stored, category, order, offset>>
      /\ logFetches[1].read
      /\ events' = logFetches[1].rows /\ shownFor' = logFetches[1].query
      /\ total' = Len(Activity!Matching(logFetches[1].query))
  BY DEF Activity!Succeeds, Activity!Answered, Activity!Show, Activity!RemoveAt, RemoveAt,
         Activity!query
<1>2. /\ logFetches \in Seq(LogCall) /\ logFetches # <<>> /\ stored \in Seq(LogCategory)
      /\ Len(logFetches) \in Nat /\ 1 \in DOMAIN logFetches
  BY <1>1 DEF LogInv, LogCalls
<1>3. /\ logFetches' \in Seq(LogCall)
      /\ logFetches' = <<>> => logFetches[1] = logFetches[Len(logFetches)]
      /\ logFetches' # <<>> => logFetches'[Len(logFetches')] = logFetches[Len(logFetches)]
  BY <1>1, <1>2, LastRemains
<1>4. logFetches[Len(logFetches)].query = Activity!Current
  BY <1>2 DEF LogInv, LogCalls
<1>5. Activity!Current' = Activity!Current /\ Activity!Current \in LogQuery
  BY <1>1 DEF Activity!Current, LogInv
<1>6. /\ Len(logFetches') = Len(logFetches) - 1
      /\ \A j \in 1..(Len(logFetches) - 1) : logFetches'[j] = logFetches[j + 1]
  BY <1>1, <1>2, WithoutFirst
<1>7. ASSUME NEW j \in DOMAIN logFetches', offset' > 0,
             logFetches'[j].query = Activity!Current', logFetches'[j].read
      PROVE  logFetches'[j].rows # <<>>
  <2>1. DOMAIN logFetches' = 1..(Len(logFetches) - 1) /\ DOMAIN logFetches = 1..Len(logFetches)
    BY <1>2, <1>3, <1>6
  <2>2. j + 1 \in DOMAIN logFetches /\ logFetches'[j] = logFetches[j + 1]
    BY <1>2, <1>6, <2>1
  <2>3. QED
    BY <1>1, <1>5, <1>7, <2>2 DEF LogInv, LogCalls
<1>8. LogCalls'
  BY <1>3, <1>4, <1>5, <1>7 DEF LogCalls
<1>9. ASSUME logFetches' = <<>>
      PROVE  /\ shownFor' = Activity!Current'
             /\ total' \in Nat /\ total' <= Held(stored', category')
             /\ offset' > 0 => events' # <<>>
  <2>1. logFetches[1].query = Activity!Current
    BY <1>3, <1>4, <1>9
  <2>2. total' = Held(stored, category)
    <3>1. Activity!Current.category = category
      BY DEF Activity!Current
    <3>2. QED
      BY <1>1, <1>2, <1>5, <2>1, <3>1, MatchingFound
  <2>3. total' \in Nat
    BY <1>2, <2>2, HeldIsNumber
  <2>4. offset' > 0 => events' # <<>>
    BY <1>1, <1>2, <2>1 DEF LogInv, LogCalls
  <2>5. QED
    BY <1>1, <1>5, <2>1, <2>2, <2>3, <2>4
<1>10. /\ offset' > 0 => offset' < Held(stored', category')
       /\ \E k \in Nat : offset' = k * LogLimit
  BY <1>1 DEF LogInv
<1>11. QED
  BY <1>1, <1>2, <1>5, <1>8, <1>9, <1>10 DEF LogInv

(* Every step of the log keeps what is known of its calls and its pages.   *)
LEMMA LogStep == LogInv /\ (Activity!Next \/ UNCHANGED logVars) => LogInv'
<1> SUFFICES ASSUME LogInv, (Activity!Next \/ UNCHANGED logVars) PROVE LogInv'
  OBVIOUS
<1>1. ASSUME UNCHANGED <<stored, category, order, offset, events, total, logFetches, shownFor>>
      PROVE  LogInv'
  BY <1>1 DEF LogInv, LogCalls, Activity!Current
<1>2. CASE Activity!StoreEvent \/ Activity!ChangeFilter \/ Activity!Refresh \/ Activity!TurnPage
  BY <1>2, LogStored, LogFilterChanged, LogRefreshed, LogTurned
<1>3. CASE Activity!SocketRefused
  BY <1>1, <1>3 DEF Activity!SocketRefused, Activity!page, Activity!query
<1>4. ASSUME NEW i \in DOMAIN logFetches, Activity!ReadRows(i) \/ Activity!Succeeds(i)
      PROVE  LogInv'
  BY <1>4, LogRead, LogAnswered
<1>5. ASSUME NEW i \in DOMAIN logFetches
      PROVE  ~Activity!QueryFails(i) /\ ~Activity!CallFails(i)
  BY DEF Activity!QueryFails, Activity!CallFails
<1>6. CASE UNCHANGED logVars
  BY <1>1, <1>6 DEF logVars
<1>7. QED
  BY <1>2, <1>3, <1>4, <1>5, <1>6 DEF Activity!Next

-----------------------------------------------------------------------------
(* What is displayed is what is asked for once the answers are in, as long *)
(* as these come in the order of the calls: every row that passes is on    *)
(* one page of its table, the list of transactions is that of the filter,  *)
(* the ledger that of the timeframe, the log that of a page which exists,  *)
(* and the balances are of one moment.                                     *)
THEOREM ShownHolds == VisitSpec => []ShownIsAsked
<1> DEFINE I ==
        /\ At("tables") => TablesInv
        /\ At("transactions") => ListInv
        /\ At("activity") => LogInv
        /\ At("account") => AccountInv
        /\ At("account_main") => AccountInv
        /\ At("audit") => AuditInv
<1>1. VisitInit => I
  <2>1. Account!Init => AccountInv
    BY AccountBegins
    DEF Account!Init, Account!Accounts, Account!Unknown, Account!NoTransfer, Both, NotRead
  <2>2. MainAccount!Init => AccountInv
    BY AccountBegins
    DEF MainAccount!Init, MainAccount!Accounts, MainAccount!Unknown, MainAccount!NoTransfer,
        Both, NotRead
  <2>3. QED
    BY <2>1, <2>2, TablesInit, ListInit, LogInit, AuditInit DEF VisitInit, At
<1>2. I /\ [VisitNext]_visitVars => I'
  <2> SUFFICES ASSUME I, [VisitNext]_visitVars PROVE I'
    OBVIOUS
  <2>1. At("tables")' => TablesInv'
    BY TablesStep DEF VisitNext, visitVars, At
  <2>2. At("transactions")' => ListInv'
    BY ListStep DEF VisitNext, visitVars, At
  <2>3. At("activity")' => LogInv'
    BY LogStep DEF VisitNext, visitVars, At
  <2>4. At("account")' => AccountInv'
    BY AccountStep DEF VisitNext, visitVars, At
  <2>5. At("account_main")' => AccountInv'
    BY MainAccountStep DEF VisitNext, visitVars, At
  <2>6. At("audit")' => AuditInv'
    BY AuditStep DEF VisitNext, visitVars, At
  <2>7. QED
    BY <2>1, <2>2, <2>3, <2>4, <2>5, <2>6
<1>3. I => ShownIsAsked
  <2>1. ListInv => Transactions!ShownForFilter
    BY DEF ListInv, Transactions!ShownForFilter, Transactions!filter
  <2>2. LogInv => Activity!ShownForQuery /\ Activity!NotStranded
    BY DEF LogInv, Activity!ShownForQuery, Activity!NotStranded
  <2>3. AuditInv => Audit!ShownForTimeframe
    BY DEF AuditInv, Audit!ShownForTimeframe
  <2>4. AccountInv => Account!TotalShown /\ MainAccount!TotalShown
    BY DEF AccountInv, Moment, NotRead, Both, Account!TotalShown, MainAccount!TotalShown,
           Account!Loaded, MainAccount!Loaded, Account!Unknown, MainAccount!Unknown,
           Account!Accounts, MainAccount!Accounts
  <2>5. QED
    BY <2>1, <2>2, <2>3, <2>4, TablesFacts DEF ShownIsAsked
<1>4. QED
  BY <1>1, <1>2, <1>3, PTL DEF VisitSpec

-----------------------------------------------------------------------------
(* The consumer with malformed messages: the proofs about the consumer,    *)
(* for its constants and its state.                                        *)
Again == INSTANCE ConsumerProofs WITH
    Malformed <- PoisonedMalformed, MaxFaults <- PoisonedFaults,
    logEnd <- poisonedLogEnd, committed <- poisonedCommitted,
    rows <- poisonedRows, position <- poisonedPosition,
    txBuffer <- poisonedTxBuffer, activityBuffer <- poisonedActivityBuffer,
    txSuccess <- poisonedTxSuccess, activitySuccess <- poisonedActivitySuccess,
    pc <- poisonedPc, stopping <- poisonedStopping, faults <- poisonedFaults

PoisonedInv == Again!TypeOK /\ Again!IInv /\ Again!KeptInv

(* What the proofs assume of the constants.                                *)
LEMMA PoisonedAssumption ==
    /\ MaxLength \in Nat /\ PoisonedFaults \in Nat /\ BatchSize \in Nat \ {0}
    /\ TxPartition \cap ActivityPartition = {}
    /\ PoisonedMalformed \subseteq Again!Message
  BY ConsumerAssumption, PoisonedConstants
  DEF ConsumerAssumption, PoisonedConstants, Message, TxMessage, ActivityMessage,
      Again!Message, Again!TxMessage, Again!ActivityMessage

(* At first nothing is read.                                               *)
LEMMA PoisonedInit == Again!Init => PoisonedInv
  BY PoisonedAssumption, Again!InitType, Again!InitIInv, Again!InitKeptInv DEF PoisonedInv

(* Every step keeps it.                                                    *)
LEMMA PoisonedStep == PoisonedInv /\ (Again!Next \/ UNCHANGED Again!vars) => PoisonedInv'
<1> SUFFICES ASSUME PoisonedInv, Again!Next \/ UNCHANGED Again!vars PROVE PoisonedInv'
  OBVIOUS
<1>1. [Again!Next]_(Again!vars)
  OBVIOUS
<1>2. Again!TypeOK'
  BY <1>1, PoisonedAssumption, Again!TypeStep DEF PoisonedInv
<1>3. Again!IInv'
  BY <1>1, <1>2, PoisonedAssumption, Again!NextIInv DEF PoisonedInv
<1>4. Again!KeptInv'
  BY <1>1, PoisonedAssumption, Again!NextKeptInv DEF PoisonedInv
<1>5. QED
  BY <1>2, <1>3, <1>4 DEF PoisonedInv

(* The visit takes the consumer from Consumer, the proofs from their own   *)
(* copy of it: the two agree.                                              *)
LEMMA SameInit == Poisoned!Init => Again!Init
  BY DEF Poisoned!Init, Again!Init, Poisoned!Partition, Again!Partition,
         Poisoned!Message, Again!Message, Poisoned!TxMessage, Again!TxMessage,
         Poisoned!ActivityMessage, Again!ActivityMessage

(* They count alike.                                                       *)
LEMMA SameCardinality == \A S : Poisoned!Cardinality(S) = Again!Cardinality(S)
  BY DEF Poisoned!Cardinality, Again!Cardinality

(* Publishing and reading are the same steps.                              *)
LEMMA SameReading ==
    ASSUME NEW p PROVE /\ Poisoned!Publish(p) => Again!Publish(p)
                       /\ Poisoned!Poll(p) => Again!Poll(p)
                       /\ Poisoned!PollMalformed(p) => Again!PollMalformed(p)
<1>1. Poisoned!Publish(p) => Again!Publish(p)
  BY DEF Poisoned!Publish, Again!Publish, Poisoned!memory, Again!memory,
         Poisoned!flush, Again!flush
<1>2. Poisoned!Keep(p, <<p, poisonedPosition[p]>>) => Again!Keep(p, <<p, poisonedPosition[p]>>)
  BY DEF Poisoned!Keep, Again!Keep
<1>3. Poisoned!Poll(p) => Again!Poll(p)
  BY <1>2, SameCardinality DEF Poisoned!Poll, Again!Poll, Poisoned!flush, Again!flush
<1>4. Poisoned!PollMalformed(p) => Again!PollMalformed(p)
  BY DEF Poisoned!PollMalformed, Again!PollMalformed, Poisoned!CommitReaches,
         Again!CommitReaches, Poisoned!Fault, Again!Fault, Poisoned!flush, Again!flush
<1>5. QED
  BY <1>1, <1>3, <1>4

(* So are the flush and the end of a process.                              *)
LEMMA SameFlush ==
    /\ Poisoned!FlushInterval => Again!FlushInterval
    /\ Poisoned!FlushTransactions => Again!FlushTransactions
    /\ Poisoned!FlushActivity => Again!FlushActivity
    /\ Poisoned!Finish => Again!Finish
    /\ Poisoned!Stop => Again!Stop
    /\ Poisoned!Crash => Again!Crash
<1> USE DEF Poisoned!memory, Again!memory, Poisoned!flush, Again!flush,
            Poisoned!Fault, Again!Fault, Poisoned!StartFrom, Again!StartFrom
<1>1. Poisoned!FlushInterval => Again!FlushInterval
  BY DEF Poisoned!FlushInterval, Again!FlushInterval, Poisoned!Buffered, Again!Buffered
<1>2. ASSUME NEW batch, NEW success
      PROVE  Poisoned!FlushBatch(batch, success) => Again!FlushBatch(batch, success)
  BY DEF Poisoned!FlushBatch, Again!FlushBatch, Poisoned!Insert, Again!Insert,
         Poisoned!Message, Again!Message, Poisoned!TxMessage, Again!TxMessage,
         Poisoned!ActivityMessage, Again!ActivityMessage
<1>3. Poisoned!FlushTransactions => Again!FlushTransactions
  BY <1>2 DEF Poisoned!FlushTransactions, Again!FlushTransactions
<1>4. Poisoned!FlushActivity => Again!FlushActivity
  BY <1>2 DEF Poisoned!FlushActivity, Again!FlushActivity
<1>5. Poisoned!Finish => Again!Finish
  BY DEF Poisoned!Finish, Again!Finish, Poisoned!CommitReaches, Again!CommitReaches
<1>6. Poisoned!Stop => Again!Stop
  BY DEF Poisoned!Stop, Again!Stop, Poisoned!Buffered, Again!Buffered
<1>7. Poisoned!Crash => Again!Crash
  BY DEF Poisoned!Crash, Again!Crash
<1>8. QED
  BY <1>1, <1>3, <1>4, <1>5, <1>6, <1>7

(* So every step of the one is a step of the other.                        *)
LEMMA SameNext == Poisoned!Next => Again!Next
<1>1. Poisoned!Partition = Again!Partition
  BY DEF Poisoned!Partition, Again!Partition
<1>2. QED
  BY <1>1, SameReading, SameFlush DEF Poisoned!Next, Again!Next

(* What is known of the consumer is what the visit says of it.             *)
LEMMA PoisonedKnown ==
    PoisonedInv => Poisoned!CommittedIsStored /\ Poisoned!KeptUntilStored
<1>1. Poisoned!Message = Again!Message
  BY DEF Poisoned!Message, Again!Message, Poisoned!TxMessage, Again!TxMessage,
         Poisoned!ActivityMessage, Again!ActivityMessage
<1>2. PoisonedInv => Poisoned!CommittedIsStored
  BY <1>1
  DEF PoisonedInv, Again!IInv, Poisoned!CommittedIsStored, Again!CommittedIsStored,
      Poisoned!Acknowledged, Again!Acknowledged, Poisoned!Stored, Again!Stored,
      Poisoned!MalformedAcknowledged, Again!MalformedAcknowledged
<1>3. PoisonedInv => Poisoned!KeptUntilStored
  BY <1>1
  DEF PoisonedInv, Again!KeptInv, Poisoned!KeptUntilStored, Poisoned!Read, Again!Read,
      Poisoned!Stored, Again!Stored, Poisoned!Buffered, Again!Buffered
<1>4. QED
  BY <1>2, <1>3

(* Damage to what is stored needs faults: no more rows than faults on top  *)
(* where no message is malformed (consumer.py:80); and where some are, the *)
(* offsets run ahead of ClickHouse only by what a malformed message takes  *)
(* along (consumer.py:137), and nothing read is dropped from a buffer.     *)
THEOREM DamageHolds == VisitSpec => []DamageNeedsFaults
<1> DEFINE P == At("malformed") => PoisonedInv
<1>1. VisitInit => Init /\ P
  BY SameInit, PoisonedInit DEF VisitInit, At
<1>2. [VisitNext]_visitVars => [Next]_vars
  BY DEF VisitNext, visitVars
<1>3. P /\ [VisitNext]_visitVars => P'
  <2> SUFFICES ASSUME P, [VisitNext]_visitVars, At("malformed")' PROVE PoisonedInv'
    OBVIOUS
  <2>1. At("malformed")
    BY DEF VisitNext, visitVars, At
  <2>2. Poisoned!Next \/ UNCHANGED poisonedVars
    BY <2>1 DEF VisitNext, visitVars
  <2>3. Again!Next \/ UNCHANGED Again!vars
    BY <2>2, SameNext DEF poisonedVars, Again!vars
  <2>4. QED
    BY <2>1, <2>3, PoisonedStep
<1>4. P /\ DuplicatesNeedFaults => DamageNeedsFaults
  BY PoisonedKnown DEF DamageNeedsFaults
<1>5. QED
  BY <1>1, <1>2, <1>3, <1>4, RowsNeedFaults, PTL DEF VisitSpec, Spec

-----------------------------------------------------------------------------
(* The types of the tables and the lists.                                  *)

(* The rows that pass are rows, and no more than there are.                *)
LEMMA DataBounded ==
    ASSUME NEW n \in Nat, DOMAIN tablesRows = 1..n
    PROVE  /\ Len(Tables!FilteredData) <= n
           /\ \A i \in 1..Len(Tables!FilteredData) : Tables!FilteredData[i] \in 1..n
<1> DEFINE S == {i \in DOMAIN tablesRows : i \in TableSearch[search]
                                           /\ Tables!MatchesStatus(tablesRows[i])}
<1>1. S \in SUBSET (1..n) /\ S \in SUBSET Nat
  OBVIOUS
<1>2. IsFiniteSet(S) /\ Cardinality(S) <= n
  <2> DEFINE D == 1..n
  <2>1. IsFiniteSet(D) /\ Cardinality(D) = n
    BY UpTo, CountTo
  <2>2. S \in SUBSET D
    BY <1>1
  <2> HIDE DEF S, D
  <2>3. QED
    BY <2>1, <2>2, FS_Subset
<1>3. Tables!FilteredData = Tables!Ascending(S)
  BY DEF Tables!FilteredData
<1> HIDE DEF S
<1>4. Tables!Ascending(S) = Ascending(S)
  BY DEF Tables!Ascending, Ascending, Tables!Cardinality, Cardinality,
         Tables!IsFiniteSet, IsFiniteSet
<1>5. /\ Ascending(S) \in [1..Cardinality(S) -> S]
      /\ Cardinality(S) \in Nat /\ Len(Ascending(S)) = Cardinality(S)
  BY <1>1, <1>2, InOrder
<1>6. QED
  BY <1>1, <1>2, <1>3, <1>4, <1>5

(* There are no more pages than rows, and a page displays rows.            *)
LEMMA PagesBounded ==
    ASSUME NEW n \in Nat, DOMAIN tablesRows = 1..n
    PROVE  /\ Tables!TotalPages \in Nat /\ Tables!TotalPages <= n
           /\ currentPage \in Nat \ {0} => \A i \in Tables!Displayed : i \in 1..n
<1> DEFINE s == Tables!FilteredData
           k == itemsPerPage
           P == (Len(s) + k - 1) \div k
<1>1. /\ s \in Seq(Nat) /\ Len(s) \in Nat /\ Len(s) <= n
      /\ \A i \in 1..Len(s) : s[i] \in 1..n
  BY DataListed, DataBounded
<1>2. k \in Nat \ {0}
  BY TablesConstants DEF TablesConstants
<1>3. P \in Nat /\ Tables!TotalPages = P
  BY <1>1, <1>2, PlacesPaged DEF Tables!TotalPages
<1> HIDE DEF s, k
<1>4. P <= Len(s)
  <2>1. CASE Len(s) = 0
    <3>1. 0 <= k - 1 /\ k - 1 < k /\ Len(s) + k - 1 = k - 1
      BY <1>2, <2>1
    <3>2. (k - 1) \div k = 0
      BY <1>2, <3>1
    <3>3. QED
      BY <2>1, <3>1, <3>2
  <2>2. CASE Len(s) > 0
    <3> DEFINE a == Len(s) + k - 1
    <3>1. a \in Nat
      BY <1>1, <1>2
    <3>2. (a \div k) \in Nat /\ (a \div k) * k <= a
      BY <1>2, <3>1, Quotient
    <3>3. PICK m \in Nat : m = Len(s) /\ m > 0
      BY <1>1, <2>2
    <3>4. m * k >= (m + k) - 1
      BY <1>2, <3>3
    <3>5. (a \div k) * k <= m * k
      <4>1. a = (m + k) - 1 /\ m * k \in Nat /\ (a \div k) * k \in Nat
        BY <1>2, <3>2, <3>3
      <4>2. QED
        BY <1>2, <3>1, <3>2, <3>3, <3>4, <4>1
    <3> HIDE DEF a
    <3>6. ~(m < a \div k)
      <4>1. SUFFICES ASSUME m < a \div k PROVE FALSE
        OBVIOUS
      <4>2. m + 1 <= a \div k
        BY <3>2, <3>3, <4>1
      <4>3. (m + 1) * k <= (a \div k) * k
        BY <1>2, <3>2, <3>3, <4>2, MorePages
      <4>4. (m + 1) * k = m * k + k
        BY <1>2, <3>3
      <4>5. QED
        BY <1>2, <3>2, <3>3, <3>5, <4>3, <4>4
    <3>7. QED
      BY <3>2, <3>3, <3>6 DEF a
  <2>3. QED
    BY <1>1, <2>1, <2>2
<1>5. ASSUME currentPage \in Nat \ {0}, NEW i \in Tables!Displayed PROVE i \in 1..n
  <2> DEFINE p == currentPage
             a == (p - 1) * k + 1
             b == Tables!Min({p * k, Len(s)})
  <2>1. p * k \in Int /\ a \in Nat \ {0}
    BY <1>2, <1>5
  <2>2. b = IF p * k <= Len(s) THEN p * k ELSE Len(s)
    BY <1>1, <2>1, SmallerOfTwo
  <2>3. b \in Int /\ b <= Len(s)
    BY <1>1, <2>1, <2>2
  <2>4. i \in ToSet(SubSeq(s, a, b))
    BY <1>5 DEF Tables!Displayed, Tables!Slice, Tables!ToSet, ToSet, s, k
  <2> HIDE DEF a, b, p
  <2>5. PICK j \in a..b : i = s[j]
    BY <1>1, <2>1, <2>3, <2>4, PartMembers
  <2>6. j \in 1..Len(s)
    BY <1>1, <2>1, <2>3, <2>5
  <2>7. QED
    BY <1>1, <2>5, <2>6
<1>6. QED
  BY <1>1, <1>3, <1>4, <1>5

(* The first button of each table is one of its buttons.                   *)
LEMMA TablesTypesStep ==
    TablesInv /\ Tables!TypeOK /\ (Tables!Next \/ UNCHANGED tablesVars) => Tables!TypeOK'
<1> SUFFICES ASSUME TablesInv, Tables!TypeOK, Tables!Next \/ UNCHANGED tablesVars
             PROVE  Tables!TypeOK'
  OBVIOUS
<1> USE TablesConstants DEF TablesConstants
<1>1. PICK n \in Nat : DOMAIN tablesRows = 1..n
  BY DEF TablesInv
<1>2. /\ tablesRows \in Seq(Tables!Statuses(table)) /\ Len(tablesRows) <= MaxRows
      /\ currentPage \in 1..(MaxRows + 1)
  BY DEF Tables!TypeOK
<1>3. n <= MaxRows
  BY <1>1, <1>2
<1>4. /\ Tables!TotalPages \in Nat /\ Tables!TotalPages <= n
      /\ \A i \in Tables!Displayed : i \in 1..n
  BY <1>1, <1>2, PagesBounded
<1>5. CASE Tables!Refetch
  <2>1. PICK m \in 0..MaxRows : tablesRows' \in [1..m -> Tables!Statuses(table)]
    BY <1>5 DEF Tables!Refetch
  <2>2. tablesRows' \in Seq(Tables!Statuses(table)) /\ Len(tablesRows') <= MaxRows
    BY <2>1
  <2>3. Tables!Statuses(table') = Tables!Statuses(table) /\ Tables!Filters(table') = Tables!Filters(table)
    BY <1>5 DEF Tables!Refetch
  <2>4. QED
    BY <1>5, <2>2, <2>3 DEF Tables!Refetch, Tables!TypeOK
<1>6. CASE Tables!TypeSearch \/ Tables!ChooseFilter
  <2>1. /\ UNCHANGED <<table, tablesRows, detail>>
        /\ search' \in DOMAIN TableSearch /\ filter' \in Tables!Filters(table)
    BY <1>6 DEF Tables!TypeSearch, Tables!ChooseFilter, Tables!TypeOK
  <2>2. currentPage' \in 1..(MaxRows + 1)
    BY <1>2, <1>6 DEF Tables!TypeSearch, Tables!ChooseFilter
  <2>3. narrowed' \in BOOLEAN
    BY <1>6 DEF Tables!TypeSearch, Tables!ChooseFilter
  <2>4. QED
    BY <2>1, <2>2, <2>3 DEF Tables!TypeOK
<1>7. CASE Tables!ChoosePage \/ Tables!Previous \/ Tables!NextPage
  <2>1. currentPage' \in 1..(MaxRows + 1)
    BY <1>2, <1>3, <1>4, <1>7
    DEF Tables!ChoosePage, Tables!GoTo, Tables!Previous, Tables!NextPage, Tables!Paged
  <2>2. UNCHANGED <<table, tablesRows, search, filter, detail>> /\ narrowed' \in BOOLEAN
    BY <1>7 DEF Tables!ChoosePage, Tables!GoTo, Tables!Previous, Tables!NextPage, Tables!TypeOK
  <2>3. QED
    BY <2>1, <2>2 DEF Tables!TypeOK
<1>8. CASE Tables!ViewDetails
  <2>1. detail' \in Tables!Statuses(table)
    BY <1>1, <1>2, <1>4, <1>8 DEF Tables!ViewDetails
  <2>2. QED
    BY <1>8, <2>1 DEF Tables!ViewDetails, Tables!TypeOK
<1>9. CASE Tables!CloseDetails
  BY <1>9 DEF Tables!CloseDetails, Tables!TypeOK
<1>10. CASE Tables!ChangeTab
  <2>1. tablesRows' \in Seq(Tables!Statuses(table')) /\ Len(tablesRows') = 0
    BY <1>10 DEF Tables!ChangeTab
  <2>2. table' \in Tables!Table /\ filter' \in Tables!Filters(table')
    BY <1>10 DEF Tables!ChangeTab
  <2>3. /\ search' \in DOMAIN TableSearch /\ detail' \in Tables!Statuses(table') \cup {"none"}
        /\ currentPage' \in 1..(MaxRows + 1) /\ narrowed' \in BOOLEAN
    <3>1. search' \in DOMAIN TableSearch /\ currentPage' \in 1..(MaxRows + 1)
      BY <1>10 DEF Tables!ChangeTab
    <3>2. detail' \in Tables!Statuses(table') \cup {"none"}
      BY <1>10 DEF Tables!ChangeTab
    <3>3. narrowed' \in BOOLEAN
      BY <1>10 DEF Tables!ChangeTab
    <3>4. QED
      BY <3>1, <3>2, <3>3
  <2>4. QED
    BY <2>1, <2>2, <2>3 DEF Tables!TypeOK
<1>11. CASE UNCHANGED tablesVars
  BY <1>11 DEF tablesVars, Tables!TypeOK
<1>12. QED
  BY <1>5, <1>6, <1>7, <1>8, <1>9, <1>10, <1>11 DEF Tables!Next

(* At first the table is empty.                                            *)
LEMMA TablesTypesInit == Tables!Init => Tables!TypeOK
<1> SUFFICES ASSUME Tables!Init PROVE Tables!TypeOK
  OBVIOUS
<1>1. tablesRows \in Seq(Tables!Statuses(table)) /\ Len(tablesRows) = 0
  BY DEF Tables!Init
<1>2. filter \in Tables!Filters(table)
  BY DEF Tables!Init
<1>3. /\ table \in Tables!Table
      /\ search \in DOMAIN TableSearch /\ detail \in Tables!Statuses(table) \cup {"none"}
      /\ currentPage \in 1..(MaxRows + 1) /\ narrowed \in BOOLEAN
  <2>1. search \in DOMAIN TableSearch /\ currentPage \in 1..(MaxRows + 1)
    BY TablesConstants DEF TablesConstants, Tables!Init
  <2>2. detail \in Tables!Statuses(table) \cup {"none"}
    BY DEF Tables!Init
  <2>3. narrowed \in BOOLEAN
    BY DEF Tables!Init
  <2>4. QED
    BY <2>1, <2>2, <2>3 DEF Tables!Init
<1>4. QED
  BY <1>1, <1>2, <1>3, TablesConstants DEF TablesConstants, Tables!TypeOK

(* The list of transactions keeps its types.                               *)
LEMMA ListTypesStep ==
    /\ ListInv /\ Transactions!TypeOK /\ (Transactions!Next \/ UNCHANGED listVars)
    => Transactions!TypeOK'
<1> SUFFICES ASSUME ListInv, Transactions!TypeOK, Transactions!Next \/ UNCHANGED listVars
             PROVE  Transactions!TypeOK'
  OBVIOUS
<1>1. ListInv'
  BY ListStep
<1>2. Transactions!filter' \in Transactions!Filters /\ Transactions!ToSet(calls)' \subseteq Transactions!Filters
  BY <1>1 DEF ListInv, ListFilters, Transactions!filter, Transactions!ToSet
<1> DEFINE Rest == /\ customDays \in Custom \cup {Transactions!Untyped}
                   /\ shown \in Transactions!Filters \cup {Transactions!NoList, Transactions!Emptied}
                   /\ shown[3] # "fraction"
                   /\ listLoading \in BOOLEAN
                   /\ changes \in 0..MaxChanges
<1>3. Rest
  BY DEF Transactions!TypeOK
<1>4. Rest'
  <2>1. CASE UNCHANGED listVars
    BY <1>3, <2>1 DEF listVars
  <2>2. CASE /\ Transactions!Refetch
             /\ customDays' \in {customDays, Transactions!Untyped}
    <3>1. changes' \in 0..MaxChanges /\ shown' = shown
      BY <1>3, <2>2, RecordBounds DEF RecordBounds, Transactions!Refetch
    <3>2. listLoading' \in BOOLEAN
      BY <1>3, <2>2 DEF Transactions!Refetch
    <3>3. QED
      BY <1>3, <2>2, <3>1, <3>2
  <2>3. CASE \/ Transactions!ApplyPreset \/ Transactions!ApplyCustomDays \/ Transactions!ChangeType
             \/ Transactions!TypeAmount \/ Transactions!ToggleSort \/ Transactions!Reset
    BY <2>2, <2>3
    DEF Transactions!ApplyPreset, Transactions!ApplyCustomDays, Transactions!ChangeType,
        Transactions!TypeAmount, Transactions!ToggleSort, Transactions!Reset
  <2>4. CASE Transactions!TypeCustomDays
    <3>1. changes' \in 0..MaxChanges
      BY <1>3, <2>4, RecordBounds DEF RecordBounds, Transactions!TypeCustomDays
    <3>2. customDays' \in Custom /\ shown' = shown /\ listLoading' = listLoading
      BY <2>4 DEF Transactions!TypeCustomDays
    <3>3. QED
      BY <1>3, <3>1, <3>2
  <2>5. CASE Transactions!CallEnds
    <3>1. PICK i \in DOMAIN calls : \/ Transactions!Succeeds(i) \/ Transactions!QueryFails(i)
                                    \/ Transactions!Fails(i)
      BY <2>5 DEF Transactions!CallEnds
    <3>2. listLoading' = FALSE /\ UNCHANGED <<customDays, changes>>
      BY <3>1 DEF Transactions!Succeeds, Transactions!QueryFails, Transactions!Fails,
                  Transactions!Answered
    <3>3. \/ shown' = shown
          \/ shown' = calls[i] /\ Transactions!Accepted(calls[i])
          \/ shown' = Transactions!Emptied
      BY <3>1 DEF Transactions!Succeeds, Transactions!QueryFails, Transactions!Fails
    <3>4. calls[i] \in Transactions!Filters
      BY DEF ListInv, ListFilters
    <3>5. Transactions!Emptied[3] # "fraction"
      BY DEF Transactions!Emptied
    <3>6. /\ shown' \in Transactions!Filters \cup {Transactions!NoList, Transactions!Emptied}
          /\ shown'[3] # "fraction"
      BY <1>3, <3>3, <3>4, <3>5 DEF Transactions!Accepted
    <3>7. QED
      BY <1>3, <3>2, <3>6
  <2>6. QED
    BY <2>1, <2>3, <2>4, <2>5 DEF Transactions!Next
<1>5. QED
  BY <1>2, <1>4 DEF Transactions!TypeOK

(* At first there is no list yet.                                          *)
LEMMA ListTypesInit == Transactions!Init => Transactions!TypeOK
<1> SUFFICES ASSUME Transactions!Init PROVE Transactions!TypeOK
  OBVIOUS
<1>1. ListInv
  BY ListInit
<1>2. Transactions!filter \in Transactions!Filters /\ Transactions!ToSet(calls) \subseteq Transactions!Filters
  BY <1>1 DEF ListInv, ListFilters, Transactions!filter, Transactions!ToSet
<1>3. shown = Transactions!NoList /\ Transactions!NoList[3] # "fraction"
  BY DEF Transactions!Init, Transactions!NoList
<1>4. changes \in 0..MaxChanges
  BY RecordBounds DEF RecordBounds, Transactions!Init
<1>5. customDays \in Custom \cup {Transactions!Untyped} /\ listLoading \in BOOLEAN
  BY DEF Transactions!Init
<1>6. QED
  BY <1>2, <1>3, <1>4, <1>5 DEF Transactions!TypeOK

-----------------------------------------------------------------------------
(* What has been fetched of the ledger: nothing yet, or some of the        *)
(* transactions there are.                                                 *)
FetchedOf(r) == {f \in Timeframed : f.rows = {0} \/ f.rows \subseteq 1..r}
AuditTypesInv == Audit!TypeOK /\ auditFetches \in Seq(FetchedOf(records))
AuditFailTypesInv == AuditFail!TypeOK /\ auditFetches \in Seq(FetchedOf(records))

(* The transactions of a fetch are some of those there are.                *)
LEMMA FetchRead ==
    ASSUME NEW r \in Nat, NEW f \in FetchedOf(r), NEW new \in SUBSET (1..r)
    PROVE  [f EXCEPT !.rows = new] \in FetchedOf(r)
<1> DEFINE g == [f EXCEPT !.rows = new]
<1>1. new \in SUBSET Int
  OBVIOUS
<1>2. g \in Timeframed /\ g.rows = new
  BY <1>1 DEF FetchedOf, Timeframed
<1> HIDE DEF g
<1>3. g \in FetchedOf(r)
  BY <1>2 DEF FetchedOf
<1>4. QED
  BY <1>3 DEF g

(* More transactions: what has been fetched is still there.                *)
LEMMA FetchedStays ==
    ASSUME NEW r \in Nat, NEW s \in Seq(FetchedOf(r))
    PROVE  s \in Seq(FetchedOf(r + 1))
<1>1. FetchedOf(r) \subseteq FetchedOf(r + 1)
  <2>1. 1..r \subseteq 1..(r + 1)
    OBVIOUS
  <2>2. QED
    BY <2>1 DEF FetchedOf
<1>2. QED
  BY <1>1

(* At first the ledger is being fetched.                                   *)
LEMMA AuditTypesInit == Audit!Init => AuditTypesInv
<1> SUFFICES ASSUME Audit!Init PROVE AuditTypesInv
  OBVIOUS
<1> DEFINE first == [filter |-> Audit!Asked(selectedTimeframe, "none"), rows |-> {0}]
<1>1. auditFetches = <<first>>
  BY DEF Audit!Init, Audit!Unread, Audit!NoTx
<1>2. first \in FetchedOf(records)
  <2>1. first \in Timeframed /\ first.rows = {0}
    BY AuditConstants DEF AuditConstants, Audit!Init, Audit!Asked, Timeframed
  <2>2. QED
    BY <2>1 DEF FetchedOf
<1> HIDE DEF first
<1>3. auditFetches \in Seq(FetchedOf(records)) /\ Len(auditFetches) = 1 /\ auditFetches # <<>>
  BY <1>1, <1>2
<1>4. records \in 0..MaxRecords /\ records \in Nat
  BY RecordBounds DEF RecordBounds, Audit!Init
<1>5. made \in 0..AuditFetches /\ Len(auditFetches) <= made
  BY <1>3, RecordBounds DEF RecordBounds, Audit!Init
<1>6. transactions.rows = {}
  BY DEF Audit!Init
<1>7. timers \in 0..0 /\ copiedKey = FALSE
  BY RecordBounds DEF RecordBounds, Audit!Init
<1>8. /\ token \in BOOLEAN /\ polling \in BOOLEAN
      /\ selectedTimeframe \in Days /\ searchQuery \in AuditSearch
      /\ metrics \in {"none", "fetched", "invented"}
      /\ inspectTx = Audit!NoTx
  BY AuditConstants DEF AuditConstants, Audit!Init
<1>9. Audit!TypeOK
  BY <1>3, <1>4, <1>5, <1>6, <1>7, <1>8 DEF Audit!TypeOK
<1>10. QED
  BY <1>3, <1>9 DEF AuditTypesInv

(* A fetch is under way, or without a token none begins.                   *)
LEMMA AuditTypesFetched ==
    /\ AuditTypesInv /\ Audit!FetchBankTransactions
    /\ selectedTimeframe' \in Days /\ searchQuery' \in AuditSearch
    => AuditTypesInv'
<1> SUFFICES ASSUME AuditTypesInv, Audit!FetchBankTransactions,
                    selectedTimeframe' \in Days, searchQuery' \in AuditSearch
             PROVE  AuditTypesInv'
  OBVIOUS
<1>1. /\ UNCHANGED <<records, token, transactions>>
      /\ UNCHANGED <<metrics, polling>> /\ UNCHANGED <<inspectTx, copiedKey, timers>>
  BY DEF Audit!FetchBankTransactions, Audit!figures, Audit!inspector
<1>2. /\ auditFetches \in Seq(FetchedOf(records)) /\ Len(auditFetches) <= made
      /\ made \in 0..AuditFetches /\ searchQuery \in AuditSearch
  BY DEF AuditTypesInv, Audit!TypeOK
<1>3. /\ auditFetches' \in Seq(FetchedOf(records)) /\ Len(auditFetches') <= made'
      /\ made' \in 0..AuditFetches
      /\ (auditTxLoading' => auditFetches' # <<>>)
  <2>1. CASE token
    <3> DEFINE t == [filter |-> Audit!Asked(selectedTimeframe', searchQuery), rows |-> {0}]
    <3>1. /\ auditFetches' = Append(auditFetches, t) /\ made' = made + 1 /\ made < AuditFetches
      BY <2>1 DEF Audit!FetchBankTransactions, Audit!Unread, Audit!NoTx
    <3>2. t \in FetchedOf(records)
      <4>1. t \in Timeframed /\ t.rows = {0}
        BY <1>2, AuditConstants DEF AuditConstants, Audit!Asked, Timeframed
      <4>2. QED
        BY <4>1 DEF FetchedOf
    <3> HIDE DEF t
    <3>3. /\ auditFetches' \in Seq(FetchedOf(records)) /\ Len(auditFetches') = Len(auditFetches) + 1
      BY <1>2, <3>1, <3>2
    <3>4. auditFetches' # <<>>
      BY <1>2, <3>3
    <3>5. made' \in 0..AuditFetches /\ Len(auditFetches') <= made'
      BY <1>2, <3>1, <3>3, RecordBounds DEF RecordBounds
    <3>6. QED
      BY <3>3, <3>4, <3>5
  <2>2. CASE ~token
    BY <1>2, <2>2 DEF Audit!FetchBankTransactions
  <2>3. QED
    BY <2>1, <2>2
<1>4. Audit!TypeOK'
  BY <1>1, <1>3 DEF AuditTypesInv, Audit!TypeOK
<1>5. QED
  BY <1>1, <1>3, <1>4 DEF AuditTypesInv

(* The bank reads its newest transactions.                                 *)
LEMMA AuditTypesRead ==
    ASSUME AuditTypesInv, NEW i \in DOMAIN auditFetches, Audit!GetAllTransactions(i)
    PROVE  AuditTypesInv'
<1>1. /\ auditFetches \in Seq(FetchedOf(records)) /\ records \in Nat
      /\ Len(auditFetches) <= made /\ auditTxLoading => auditFetches # <<>>
  BY RecordBounds DEF RecordBounds, AuditTypesInv, Audit!TypeOK
<1> DEFINE new == Audit!Newest(records)
           f == [auditFetches[i] EXCEPT !.rows = new]
<1>2. auditFetches' = [auditFetches EXCEPT ![i] = f]
  BY DEF Audit!GetAllTransactions
<1>3. auditFetches' \in Seq(FetchedOf(records)) /\ Len(auditFetches') = Len(auditFetches)
  <2>1. new \in SUBSET (1..records)
    BY DEF Audit!Newest
  <2>2. auditFetches[i] \in FetchedOf(records)
    BY <1>1
  <2> HIDE DEF new
  <2>3. f \in FetchedOf(records)
    BY <1>1, <2>1, <2>2, FetchRead
  <2> HIDE DEF f
  <2>4. QED
    BY <1>1, <1>2, <2>3
<1>4. auditFetches' # <<>>
  BY <1>1, <1>3
<1>5. /\ UNCHANGED <<records, token, selectedTimeframe, searchQuery, made, transactions, auditTxLoading>>
      /\ UNCHANGED <<metrics, polling>> /\ UNCHANGED <<inspectTx, copiedKey, timers>>
  BY DEF Audit!GetAllTransactions, Audit!figures, Audit!inspector
<1>6. Audit!TypeOK'
  BY <1>1, <1>3, <1>4, <1>5 DEF AuditTypesInv, Audit!TypeOK
<1>7. QED
  BY <1>3, <1>5, <1>6 DEF AuditTypesInv

(* An answer comes, and its list is taken, or it has failed.               *)
LEMMA AuditTypesAnswered ==
    ASSUME AuditTypesInv, NEW i \in DOMAIN auditFetches, Audit!Succeeds(i) \/ Audit!Fails(i)
    PROVE  AuditTypesInv'
<1>1. /\ auditFetches \in Seq(FetchedOf(records)) /\ records \in Nat
      /\ Len(auditFetches) <= made /\ made \in Nat
      /\ transactions.rows \subseteq 1..records
  BY RecordBounds DEF RecordBounds, AuditTypesInv, Audit!TypeOK
<1>2. /\ UNCHANGED <<records, token, selectedTimeframe, searchQuery, made>>
      /\ UNCHANGED <<metrics, polling>> /\ UNCHANGED <<inspectTx, copiedKey, timers>>
      /\ auditTxLoading' = FALSE
  BY DEF Audit!Succeeds, Audit!Fails, Audit!Answered, Audit!figures, Audit!inspector
<1>3. auditFetches' = RemoveAt(auditFetches, i)
  BY DEF Audit!Succeeds, Audit!Fails, Audit!Answered, Audit!RemoveAt, RemoveAt
<1>4. auditFetches' \in Seq(FetchedOf(records)) /\ Len(auditFetches') = Len(auditFetches) - 1
  BY <1>1, <1>3, WithoutOne
<1>5. Len(auditFetches') <= made
  BY <1>1, <1>4
<1>6. transactions'.rows \subseteq 1..records
  <2>1. CASE transactions' = auditFetches[i] /\ auditFetches[i].rows # {0}
    <3>1. auditFetches[i] \in FetchedOf(records)
      BY <1>1
    <3>2. QED
      BY <2>1, <3>1 DEF FetchedOf
  <2>2. CASE transactions' = transactions
    BY <1>1, <2>2
  <2>3. QED
    BY <2>1, <2>2 DEF Audit!Succeeds, Audit!Fails, Audit!Unread, Audit!NoTx
<1>7. Audit!TypeOK'
  BY <1>1, <1>2, <1>5, <1>6 DEF AuditTypesInv, Audit!TypeOK
<1>8. QED
  BY <1>2, <1>4, <1>7 DEF AuditTypesInv

(* Every step of the ledger keeps the types.                               *)
LEMMA AuditTypesStep ==
    AuditTypesInv /\ (Audit!Next \/ UNCHANGED auditVars) => AuditTypesInv'
<1> SUFFICES ASSUME AuditTypesInv, Audit!Next \/ UNCHANGED auditVars PROVE AuditTypesInv'
  OBVIOUS
<1>1. Audit!TypeOK /\ auditFetches \in Seq(FetchedOf(records)) /\ records \in Nat
  BY RecordBounds DEF RecordBounds, AuditTypesInv, Audit!TypeOK
<1>2. CASE UNCHANGED auditVars
  BY <1>1, <1>2 DEF auditVars, AuditTypesInv, Audit!TypeOK
<1>3. CASE Audit!SelectTimeframe \/ Audit!HandleSearchSubmit
  <2>1. selectedTimeframe' \in Days /\ searchQuery' \in AuditSearch /\ Audit!FetchBankTransactions
    BY <1>1, <1>3 DEF Audit!SelectTimeframe, Audit!HandleSearchSubmit, Audit!TypeOK
  <2>2. QED
    BY <2>1, AuditTypesFetched
<1>4. CASE Audit!TypeSearch
  <2>1. /\ UNCHANGED <<records, token, selectedTimeframe, auditFetches, made, transactions, auditTxLoading>>
        /\ UNCHANGED <<metrics, polling>> /\ UNCHANGED <<inspectTx, copiedKey, timers>>
        /\ searchQuery' \in AuditSearch
    BY <1>4 DEF Audit!TypeSearch, Audit!figures, Audit!inspector
  <2>2. QED
    BY <1>1, <2>1 DEF AuditTypesInv, Audit!TypeOK
<1>5. CASE \E i \in DOMAIN auditFetches : \/ Audit!GetAllTransactions(i)
                                          \/ Audit!Succeeds(i) \/ Audit!Fails(i)
  BY <1>5, AuditTypesRead, AuditTypesAnswered
<1>6. CASE Audit!Poll \/ Audit!LoadBankingMetrics
  <2>1. /\ UNCHANGED <<records, token>> /\ UNCHANGED <<inspectTx, copiedKey, timers>>
        /\ UNCHANGED <<selectedTimeframe, searchQuery, auditFetches, made, transactions, auditTxLoading>>
    BY <1>6 DEF Audit!Poll, Audit!LoadBankingMetrics, Audit!listed, Audit!inspector
  <2>2. polling' \in BOOLEAN /\ metrics' \in {"none", "fetched", "invented"}
    BY <1>1, <1>6 DEF Audit!Poll, Audit!LoadBankingMetrics, Audit!TypeOK
  <2>3. QED
    BY <1>1, <2>1, <2>2 DEF AuditTypesInv, Audit!TypeOK
<1>7. CASE Audit!Inspect \/ Audit!Close
  <2>1. /\ UNCHANGED <<records, token, copiedKey, timers>> /\ UNCHANGED <<metrics, polling>>
        /\ UNCHANGED <<selectedTimeframe, searchQuery, auditFetches, made, transactions, auditTxLoading>>
    BY <1>7 DEF Audit!Inspect, Audit!Close, Audit!listed, Audit!figures
  <2>2. inspectTx' \in {Audit!NoTx, Audit!Invented} \cup 1..records
    BY <1>1, <1>7 DEF Audit!Inspect, Audit!Close, Audit!TypeOK
  <2>3. QED
    BY <1>1, <2>1, <2>2 DEF AuditTypesInv, Audit!TypeOK
<1>8. CASE Audit!HandleCopy \/ Audit!CopyTimer
  <2>1. /\ UNCHANGED <<records, token, inspectTx>> /\ UNCHANGED <<metrics, polling>>
        /\ UNCHANGED <<selectedTimeframe, searchQuery, auditFetches, made, transactions, auditTxLoading>>
    BY <1>8 DEF Audit!HandleCopy, Audit!CopyTimer, Audit!listed, Audit!figures
  <2>2. timers' \in 0..0 /\ copiedKey' \in BOOLEAN /\ (copiedKey' => timers' > 0)
    <3>1. timers \in 0..0 /\ copiedKey \in BOOLEAN /\ (copiedKey => timers > 0)
      BY <1>1 DEF Audit!TypeOK
    <3>2. CASE timers < 0 /\ copiedKey' = TRUE /\ timers' = timers + 1
      BY <3>1, <3>2, RecordBounds DEF RecordBounds
    <3>3. CASE timers > 0 /\ timers' = timers - 1 /\ copiedKey' = FALSE
      <4>1. timers' \in 0..0
        BY <3>1, <3>3, RecordBounds DEF RecordBounds
      <4>2. QED
        BY <3>3, <4>1
    <3>4. QED
      BY <1>8, <3>2, <3>3 DEF Audit!HandleCopy, Audit!CopyTimer
  <2>3. QED
    BY <1>1, <2>1, <2>2 DEF AuditTypesInv, Audit!TypeOK
<1>9. CASE Audit!Booked
  <2>1. /\ UNCHANGED <<token, inspectTx, copiedKey, timers>> /\ UNCHANGED <<metrics, polling>>
        /\ UNCHANGED <<selectedTimeframe, searchQuery, auditFetches, made, transactions, auditTxLoading>>
        /\ records' = records + 1 /\ records < MaxRecords
    BY <1>9 DEF Audit!Booked, Audit!listed, Audit!figures, Audit!inspector
  <2>2. records' \in 0..MaxRecords /\ 1..records \subseteq 1..records'
    BY <1>1, <2>1, RecordBounds DEF RecordBounds
  <2>3. auditFetches' \in Seq(FetchedOf(records'))
    BY <1>1, <2>1, FetchedStays
  <2>4. Audit!TypeOK'
    BY <1>1, <2>1, <2>2 DEF Audit!TypeOK
  <2>5. QED
    BY <2>3, <2>4 DEF AuditTypesInv
<1>10. CASE Audit!LogoutElsewhere
  <2>1. /\ UNCHANGED <<records, inspectTx, copiedKey, timers>> /\ UNCHANGED <<metrics, polling>>
        /\ UNCHANGED <<selectedTimeframe, searchQuery, auditFetches, made, transactions, auditTxLoading>>
        /\ token' = FALSE
    BY <1>10 DEF Audit!LogoutElsewhere, Audit!listed, Audit!figures, Audit!inspector
  <2>2. QED
    BY <1>1, <2>1 DEF AuditTypesInv, Audit!TypeOK
<1>11. QED
  BY <1>2, <1>3, <1>4, <1>5, <1>6, <1>7, <1>8, <1>9, <1>10 DEF Audit!Next

(* The same when fetches fail and answers overtake each other.             *)
LEMMA AuditFailTypesInit == AuditFail!Init => AuditFailTypesInv
<1> SUFFICES ASSUME AuditFail!Init PROVE AuditFailTypesInv
  OBVIOUS
<1> DEFINE first == [filter |-> AuditFail!Asked(selectedTimeframe, "none"), rows |-> {0}]
<1>1. auditFetches = <<first>>
  BY DEF AuditFail!Init, AuditFail!Unread, AuditFail!NoTx
<1>2. first \in FetchedOf(records)
  <2>1. first \in Timeframed /\ first.rows = {0}
    BY AuditConstants DEF AuditConstants, AuditFail!Init, AuditFail!Asked, Timeframed
  <2>2. QED
    BY <2>1 DEF FetchedOf
<1> HIDE DEF first
<1>3. auditFetches \in Seq(FetchedOf(records)) /\ Len(auditFetches) = 1 /\ auditFetches # <<>>
  BY <1>1, <1>2
<1>4. records \in 0..0 /\ records \in Nat
  BY RecordBounds DEF RecordBounds, AuditFail!Init
<1>5. made \in 0..AuditFetches /\ Len(auditFetches) <= made
  BY <1>3, RecordBounds DEF RecordBounds, AuditFail!Init
<1>6. transactions.rows = {}
  BY DEF AuditFail!Init
<1>7. timers \in 0..FailCopies /\ copiedKey = FALSE
  BY RecordBounds DEF RecordBounds, AuditFail!Init
<1>8. /\ token \in BOOLEAN /\ polling \in BOOLEAN
      /\ selectedTimeframe \in Days /\ searchQuery \in {"none"}
      /\ metrics \in {"none", "fetched", "invented"}
      /\ inspectTx = AuditFail!NoTx
  BY AuditConstants DEF AuditConstants, AuditFail!Init
<1>9. AuditFail!TypeOK
  BY <1>3, <1>4, <1>5, <1>6, <1>7, <1>8 DEF AuditFail!TypeOK
<1>10. QED
  BY <1>3, <1>9 DEF AuditFailTypesInv

(* A fetch is under way, or without a token none begins.                   *)
LEMMA AuditFailTypesFetched ==
    /\ AuditFailTypesInv /\ AuditFail!FetchBankTransactions
    /\ selectedTimeframe' \in Days /\ searchQuery' \in {"none"}
    => AuditFailTypesInv'
<1> SUFFICES ASSUME AuditFailTypesInv, AuditFail!FetchBankTransactions,
                    selectedTimeframe' \in Days, searchQuery' \in {"none"}
             PROVE  AuditFailTypesInv'
  OBVIOUS
<1>1. /\ UNCHANGED <<records, token, transactions>>
      /\ UNCHANGED <<metrics, polling>> /\ UNCHANGED <<inspectTx, copiedKey, timers>>
  BY DEF AuditFail!FetchBankTransactions, AuditFail!figures, AuditFail!inspector
<1>2. /\ auditFetches \in Seq(FetchedOf(records)) /\ Len(auditFetches) <= made
      /\ made \in 0..AuditFetches /\ searchQuery \in {"none"}
  BY DEF AuditFailTypesInv, AuditFail!TypeOK
<1>3. /\ auditFetches' \in Seq(FetchedOf(records)) /\ Len(auditFetches') <= made'
      /\ made' \in 0..AuditFetches
      /\ (auditTxLoading' => auditFetches' # <<>>)
  <2>1. CASE token
    <3> DEFINE t == [filter |-> AuditFail!Asked(selectedTimeframe', searchQuery), rows |-> {0}]
    <3>1. /\ auditFetches' = Append(auditFetches, t) /\ made' = made + 1 /\ made < AuditFetches
      BY <2>1 DEF AuditFail!FetchBankTransactions, AuditFail!Unread, AuditFail!NoTx
    <3>2. t \in FetchedOf(records)
      <4>1. t \in Timeframed /\ t.rows = {0}
        BY <1>2, AuditConstants DEF AuditConstants, AuditFail!Asked, Timeframed
      <4>2. QED
        BY <4>1 DEF FetchedOf
    <3> HIDE DEF t
    <3>3. /\ auditFetches' \in Seq(FetchedOf(records)) /\ Len(auditFetches') = Len(auditFetches) + 1
      BY <1>2, <3>1, <3>2
    <3>4. auditFetches' # <<>>
      BY <1>2, <3>3
    <3>5. made' \in 0..AuditFetches /\ Len(auditFetches') <= made'
      BY <1>2, <3>1, <3>3, RecordBounds DEF RecordBounds
    <3>6. QED
      BY <3>3, <3>4, <3>5
  <2>2. CASE ~token
    BY <1>2, <2>2 DEF AuditFail!FetchBankTransactions
  <2>3. QED
    BY <2>1, <2>2
<1>4. AuditFail!TypeOK'
  BY <1>1, <1>3 DEF AuditFailTypesInv, AuditFail!TypeOK
<1>5. QED
  BY <1>1, <1>3, <1>4 DEF AuditFailTypesInv

(* The bank reads its newest transactions.                                 *)
LEMMA AuditFailTypesRead ==
    ASSUME AuditFailTypesInv, NEW i \in DOMAIN auditFetches, AuditFail!GetAllTransactions(i)
    PROVE  AuditFailTypesInv'
<1>1. /\ auditFetches \in Seq(FetchedOf(records)) /\ records \in Nat
      /\ Len(auditFetches) <= made /\ auditTxLoading => auditFetches # <<>>
  BY RecordBounds DEF RecordBounds, AuditFailTypesInv, AuditFail!TypeOK
<1> DEFINE new == AuditFail!Newest(records)
           f == [auditFetches[i] EXCEPT !.rows = new]
<1>2. auditFetches' = [auditFetches EXCEPT ![i] = f]
  BY DEF AuditFail!GetAllTransactions
<1>3. auditFetches' \in Seq(FetchedOf(records)) /\ Len(auditFetches') = Len(auditFetches)
  <2>1. new \in SUBSET (1..records)
    BY DEF AuditFail!Newest
  <2>2. auditFetches[i] \in FetchedOf(records)
    BY <1>1
  <2> HIDE DEF new
  <2>3. f \in FetchedOf(records)
    BY <1>1, <2>1, <2>2, FetchRead
  <2> HIDE DEF f
  <2>4. QED
    BY <1>1, <1>2, <2>3
<1>4. auditFetches' # <<>>
  BY <1>1, <1>3
<1>5. /\ UNCHANGED <<records, token, selectedTimeframe, searchQuery, made, transactions, auditTxLoading>>
      /\ UNCHANGED <<metrics, polling>> /\ UNCHANGED <<inspectTx, copiedKey, timers>>
  BY DEF AuditFail!GetAllTransactions, AuditFail!figures, AuditFail!inspector
<1>6. AuditFail!TypeOK'
  BY <1>1, <1>3, <1>4, <1>5 DEF AuditFailTypesInv, AuditFail!TypeOK
<1>7. QED
  BY <1>3, <1>5, <1>6 DEF AuditFailTypesInv

(* An answer comes, and its list is taken, or it has failed.               *)
LEMMA AuditFailTypesAnswered ==
    ASSUME AuditFailTypesInv, NEW i \in DOMAIN auditFetches, AuditFail!Succeeds(i) \/ AuditFail!Fails(i)
    PROVE  AuditFailTypesInv'
<1>1. /\ auditFetches \in Seq(FetchedOf(records)) /\ records \in Nat
      /\ Len(auditFetches) <= made /\ made \in Nat
      /\ transactions.rows \subseteq 1..records
  BY RecordBounds DEF RecordBounds, AuditFailTypesInv, AuditFail!TypeOK
<1>2. /\ UNCHANGED <<records, token, selectedTimeframe, searchQuery, made>>
      /\ UNCHANGED <<metrics, polling>> /\ UNCHANGED <<inspectTx, copiedKey, timers>>
      /\ auditTxLoading' = FALSE
  BY DEF AuditFail!Succeeds, AuditFail!Fails, AuditFail!Answered, AuditFail!figures, AuditFail!inspector
<1>3. auditFetches' = RemoveAt(auditFetches, i)
  BY DEF AuditFail!Succeeds, AuditFail!Fails, AuditFail!Answered, AuditFail!RemoveAt, RemoveAt
<1>4. auditFetches' \in Seq(FetchedOf(records)) /\ Len(auditFetches') = Len(auditFetches) - 1
  BY <1>1, <1>3, WithoutOne
<1>5. Len(auditFetches') <= made
  BY <1>1, <1>4
<1>6. transactions'.rows \subseteq 1..records
  <2>1. CASE transactions' = auditFetches[i] /\ auditFetches[i].rows # {0}
    <3>1. auditFetches[i] \in FetchedOf(records)
      BY <1>1
    <3>2. QED
      BY <2>1, <3>1 DEF FetchedOf
  <2>2. CASE transactions' = transactions
    BY <1>1, <2>2
  <2>3. QED
    BY <2>1, <2>2 DEF AuditFail!Succeeds, AuditFail!Fails, AuditFail!Unread, AuditFail!NoTx
<1>7. AuditFail!TypeOK'
  BY <1>1, <1>2, <1>5, <1>6 DEF AuditFailTypesInv, AuditFail!TypeOK
<1>8. QED
  BY <1>2, <1>4, <1>7 DEF AuditFailTypesInv

(* Every step of the failing ledger keeps the types.                       *)
LEMMA AuditFailTypesStep ==
    AuditFailTypesInv /\ (AuditFail!Next \/ UNCHANGED auditVars) => AuditFailTypesInv'
<1> SUFFICES ASSUME AuditFailTypesInv, AuditFail!Next \/ UNCHANGED auditVars PROVE AuditFailTypesInv'
  OBVIOUS
<1>1. AuditFail!TypeOK /\ auditFetches \in Seq(FetchedOf(records)) /\ records \in Nat
  BY RecordBounds DEF RecordBounds, AuditFailTypesInv, AuditFail!TypeOK
<1>2. CASE UNCHANGED auditVars
  BY <1>1, <1>2 DEF auditVars, AuditFailTypesInv, AuditFail!TypeOK
<1>3. CASE AuditFail!SelectTimeframe \/ AuditFail!HandleSearchSubmit
  <2>1. selectedTimeframe' \in Days /\ searchQuery' \in {"none"} /\ AuditFail!FetchBankTransactions
    BY <1>1, <1>3 DEF AuditFail!SelectTimeframe, AuditFail!HandleSearchSubmit, AuditFail!TypeOK
  <2>2. QED
    BY <2>1, AuditFailTypesFetched
<1>4. CASE AuditFail!TypeSearch
  <2>1. /\ UNCHANGED <<records, token, selectedTimeframe, auditFetches, made, transactions, auditTxLoading>>
        /\ UNCHANGED <<metrics, polling>> /\ UNCHANGED <<inspectTx, copiedKey, timers>>
        /\ searchQuery' \in {"none"}
    BY <1>4 DEF AuditFail!TypeSearch, AuditFail!figures, AuditFail!inspector
  <2>2. QED
    BY <1>1, <2>1 DEF AuditFailTypesInv, AuditFail!TypeOK
<1>5. CASE \E i \in DOMAIN auditFetches : \/ AuditFail!GetAllTransactions(i)
                                          \/ AuditFail!Succeeds(i) \/ AuditFail!Fails(i)
  BY <1>5, AuditFailTypesRead, AuditFailTypesAnswered
<1>6. CASE AuditFail!Poll \/ AuditFail!LoadBankingMetrics
  <2>1. /\ UNCHANGED <<records, token>> /\ UNCHANGED <<inspectTx, copiedKey, timers>>
        /\ UNCHANGED <<selectedTimeframe, searchQuery, auditFetches, made, transactions, auditTxLoading>>
    BY <1>6 DEF AuditFail!Poll, AuditFail!LoadBankingMetrics, AuditFail!listed, AuditFail!inspector
  <2>2. polling' \in BOOLEAN /\ metrics' \in {"none", "fetched", "invented"}
    BY <1>1, <1>6 DEF AuditFail!Poll, AuditFail!LoadBankingMetrics, AuditFail!TypeOK
  <2>3. QED
    BY <1>1, <2>1, <2>2 DEF AuditFailTypesInv, AuditFail!TypeOK
<1>7. CASE AuditFail!Inspect \/ AuditFail!Close
  <2>1. /\ UNCHANGED <<records, token, copiedKey, timers>> /\ UNCHANGED <<metrics, polling>>
        /\ UNCHANGED <<selectedTimeframe, searchQuery, auditFetches, made, transactions, auditTxLoading>>
    BY <1>7 DEF AuditFail!Inspect, AuditFail!Close, AuditFail!listed, AuditFail!figures
  <2>2. inspectTx' \in {AuditFail!NoTx, AuditFail!Invented} \cup 1..records
    BY <1>1, <1>7 DEF AuditFail!Inspect, AuditFail!Close, AuditFail!TypeOK
  <2>3. QED
    BY <1>1, <2>1, <2>2 DEF AuditFailTypesInv, AuditFail!TypeOK
<1>8. CASE AuditFail!HandleCopy \/ AuditFail!CopyTimer
  <2>1. /\ UNCHANGED <<records, token, inspectTx>> /\ UNCHANGED <<metrics, polling>>
        /\ UNCHANGED <<selectedTimeframe, searchQuery, auditFetches, made, transactions, auditTxLoading>>
    BY <1>8 DEF AuditFail!HandleCopy, AuditFail!CopyTimer, AuditFail!listed, AuditFail!figures
  <2>2. timers' \in 0..FailCopies /\ copiedKey' \in BOOLEAN /\ (copiedKey' => timers' > 0)
    <3>1. timers \in 0..FailCopies /\ copiedKey \in BOOLEAN /\ (copiedKey => timers > 0)
      BY <1>1 DEF AuditFail!TypeOK
    <3>2. CASE timers < FailCopies /\ copiedKey' = TRUE /\ timers' = timers + 1
      BY <3>1, <3>2, RecordBounds DEF RecordBounds
    <3>3. CASE timers > 0 /\ timers' = timers - 1 /\ copiedKey' = FALSE
      <4>1. timers' \in 0..FailCopies
        BY <3>1, <3>3, RecordBounds DEF RecordBounds
      <4>2. QED
        BY <3>3, <4>1
    <3>4. QED
      BY <1>8, <3>2, <3>3 DEF AuditFail!HandleCopy, AuditFail!CopyTimer
  <2>3. QED
    BY <1>1, <2>1, <2>2 DEF AuditFailTypesInv, AuditFail!TypeOK
<1>9. CASE AuditFail!Booked
  <2>1. /\ UNCHANGED <<token, inspectTx, copiedKey, timers>> /\ UNCHANGED <<metrics, polling>>
        /\ UNCHANGED <<selectedTimeframe, searchQuery, auditFetches, made, transactions, auditTxLoading>>
        /\ records' = records + 1 /\ records < 0
    BY <1>9 DEF AuditFail!Booked, AuditFail!listed, AuditFail!figures, AuditFail!inspector
  <2>2. records' \in 0..0 /\ 1..records \subseteq 1..records'
    BY <1>1, <2>1, RecordBounds DEF RecordBounds
  <2>3. auditFetches' \in Seq(FetchedOf(records'))
    BY <1>1, <2>1, FetchedStays
  <2>4. AuditFail!TypeOK'
    BY <1>1, <2>1, <2>2 DEF AuditFail!TypeOK
  <2>5. QED
    BY <2>3, <2>4 DEF AuditFailTypesInv
<1>10. CASE AuditFail!LogoutElsewhere
  <2>1. /\ UNCHANGED <<records, inspectTx, copiedKey, timers>> /\ UNCHANGED <<metrics, polling>>
        /\ UNCHANGED <<selectedTimeframe, searchQuery, auditFetches, made, transactions, auditTxLoading>>
        /\ token' = FALSE
    BY <1>10 DEF AuditFail!LogoutElsewhere, AuditFail!listed, AuditFail!figures, AuditFail!inspector
  <2>2. QED
    BY <1>1, <2>1 DEF AuditFailTypesInv, AuditFail!TypeOK
<1>11. QED
  BY <1>2, <1>3, <1>4, <1>5, <1>6, <1>7, <1>8, <1>9, <1>10 DEF AuditFail!Next

-----------------------------------------------------------------------------
(* The rows of a page: a few positions in the log.                         *)
Places(n) == 1..n
LogPage(n) == {s \in Seq(Places(n)) : Len(s) <= LogLimit}
PageCall(n) == [query : Activity!Query, read : BOOLEAN, rows : LogPage(n)]

LogTypesInv ==
    /\ stored \in Seq(LogCategory) /\ Len(stored) <= MaxEvents
    /\ category \in {"all"} \cup LogCategory /\ order \in {"asc", "desc"}
    /\ actions \in 0..MaxActions
    /\ \E k \in 0..actions : offset = LogLimit * k
    /\ logFetches \in Seq(PageCall(Len(stored))) /\ Len(logFetches) <= MaxFetches + 1
    /\ events \in LogPage(Len(stored))
    /\ total \in 0..MaxEvents /\ logLoading \in BOOLEAN
    /\ socket \in {"connecting", "refused"}
    /\ shownFor \in Activity!Query

(* A query that can be asked.                                              *)
LEMMA QueryAsked ==
    ASSUME NEW c \in {"all"} \cup LogCategory, NEW d \in {"asc", "desc"},
           NEW n \in 0..MaxActions, NEW k \in 0..n
    PROVE  [category |-> c, order |-> d, offset |-> LogLimit * k] \in Activity!Query
<1> DEFINE O == {LogLimit * i : i \in 0..MaxActions}
<1>1. k \in 0..MaxActions
  BY RecordBounds DEF RecordBounds
<1>2. LogLimit * k \in O
  BY <1>1
<1> HIDE DEF O
<1>3. [category |-> c, order |-> d, offset |-> LogLimit * k] \in
          [category : {"all"} \cup LogCategory, order : {"asc", "desc"}, offset : O]
  BY <1>2
<1>4. QED
  BY <1>3 DEF Activity!Query, Activity!All, O

(* Such a query asks from the first event on, or from a later one.         *)
LEMMA QueryKnown == \A q \in Activity!Query : q \in LogQuery
<1> DEFINE O == {LogLimit * i : i \in 0..MaxActions}
<1>1. O \subseteq Nat
  BY ActivityConstants, RecordBounds DEF ActivityConstants, RecordBounds
<1> HIDE DEF O
<1>2. \A q \in [category : {"all"} \cup LogCategory, order : {"asc", "desc"}, offset : O] :
          q \in LogQuery
  BY <1>1 DEF LogQuery
<1>3. QED
  BY <1>2 DEF Activity!Query, Activity!All, O

(* The query as it is, and the same from the start.                        *)
LEMMA CurrentAsked ==
    LogTypesInv => /\ Activity!Current \in Activity!Query
                   /\ [category |-> category, order |-> order, offset |-> 0] \in Activity!Query
<1> SUFFICES ASSUME LogTypesInv
             PROVE  /\ Activity!Current \in Activity!Query
                    /\ [category |-> category, order |-> order, offset |-> 0] \in Activity!Query
  OBVIOUS
<1>1. PICK k \in 0..actions : offset = LogLimit * k
  BY DEF LogTypesInv
<1>2. category \in {"all"} \cup LogCategory /\ order \in {"asc", "desc"} /\ actions \in 0..MaxActions
  BY DEF LogTypesInv
<1>3. [category |-> category, order |-> order, offset |-> LogLimit * k] \in Activity!Query
  BY <1>1, <1>2, QueryAsked
<1>4. 0 \in 0..actions /\ LogLimit * 0 = 0
  BY <1>2, ActivityConstants DEF ActivityConstants
<1>5. [category |-> category, order |-> order, offset |-> LogLimit * 0] \in Activity!Query
  BY <1>2, <1>4, QueryAsked
<1>6. QED
  BY <1>1, <1>3, <1>4, <1>5 DEF Activity!Current

(* The query finds positions in the log, no more than it has.              *)
LEMMA PlacesFound ==
    ASSUME stored \in Seq(LogCategory), NEW q \in LogQuery
    PROVE  /\ Activity!Matching(q) \in Seq(Places(Len(stored)))
           /\ Len(Activity!Matching(q)) <= Len(stored)
           /\ Len(Activity!Matching(q)) \in Nat
<1> DEFINE n == Len(stored)
           P == Places(n)
           S == {i \in DOMAIN stored : q.category \in {"all", stored[i]}}
           found == Activity!Ascending(S)
<1>1. n \in Nat /\ DOMAIN stored = P
  BY DEF Places
<1>2. S \in SUBSET P /\ S = Of(stored, q.category)
  BY <1>1 DEF Of
<1>3. S \in SUBSET Nat /\ IsFiniteSet(S) /\ Cardinality(S) = Held(stored, q.category)
  BY <1>2, HeldIsNumber DEF Held
<1>4. Activity!Matching(q) = IF q.order = "asc" THEN found ELSE Activity!Reverse(found)
  BY DEF Activity!Matching, Activity!All
<1>5. IsFiniteSet(P) /\ Cardinality(P) = n
  BY <1>1, UpTo, CountTo DEF Places
<1> HIDE DEF S, P, n
<1>6. Cardinality(S) <= n /\ Cardinality(S) \in Nat
  BY <1>2, <1>3, <1>5, FS_Subset, FS_CardinalityType
<1>7. found = Ascending(S)
  BY DEF Activity!Ascending, Ascending, Activity!Cardinality, Cardinality,
         Activity!IsFiniteSet, IsFiniteSet
<1>8. found \in [1..Cardinality(S) -> S] /\ Len(found) = Cardinality(S)
  BY <1>3, <1>7, InOrder
<1> HIDE DEF found
<1>9. found \in Seq(P)
  <2>1. found \in [1..Cardinality(S) -> P]
    BY <1>2, <1>8
  <2>2. QED
    BY <1>6, <2>1
<1>10. Activity!Reverse(found) \in Seq(P) /\ Len(Activity!Reverse(found)) = Len(found)
  <2>1. Activity!Reverse(found) = [i \in 1..Len(found) |-> found[Len(found) - i + 1]]
    BY DEF Activity!Reverse
  <2>2. ASSUME NEW i \in 1..Len(found) PROVE found[Len(found) - i + 1] \in P
    BY <1>9
  <2>3. Activity!Reverse(found) \in [1..Len(found) -> P] /\ Len(found) \in Nat
    BY <1>9, <2>1, <2>2
  <2>4. QED
    BY <2>3
<1>11. Activity!Matching(q) \in Seq(P) /\ Len(Activity!Matching(q)) <= n /\ Len(Activity!Matching(q)) \in Nat
  BY <1>4, <1>6, <1>8, <1>9, <1>10
<1>12. QED
  BY <1>11 DEF P, n

(* A page has no more rows than its limit.                                 *)
LEMMA PageRead ==
    ASSUME stored \in Seq(LogCategory), NEW q \in LogQuery
    PROVE  Activity!Rows(q) \in LogPage(Len(stored))
<1> DEFINE found == Activity!Matching(q)
           n == Len(stored)
           P == Places(n)
           h == Len(found)
           m == Activity!Min({q.offset + LogLimit, h})
           part == SubSeq(found, q.offset + 1, m)
<1>1. found \in Seq(P) /\ h \in Nat
  BY PlacesFound
<1>2. q.offset \in Nat /\ LogLimit \in Nat \ {0}
  BY ActivityConstants DEF LogQuery, ActivityConstants
<1>3. Activity!Rows(q) = part
  BY DEF Activity!Rows
<1> HIDE DEF P
<1>4. m = IF q.offset + LogLimit <= h THEN q.offset + LogLimit ELSE h
  <2>1. q.offset + LogLimit \in Int /\ h \in Int
    BY <1>1, <1>2
  <2>2. m = Tables!Min({q.offset + LogLimit, h})
    BY DEF Activity!Min, Tables!Min
  <2> HIDE DEF m, h
  <2>3. QED
    BY <2>1, <2>2, SmallerOfTwo
<1> HIDE DEF m
<1>5. m \in Nat /\ m <= Len(found) /\ m <= q.offset + LogLimit
  BY <1>1, <1>2, <1>4
<1> HIDE DEF found
<1>6. part \in Seq(P)
  BY <1>1, <1>2, <1>5
<1>7. Len(part) <= LogLimit
  <2>1. CASE q.offset + 1 <= m
    <3>1. Len(part) = m - (q.offset + 1) + 1
      BY <1>1, <1>2, <1>5, <2>1
    <3>2. \A a, b, c \in Nat : a <= b + c => a - (b + 1) + 1 <= c
      OBVIOUS
    <3>3. m - (q.offset + 1) + 1 <= LogLimit
      BY <1>2, <1>5, <3>2
    <3>4. QED
      BY <3>1, <3>3
  <2>2. CASE ~(q.offset + 1 <= m)
    <3>1. Len(part) = 0
      BY <1>1, <1>2, <1>5, <2>2
    <3>2. 0 <= LogLimit
      BY <1>2
    <3>3. QED
      BY <3>1, <3>2, Zenon
  <2>3. QED
    BY <2>1, <2>2
<1> HIDE DEF part
<1>8. QED
  BY <1>3, <1>6, <1>7 DEF LogPage, P

(* An empty page is one.                                                   *)
LEMMA EmptyPage == ASSUME NEW n PROVE <<>> \in LogPage(n)
<1>1. <<>> \in Seq(Places(n)) /\ Len(<<>>) = 0
  OBVIOUS
<1>2. QED
  BY <1>1, ActivityConstants DEF LogPage, ActivityConstants

(* A call for a query.                                                     *)
LEMMA PageAsked ==
    ASSUME NEW q \in Activity!Query, NEW n
    PROVE  Activity!Fetch(q) \in PageCall(n)
  BY EmptyPage DEF Activity!Fetch, PageCall

(* What the module says of the types of the log.                           *)
LEMMA LogTyped == LogTypesInv => Activity!TypeOK
<1> SUFFICES ASSUME LogTypesInv PROVE Activity!TypeOK
  OBVIOUS
<1> DEFINE n == Len(stored)
           P == Places(n)
<1>1. Activity!Current \in Activity!Query
  BY CurrentAsked
<1>2. Activity!ToSet(stored) \subseteq LogCategory /\ Len(stored) <= MaxEvents
  BY DEF LogTypesInv, Activity!ToSet
<1>3. ASSUME NEW s \in LogPage(n)
      PROVE  Activity!ToSet(s) \subseteq 1..Len(stored) /\ Len(s) <= LogLimit
  <2>1. s \in Seq(P) /\ Len(s) <= LogLimit
    BY DEF LogPage
  <2> HIDE DEF P
  <2>2. \A i \in DOMAIN s : s[i] \in P
    BY <2>1
  <2>3. Activity!ToSet(s) \subseteq P
    BY <2>2 DEF Activity!ToSet
  <2>4. QED
    BY <2>1, <2>3 DEF P, Places
<1>4. Activity!ToSet(events) \subseteq 1..Len(stored) /\ Len(events) <= LogLimit
  BY <1>3 DEF LogTypesInv
<1>5. ASSUME NEW i \in DOMAIN logFetches
      PROVE  /\ logFetches[i].query \in Activity!Query
             /\ logFetches[i].read \in BOOLEAN
             /\ Activity!ToSet(logFetches[i].rows) \subseteq 1..Len(stored)
  <2> DEFINE C == PageCall(n)
  <2>1. logFetches \in Seq(C)
    BY DEF LogTypesInv
  <2> HIDE DEF C
  <2>2. logFetches[i] \in C
    BY <2>1
  <2>3. /\ logFetches[i].query \in Activity!Query /\ logFetches[i].read \in BOOLEAN
        /\ logFetches[i].rows \in LogPage(n)
    BY <2>2 DEF C, PageCall
  <2>4. QED
    BY <1>3, <2>3
<1>6. /\ total \in 0..MaxEvents /\ logLoading \in BOOLEAN
      /\ Len(logFetches) <= MaxFetches + 1
      /\ socket \in {"connecting", "refused"} /\ shownFor \in Activity!Query
  BY DEF LogTypesInv
<1>7. QED
  BY <1>1, <1>2, <1>4, <1>5, <1>6 DEF Activity!TypeOK

(* At first the first page is asked for.                                   *)
LEMMA LogTypesInit == Activity!Init => LogTypesInv
<1> SUFFICES ASSUME Activity!Init PROVE LogTypesInv
  OBVIOUS
<1> DEFINE call == Activity!Fetch(Activity!Current)
           n == Len(stored)
           C == PageCall(n)
<1>1. /\ stored = <<>> /\ offset = 0 /\ category = "all" /\ order = "desc"
      /\ logFetches = <<call>> /\ events = <<>> /\ total = 0 /\ logLoading = TRUE
      /\ shownFor = Activity!Current /\ socket = "connecting" /\ actions = 0
  BY DEF Activity!Init, Activity!All
<1>2. /\ actions \in 0..MaxActions /\ 0 \in 0..actions /\ offset = LogLimit * 0
      /\ total \in 0..MaxEvents /\ MaxFetches \in Nat
  BY <1>1, ActivityConstants, RecordBounds DEF ActivityConstants, RecordBounds
<1>3. [category |-> category, order |-> order, offset |-> LogLimit * 0] \in Activity!Query
  BY <1>1, <1>2, QueryAsked
<1>4. Activity!Current \in Activity!Query
  BY <1>2, <1>3 DEF Activity!Current
<1>5. call \in C
  BY <1>4, PageAsked
<1>6. events \in LogPage(n)
  BY <1>1, EmptyPage
<1> HIDE DEF call, C, n
<1>7. logFetches \in Seq(C) /\ Len(logFetches) = 1
  BY <1>1, <1>5
<1>8. stored \in Seq(LogCategory) /\ Len(stored) <= MaxEvents
  BY <1>1, RecordBounds DEF RecordBounds
<1>9. /\ category \in {"all"} \cup LogCategory /\ order \in {"asc", "desc"}
      /\ logLoading \in BOOLEAN /\ socket \in {"connecting", "refused"}
  BY <1>1
<1>10. Len(logFetches) <= MaxFetches + 1
  BY <1>2, <1>7
<1>11. QED
  BY <1>1, <1>2, <1>4, <1>6, <1>7, <1>8, <1>9, <1>10 DEF LogTypesInv, C, n

(* One call or two are made.                                               *)
LEMMA LogTypesAsked ==
    ASSUME LogTypesInv, NEW qs \in Seq(PageCall(Len(stored))), Len(qs) \in {1, 2},
           Activity!Ask(qs),
           category' \in {"all"} \cup LogCategory, order' \in {"asc", "desc"},
           NEW k \in 0..actions', offset' = LogLimit * k,
           UNCHANGED <<stored, events, total, shownFor, socket>>
    PROVE  LogTypesInv'
<1> DEFINE n == Len(stored)
           C == PageCall(n)
<1>1. /\ logFetches \in Seq(C) /\ actions \in 0..MaxActions /\ qs \in Seq(C)
      /\ MaxFetches \in Nat /\ MaxActions \in Nat
  BY RecordBounds DEF LogTypesInv, RecordBounds
<1>2. /\ Len(logFetches) < MaxFetches /\ actions < MaxActions /\ actions' = actions + 1
      /\ logFetches' = logFetches \o qs /\ logLoading' = TRUE
  BY DEF Activity!Ask
<1> HIDE DEF C, n
<1>3. logFetches' \in Seq(C) /\ Len(logFetches') = Len(logFetches) + Len(qs)
  BY <1>1, <1>2
<1>4. actions' \in 0..MaxActions
  BY <1>1, <1>2
<1>5. Len(logFetches') <= MaxFetches + 1
  <2>1. Len(logFetches) \in Nat
    BY <1>1
  <2>2. CASE Len(qs) = 1
    BY <1>1, <1>2, <1>3, <2>1, <2>2
  <2>3. CASE Len(qs) = 2
    BY <1>1, <1>2, <1>3, <2>1, <2>3
  <2>4. QED
    BY <2>2, <2>3
<1>6. \E j \in 0..actions' : offset' = LogLimit * j
  OBVIOUS
<1>7. /\ stored \in Seq(LogCategory) /\ Len(stored) <= MaxEvents
      /\ events \in LogPage(Len(stored)) /\ total \in 0..MaxEvents
      /\ socket \in {"connecting", "refused"} /\ shownFor \in Activity!Query
  BY DEF LogTypesInv
<1>8. logLoading' \in BOOLEAN
  BY <1>2
<1>9. QED
  BY <1>3, <1>4, <1>5, <1>6, <1>7, <1>8 DEF LogTypesInv, C, n

(* The filter is changed: the old offset is asked for once more.           *)
LEMMA LogTypesChanged == LogTypesInv /\ Activity!ChangeFilter => LogTypesInv'
<1> SUFFICES ASSUME LogTypesInv, Activity!ChangeFilter PROVE LogTypesInv'
  OBVIOUS
<1> DEFINE n == Len(stored)
           C == PageCall(n)
           q == [category |-> category', order |-> order', offset |-> offset]
           r == [category |-> category', order |-> order', offset |-> 0]
           old == Activity!Fetch(q)
           new == Activity!Fetch(r)
           qs == Activity!AskedAfterChange(q)
<1>1. /\ category \in {"all"} \cup LogCategory /\ order \in {"asc", "desc"}
      /\ actions \in 0..MaxActions
  BY DEF LogTypesInv
<1>2. /\ category' \in {"all"} \cup LogCategory /\ order' \in {"asc", "desc"}
      /\ offset' = 0 /\ Activity!Ask(qs)
      /\ UNCHANGED <<stored, events, total, shownFor, socket>>
  BY <1>1 DEF Activity!ChangeFilter, Activity!All
<1>3. PICK k \in 0..actions : offset = LogLimit * k
  BY DEF LogTypesInv
<1>4. 0 \in 0..actions /\ LogLimit * 0 = 0
  BY <1>1, ActivityConstants DEF ActivityConstants
<1>5. [category |-> category', order |-> order', offset |-> LogLimit * k] \in Activity!Query
  BY <1>1, <1>2, <1>3, QueryAsked
<1>6. [category |-> category', order |-> order', offset |-> LogLimit * 0] \in Activity!Query
  BY <1>1, <1>2, <1>4, QueryAsked
<1>7. q \in Activity!Query /\ r \in Activity!Query
  BY <1>3, <1>4, <1>5, <1>6
<1>8. [q EXCEPT !.offset = 0] = r
  OBVIOUS
<1>9. old \in C /\ new \in C
  <2> HIDE DEF q, r
  <2>1. QED
    BY <1>7, PageAsked
<1>10. qs = <<old>> \/ qs = <<old>> \o <<new>>
  <2>1. qs = <<old>> \o (IF offset = 0 THEN <<>> ELSE <<new>>)
    BY <1>8 DEF Activity!AskedAfterChange
  <2>2. <<old>> \o <<>> = <<old>>
    <3> HIDE DEF old
    <3>1. QED
      OBVIOUS
  <2> HIDE DEF old, new, qs
  <2>3. QED
    BY <2>1, <2>2
<1> HIDE DEF old, new, C, n
<1>11. qs \in Seq(C) /\ Len(qs) \in {1, 2}
  <2> HIDE DEF qs, q, r
  <2>1. <<old>> \in Seq(C) /\ Len(<<old>>) = 1 /\ <<new>> \in Seq(C) /\ Len(<<new>>) = 1
    BY <1>9
  <2>2. <<old>> \o <<new>> \in Seq(C) /\ Len(<<old>> \o <<new>>) = 2
    BY <1>9
  <2>3. QED
    BY <1>10, <2>1, <2>2
<1>12. 0 \in 0..actions'
  <2>1. actions' = actions + 1
    BY <1>2 DEF Activity!Ask
  <2>2. QED
    BY <1>1, <2>1, RecordBounds DEF RecordBounds
<1> HIDE DEF qs, q, r
<1>13. offset' = LogLimit * 0
  BY <1>2, <1>4
<1>14. QED
  BY <1>2, <1>11, <1>12, <1>13, LogTypesAsked DEF C, n

(* The page is asked for again.                                            *)
LEMMA LogTypesRefreshed == LogTypesInv /\ Activity!Refresh => LogTypesInv'
<1> SUFFICES ASSUME LogTypesInv, Activity!Refresh PROVE LogTypesInv'
  OBVIOUS
<1> DEFINE n == Len(stored)
           C == PageCall(n)
           call == Activity!Fetch(Activity!Current)
           qs == <<call>>
<1>1. /\ UNCHANGED <<category, order, offset>> /\ Activity!Ask(qs)
      /\ UNCHANGED <<stored, events, total, shownFor, socket>>
  BY DEF Activity!Refresh, Activity!query
<1>2. call \in C
  BY CurrentAsked, PageAsked
<1> HIDE DEF call, C, n
<1>3. qs \in Seq(C) /\ Len(qs) \in {1, 2}
  BY <1>2
<1>4. PICK k \in 0..actions : offset = LogLimit * k
  BY DEF LogTypesInv
<1>5. k \in 0..actions'
  <2>1. actions' = actions + 1 /\ actions \in 0..MaxActions
    BY <1>1 DEF Activity!Ask, LogTypesInv
  <2>2. QED
    BY <1>4, <2>1, RecordBounds DEF RecordBounds
<1>6. category' \in {"all"} \cup LogCategory /\ order' \in {"asc", "desc"} /\ offset' = LogLimit * k
  BY <1>1, <1>4 DEF LogTypesInv
<1> HIDE DEF qs
<1>7. QED
  BY <1>1, <1>3, <1>5, <1>6, LogTypesAsked DEF C, n

(* The page is turned.                                                     *)
LEMMA LogTypesTurned == LogTypesInv /\ Activity!TurnPage => LogTypesInv'
<1> SUFFICES ASSUME LogTypesInv, Activity!TurnPage PROVE LogTypesInv'
  OBVIOUS
<1> DEFINE n == Len(stored)
           C == PageCall(n)
           q == [category |-> category, order |-> order, offset |-> offset']
           call == Activity!Fetch(q)
           qs == <<call>>
<1>1. /\ UNCHANGED <<stored, category, order, events, total, shownFor, socket>>
      /\ Activity!Ask(qs)
  BY DEF Activity!TurnPage, Activity!Current
<1>2. actions' = actions + 1 /\ actions \in 0..MaxActions /\ actions < MaxActions /\ MaxActions \in Nat
  BY <1>1, RecordBounds DEF Activity!Ask, LogTypesInv, RecordBounds
<1>3. PICK k \in 0..actions : offset = LogLimit * k
  BY DEF LogTypesInv
<1>4. LogLimit \in Nat \ {0} /\ k \in Nat /\ offset = k * LogLimit
  BY <1>2, <1>3, ActivityConstants DEF ActivityConstants
<1>5. \E j \in 0..actions' : offset' = LogLimit * j
  <2>1. CASE Activity!currentPage > 1 /\ offset' = offset - LogLimit
    <3>1. k # 0
      <4>1. 0 \div LogLimit = 0 /\ 0 * LogLimit = 0
        BY <1>4
      <4>2. k = 0 => Activity!currentPage = 1
        BY <1>4, <4>1 DEF Activity!currentPage
      <4>3. QED
        BY <2>1, <4>2
    <3>2. k - 1 \in 0..actions'
      BY <1>2, <1>3, <3>1
    <3>3. (k - 1) * LogLimit = k * LogLimit - LogLimit
      BY <1>4, MorePages
    <3>4. LogLimit * (k - 1) = (k - 1) * LogLimit
      BY <1>4
    <3>5. offset' = LogLimit * (k - 1)
      BY <1>4, <2>1, <3>3, <3>4
    <3>6. QED
      BY <3>2, <3>5
  <2>2. CASE offset' = offset + LogLimit
    <3>1. k + 1 \in 0..actions' /\ LogLimit * (k + 1) = LogLimit * k + LogLimit
      BY <1>2, <1>3, <1>4
    <3>2. QED
      BY <1>3, <2>2, <3>1
  <2>3. QED
    BY <2>1, <2>2 DEF Activity!TurnPage
<1>6. PICK j \in 0..actions' : offset' = LogLimit * j
  BY <1>5
<1>7. category \in {"all"} \cup LogCategory /\ order \in {"asc", "desc"} /\ actions' \in 0..MaxActions
  BY <1>2 DEF LogTypesInv
<1>8. [category |-> category, order |-> order, offset |-> LogLimit * j] \in Activity!Query
  BY <1>6, <1>7, QueryAsked
<1>9. call \in C
  BY <1>6, <1>8, PageAsked
<1> HIDE DEF call, C, n, q
<1>10. qs \in Seq(C) /\ Len(qs) \in {1, 2}
  BY <1>9
<1> HIDE DEF qs
<1>11. category' \in {"all"} \cup LogCategory /\ order' \in {"asc", "desc"}
  BY <1>1, <1>7
<1>12. QED
  BY <1>1, <1>6, <1>10, <1>11, LogTypesAsked DEF C, n

(* One more place: a page of some is a page of more.                       *)
LEMMA PageStays ==
    ASSUME NEW n \in Nat
    PROVE  /\ LogPage(n) \subseteq LogPage(n + 1)
           /\ PageCall(n) \subseteq PageCall(n + 1)
<1>1. Places(n) \subseteq Places(n + 1)
  BY DEF Places
<1>2. LogPage(n) \subseteq LogPage(n + 1)
  <2>1. ASSUME NEW s \in Seq(Places(n)) PROVE s \in Seq(Places(n + 1))
    BY <1>1
  <2>2. QED
    BY <2>1 DEF LogPage
<1>3. QED
  BY <1>2 DEF PageCall

(* An event is stored.                                                     *)
LEMMA LogTypesStored == LogTypesInv /\ Activity!StoreEvent => LogTypesInv'
<1> SUFFICES ASSUME LogTypesInv, Activity!StoreEvent PROVE LogTypesInv'
  OBVIOUS
<1> DEFINE n == Len(stored)
           C == PageCall(n)
           D == PageCall(n + 1)
<1>1. PICK c \in LogCategory : stored' = Append(stored, c)
  BY DEF Activity!StoreEvent
<1>2. /\ UNCHANGED <<events, total, logLoading, shownFor>> /\ UNCHANGED <<category, order, offset>>
      /\ UNCHANGED <<logFetches, socket, actions>> /\ Len(stored) < MaxEvents
  BY DEF Activity!StoreEvent, Activity!page, Activity!query
<1>3. /\ stored \in Seq(LogCategory) /\ logFetches \in Seq(C) /\ events \in LogPage(n)
      /\ Len(logFetches) <= MaxFetches + 1
  BY DEF LogTypesInv
<1>4. stored' \in Seq(LogCategory) /\ Len(stored') = n + 1 /\ n \in Nat
  BY <1>1, <1>3
<1>5. Len(stored') <= MaxEvents
  BY <1>2, <1>4, RecordBounds DEF RecordBounds
<1>6. C \subseteq D /\ LogPage(n) \subseteq LogPage(n + 1)
  BY <1>4, PageStays
<1>7. logFetches \in Seq(D)
  <2> HIDE DEF C, D
  <2>1. QED
    BY <1>3, <1>6
<1>8. logFetches' \in Seq(PageCall(Len(stored'))) /\ events' \in LogPage(Len(stored'))
  BY <1>2, <1>3, <1>4, <1>6, <1>7
<1>9. /\ category' \in {"all"} \cup LogCategory /\ order' \in {"asc", "desc"}
      /\ actions' \in 0..MaxActions
      /\ \E k \in 0..actions' : offset' = LogLimit * k
      /\ Len(logFetches') <= MaxFetches + 1
  BY <1>2 DEF LogTypesInv
<1>10. /\ total' \in 0..MaxEvents /\ logLoading' \in BOOLEAN
       /\ socket' \in {"connecting", "refused"}
       /\ shownFor' \in Activity!Query
  BY <1>2 DEF LogTypesInv
<1> HIDE DEF n, C, D
<1>11. QED
  BY <1>4, <1>5, <1>8, <1>9, <1>10 DEF LogTypesInv

(* The query reads its rows.                                               *)
LEMMA LogTypesRead ==
    ASSUME LogTypesInv, NEW i \in DOMAIN logFetches, Activity!ReadRows(i)
    PROVE  LogTypesInv'
<1> DEFINE n == Len(stored)
           C == PageCall(n)
           q == logFetches[i].query
           call == [logFetches[i] EXCEPT !.read = TRUE, !.rows = Activity!Rows(q)]
<1>1. /\ UNCHANGED <<stored, socket, actions>> /\ UNCHANGED <<events, total, logLoading, shownFor>>
      /\ UNCHANGED <<category, order, offset>>
  BY DEF Activity!ReadRows, Activity!page, Activity!query
<1>2. logFetches \in Seq(C) /\ stored \in Seq(LogCategory) /\ Len(logFetches) <= MaxFetches + 1
  BY DEF LogTypesInv
<1>3. logFetches[i] \in C
  <2> HIDE DEF C
  <2>1. QED
    BY <1>2
<1>4. q \in Activity!Query
  BY <1>3 DEF PageCall
<1>5. Activity!Rows(q) \in LogPage(n)
  BY <1>2, <1>4, QueryKnown, PageRead
<1>6. logFetches' = [logFetches EXCEPT ![i] = call]
  BY <1>2 DEF Activity!ReadRows
<1>7. call \in C
  <2>1. ASSUME NEW c \in C, NEW r \in LogPage(n)
        PROVE  [c EXCEPT !.read = TRUE, !.rows = r] \in C
    BY DEF PageCall
  <2>2. QED
    BY <1>3, <1>5, <2>1
<1> HIDE DEF call, C, n
<1>8. logFetches' \in Seq(C) /\ Len(logFetches') = Len(logFetches)
  BY <1>2, <1>6, <1>7
<1>9. logFetches' \in Seq(PageCall(Len(stored'))) /\ Len(logFetches') <= MaxFetches + 1
  BY <1>1, <1>2, <1>8 DEF C, n
<1>10. QED
  BY <1>1, <1>9 DEF LogTypesInv

(* An answer comes.                                                        *)
LEMMA LogTypesAnswered ==
    ASSUME LogTypesInv, NEW i \in DOMAIN logFetches, Activity!Succeeds(i)
    PROVE  LogTypesInv'
<1> DEFINE n == Len(stored)
           C == PageCall(n)
           q == logFetches[i].query
<1>1. /\ UNCHANGED <<stored, socket, actions>> /\ UNCHANGED <<category, order, offset>>
      /\ logFetches' = RemoveAt(logFetches, i) /\ logLoading' = FALSE
      /\ events' = logFetches[i].rows /\ shownFor' = q
      /\ total' = Len(Activity!Matching(q))
  BY DEF Activity!Succeeds, Activity!Answered, Activity!Show, Activity!RemoveAt, RemoveAt,
         Activity!query
<1>2. /\ logFetches \in Seq(C) /\ stored \in Seq(LogCategory)
      /\ Len(logFetches) <= MaxFetches + 1 /\ Len(stored) <= MaxEvents
  BY DEF LogTypesInv
<1>3. logFetches[i] \in C
  <2> HIDE DEF C
  <2>1. QED
    BY <1>2
<1>4. q \in Activity!Query /\ logFetches[i].rows \in LogPage(n)
  BY <1>3 DEF PageCall
<1>5. Len(Activity!Matching(q)) \in Nat /\ Len(Activity!Matching(q)) <= Len(stored)
  BY <1>2, <1>4, QueryKnown, PlacesFound
<1>6. total' \in 0..MaxEvents
  <2>1. Len(stored) \in Nat
    BY <1>2
  <2>2. total' \in Nat /\ total' <= Len(stored)
    BY <1>1, <1>5
  <2>3. QED
    BY <1>2, <2>1, <2>2, RecordBounds DEF RecordBounds
<1>7. logFetches' \in Seq(C) /\ Len(logFetches') = Len(logFetches) - 1
  <2> HIDE DEF C
  <2>1. QED
    BY <1>1, <1>2, WithoutOne
<1>8. Len(logFetches') <= MaxFetches + 1
  <2>1. Len(logFetches) \in Nat
    BY <1>2
  <2>2. QED
    BY <1>2, <1>7, <2>1, RecordBounds DEF RecordBounds
<1>9. logFetches' \in Seq(PageCall(Len(stored'))) /\ events' \in LogPage(Len(stored'))
  BY <1>1, <1>4, <1>7
<1>10. /\ category' \in {"all"} \cup LogCategory /\ order' \in {"asc", "desc"}
       /\ actions' \in 0..MaxActions
       /\ \E k \in 0..actions' : offset' = LogLimit * k
       /\ stored' \in Seq(LogCategory) /\ Len(stored') <= MaxEvents
  BY <1>1 DEF LogTypesInv
<1>11. /\ logLoading' \in BOOLEAN /\ socket' \in {"connecting", "refused"}
       /\ shownFor' \in Activity!Query
  BY <1>1, <1>4 DEF LogTypesInv
<1> HIDE DEF C, n, q
<1>12. QED
  BY <1>6, <1>8, <1>9, <1>10, <1>11 DEF LogTypesInv

(* Every step of the log keeps the types.                                  *)
LEMMA LogTypesStep == LogTypesInv /\ (Activity!Next \/ UNCHANGED logVars) => LogTypesInv'
<1> SUFFICES ASSUME LogTypesInv, Activity!Next \/ UNCHANGED logVars PROVE LogTypesInv'
  OBVIOUS
<1>1. CASE UNCHANGED logVars
  BY <1>1 DEF logVars, LogTypesInv
<1>2. CASE Activity!StoreEvent \/ Activity!ChangeFilter \/ Activity!Refresh \/ Activity!TurnPage
  BY <1>2, LogTypesStored, LogTypesChanged, LogTypesRefreshed, LogTypesTurned
<1>3. CASE Activity!SocketRefused
  <2>1. /\ UNCHANGED <<stored, logFetches, actions>> /\ UNCHANGED <<events, total, logLoading, shownFor>>
        /\ UNCHANGED <<category, order, offset>> /\ socket' = "refused"
    BY <1>3 DEF Activity!SocketRefused, Activity!page, Activity!query
  <2>2. QED
    BY <2>1 DEF LogTypesInv
<1>4. ASSUME NEW i \in DOMAIN logFetches, Activity!ReadRows(i) \/ Activity!Succeeds(i)
      PROVE  LogTypesInv'
  BY <1>4, LogTypesRead, LogTypesAnswered
<1>5. ASSUME NEW i \in DOMAIN logFetches
      PROVE  ~Activity!QueryFails(i) /\ ~Activity!CallFails(i)
  BY DEF Activity!QueryFails, Activity!CallFails
<1>6. QED
  BY <1>1, <1>2, <1>3, <1>4, <1>5 DEF Activity!Next

-----------------------------------------------------------------------------
(* The types of an account's page.                                         *)
Amounts == [Both -> Nat]
AtRest == [from |-> "main", to |-> "main", stage |-> "none"]

BankTyped == balance \in Amounts /\ accountRows \in Seq(Both) /\ unreported \in Seq(Both)
DelayedTyped == delayed \in [Both \X Both -> Nat]
HookTyped ==
    /\ accounts \in Amounts \cup {NotRead} /\ reads \in Seq(Amounts \cup {NotRead})
    /\ refetching \in BOOLEAN
PastTyped == history \in Seq(Both) /\ accountTxLoading \in BOOLEAN /\ historyAsked \in BOOLEAN
FormTyped ==
    /\ showTransfer \in BOOLEAN /\ transferType \in {"add", "withdraw"}
    /\ transferError \in BOOLEAN
TransferTyped ==
    /\ transfer \in Between /\ transfers \in 0..MaxTransfers
    /\ \/ transferLoading = TRUE /\ transfer # AtRest
       \/ transferLoading = FALSE /\ transfer = AtRest
(* Every transfer causes one call for the balances on top of the polls:    *)
(* as long as it has not, there is room for it.                            *)
ReadsFew ==
    /\ Len(reads) <= MaxReads + transfers
    /\ transfer.stage \in {"sent", "moved"} =>
         transfers >= 1 /\ Len(reads) + 1 <= MaxReads + transfers
CredsTyped ==
    /\ isIdVisible \in BOOLEAN /\ fullCredentials \in BOOLEAN /\ credentialsLoading \in BOOLEAN
    /\ isIdVisible => fullCredentials
AccountTypesInv ==
    /\ BankTyped /\ DelayedTyped /\ HookTyped /\ PastTyped /\ FormTyped /\ TransferTyped
    /\ ReadsFew /\ CredsTyped

(* What does not change keeps its types.                                   *)
LEMMA BankStays == BankTyped /\ UNCHANGED <<balance, accountRows, unreported>> => BankTyped'
  BY DEF BankTyped
(* The same of the requests given up,                                      *)
LEMMA DelayedStays == DelayedTyped /\ delayed' = delayed => DelayedTyped'
  BY DEF DelayedTyped
(* of the balances on display,                                             *)
LEMMA HookStays == HookTyped /\ UNCHANGED <<accounts, refetching, reads>> => HookTyped'
  BY DEF HookTyped
(* of the history,                                                         *)
LEMMA PastStays == PastTyped /\ UNCHANGED <<history, accountTxLoading, historyAsked>> => PastTyped'
  BY DEF PastTyped
(* of the form,                                                            *)
LEMMA FormStays == FormTyped /\ UNCHANGED <<showTransfer, transferType, transferError>> => FormTyped'
  BY DEF FormTyped
(* of the transfer,                                                        *)
LEMMA TransferStays ==
    TransferTyped /\ UNCHANGED <<transferLoading, transfer, transfers>> => TransferTyped'
  BY DEF TransferTyped
(* of the account number,                                                  *)
LEMMA CredsStay ==
    CredsTyped /\ UNCHANGED <<isIdVisible, fullCredentials, credentialsLoading>> => CredsTyped'
  BY DEF CredsTyped
(* and of the number of calls.                                             *)
LEMMA ReadsStay == ReadsFew /\ UNCHANGED <<reads, transfer, transfers>> => ReadsFew'
  BY DEF ReadsFew

(* A poll leaves room for what the transfers ask.                          *)
LEMMA ReadsPolled ==
    ASSUME HookTyped, TransferTyped, ReadsFew, Len(reads) < MaxReads,
           reads' = Append(reads, NotRead), refetching' = TRUE,
           UNCHANGED <<accounts, transfer, transfers>>
    PROVE  HookTyped' /\ ReadsFew'
<1> DEFINE K == Amounts \cup {NotRead}
           l == Len(reads)
<1>1. reads \in Seq(K) /\ NotRead \in K /\ accounts \in K
  BY DEF HookTyped
<1> HIDE DEF K
<1>2. reads' \in Seq(K) /\ Len(reads') = l + 1 /\ l \in Nat
  BY <1>1
<1>3. transfers \in Nat /\ MaxReads \in Nat /\ l < MaxReads
  BY RecordBounds DEF RecordBounds, TransferTyped
<1> HIDE DEF l
<1>4. l + 1 <= MaxReads + transfers
  BY <1>2, <1>3
<1>5. transfers >= 1 => l + 1 + 1 <= MaxReads + transfers
  BY <1>2, <1>3
<1>6. ReadsFew'
  BY <1>2, <1>4, <1>5 DEF ReadsFew
<1>7. HookTyped'
  BY <1>1, <1>2 DEF HookTyped, K
<1>8. QED
  BY <1>6, <1>7

(* The bank's answer to a call.                                            *)
LEMMA ReadsRead ==
    ASSUME BankTyped, HookTyped, ReadsFew, NEW i \in DOMAIN reads,
           reads' = [reads EXCEPT ![i] = balance],
           UNCHANGED <<accounts, refetching, transfer, transfers>>
    PROVE  HookTyped' /\ ReadsFew'
<1> DEFINE K == Amounts \cup {NotRead}
<1>1. reads \in Seq(K) /\ balance \in K /\ accounts \in K /\ refetching \in BOOLEAN
  BY DEF HookTyped, BankTyped
<1> HIDE DEF K
<1>2. reads' \in Seq(K) /\ Len(reads') = Len(reads)
  BY <1>1
<1>3. ReadsFew'
  BY <1>2 DEF ReadsFew
<1>4. HookTyped'
  BY <1>1, <1>2 DEF HookTyped, K
<1>5. QED
  BY <1>3, <1>4

(* It is displayed, or dropped.                                            *)
LEMMA ReadsAnswered ==
    ASSUME HookTyped, TransferTyped, ReadsFew, NEW i \in DOMAIN reads,
           reads' = RemoveAt(reads, i), accounts' \in {accounts, reads[i]},
           refetching' = FALSE, UNCHANGED <<transfer, transfers>>
    PROVE  HookTyped' /\ ReadsFew'
<1> DEFINE K == Amounts \cup {NotRead}
           l == Len(reads)
<1>1. reads \in Seq(K) /\ accounts \in K
  BY DEF HookTyped
<1> HIDE DEF K
<1>2. reads' \in Seq(K) /\ Len(reads') = l - 1 /\ l \in Nat
  BY <1>1, WithoutOne
<1>3. accounts' \in K
  BY <1>1
<1>4. transfers \in Nat /\ MaxReads \in Nat
  BY RecordBounds DEF RecordBounds, TransferTyped
<1> HIDE DEF l
<1>5. l <= MaxReads + transfers => l - 1 <= MaxReads + transfers
  BY <1>2, <1>4
<1>6. l + 1 <= MaxReads + transfers => l - 1 + 1 <= MaxReads + transfers
  BY <1>2, <1>4
<1>7. ReadsFew'
  BY <1>2, <1>5, <1>6 DEF ReadsFew, l
<1>8. HookTyped'
  BY <1>2, <1>3 DEF HookTyped, K
<1>9. QED
  BY <1>7, <1>8

(* A transfer is begun: it makes room for one more call.                   *)
LEMMA TransferBegun ==
    ASSUME HookTyped, TransferTyped, ReadsFew, transfers < MaxTransfers,
           transfers' = transfers + 1, transferLoading' = TRUE,
           transfer' \in Between, transfer'.stage = "sent", UNCHANGED reads
    PROVE  TransferTyped' /\ ReadsFew'
<1>1. transfers \in Nat /\ transfers' \in 0..MaxTransfers /\ MaxReads \in Nat
  BY RecordBounds DEF RecordBounds, TransferTyped
<1>2. transfer' # AtRest
  BY DEF AtRest
<1>3. TransferTyped'
  BY <1>1, <1>2 DEF TransferTyped
<1> DEFINE l == Len(reads)
<1>4. l \in Nat /\ l <= MaxReads + transfers
  BY DEF HookTyped, ReadsFew
<1> HIDE DEF l
<1>5. /\ l <= MaxReads + transfers' /\ l + 1 <= MaxReads + transfers' /\ transfers' >= 1
  BY <1>1, <1>4
<1>6. ReadsFew'
  BY <1>5 DEF ReadsFew, l
<1>7. QED
  BY <1>3, <1>6

(* It is moved or refused.                                                 *)
LEMMA TransferMade ==
    ASSUME TransferTyped, ReadsFew, transfer.stage = "sent",
           NEW s \in {"moved", "refused"}, transfer' = [transfer EXCEPT !.stage = s],
           UNCHANGED <<reads, transfers, transferLoading>>
    PROVE  TransferTyped' /\ ReadsFew'
<1>1. transfer # AtRest
  BY DEF AtRest
<1>2. transfer' \in Between /\ transfer'.stage = s /\ transfer' # AtRest
  BY DEF TransferTyped, Between, AtRest
<1>3. TransferTyped'
  BY <1>1, <1>2 DEF TransferTyped
<1>4. ReadsFew'
  BY <1>2 DEF ReadsFew
<1>5. QED
  BY <1>3, <1>4

(* The balances are called for after it.                                   *)
LEMMA ReadsAfterMove ==
    ASSUME HookTyped, TransferTyped, ReadsFew, transfer.stage = "moved",
           transfer' = [transfer EXCEPT !.stage = "reload"],
           reads' = Append(reads, NotRead), refetching' = TRUE,
           UNCHANGED <<accounts, transfers, transferLoading>>
    PROVE  HookTyped' /\ TransferTyped' /\ ReadsFew'
<1>1. transfer # AtRest
  BY DEF AtRest
<1>2. transfer' \in Between /\ transfer'.stage = "reload" /\ transfer' # AtRest
  BY DEF TransferTyped, Between, AtRest
<1>3. TransferTyped'
  BY <1>1, <1>2 DEF TransferTyped
<1> DEFINE K == Amounts \cup {NotRead}
<1>4. reads \in Seq(K) /\ NotRead \in K /\ accounts \in K
  BY DEF HookTyped
<1> HIDE DEF K
<1>5. reads' \in Seq(K) /\ Len(reads') = Len(reads) + 1
  BY <1>4
<1>6. ReadsFew'
  BY <1>2, <1>5 DEF ReadsFew
<1>7. HookTyped'
  BY <1>4, <1>5 DEF HookTyped, K
<1>8. QED
  BY <1>3, <1>6, <1>7

(* It is over.                                                             *)
LEMMA TransferOver ==
    ASSUME TransferTyped, ReadsFew, transfer' = AtRest, transferLoading' = FALSE,
           UNCHANGED <<reads, transfers>>
    PROVE  TransferTyped' /\ ReadsFew'
<1>1. AtRest \in Between /\ AtRest.stage = "none"
  BY DEF AtRest, Between, Both
<1>2. TransferTyped'
  BY <1>1 DEF TransferTyped
<1>3. ReadsFew'
  BY <1>1 DEF ReadsFew
<1>4. QED
  BY <1>2, <1>3

(* Amounts stay amounts: what is not there is not moved.                   *)
LEMMA AmountsMoved ==
    ASSUME NEW b \in Amounts, NEW f \in Both, NEW t \in Both, f # t, b[f] >= 1
    PROVE  [b EXCEPT ![f] = b[f] - 1, ![t] = b[t] + 1] \in Amounts
<1>1. b[f] - 1 \in Nat /\ b[t] + 1 \in Nat
  BY DEF Amounts
<1>2. QED
  BY <1>1 DEF Amounts

(* One more or one less is still a number.                                 *)
LEMMA DelayedCounted ==
    ASSUME DelayedTyped, NEW f \in Both, NEW t \in Both,
           NEW n \in Nat, delayed' = [delayed EXCEPT ![<<f, t>>] = n]
    PROVE  DelayedTyped'
  BY DEF DelayedTyped

(* A transfer inside the customer's accounts.                              *)
LEMMA BankMoves ==
    ASSUME BankTyped, NEW f \in Both, NEW t \in Both, f # t, balance[f] >= 1,
           balance' = [balance EXCEPT ![f] = @ - 1, ![t] = @ + 1],
           unreported' = unreported \o <<f, t>>, accountRows' = accountRows
    PROVE  BankTyped'
<1>1. balance \in Amounts
  BY DEF BankTyped
<1>2. balance' = [balance EXCEPT ![f] = balance[f] - 1, ![t] = balance[t] + 1]
  BY <1>1 DEF Amounts
<1>3. balance' \in Amounts
  <2>1. [balance EXCEPT ![f] = balance[f] - 1, ![t] = balance[t] + 1] \in Amounts
    BY <1>1, AmountsMoved
  <2>2. QED
    BY <1>2, <2>1
<1>4. unreported \in Seq(Both) /\ <<f, t>> \in Seq(Both)
  BY DEF BankTyped
<1>5. unreported \o <<f, t>> \in Seq(Both)
  BY ONLY <1>4
<1>6. QED
  BY <1>3, <1>5 DEF BankTyped

(* What the module says of the types of a sub-account's page.       *)
LEMMA AccountTyped == AccountTypesInv => Account!TypeOK
<1> SUFFICES ASSUME AccountTypesInv PROVE Account!TypeOK
  OBVIOUS
<1>1. NotRead = Account!Unknown /\ Account!Accounts = Both /\ AtRest = Account!NoTransfer
  BY DEF NotRead, Both, AtRest, Account!Unknown, Account!Accounts, Account!NoTransfer
<1>2. /\ balance \in [Both -> Nat] /\ accounts \in [Both -> Nat] \cup {NotRead}
      /\ delayed \in [Both \X Both -> Nat]
  BY DEF AccountTypesInv, BankTyped, DelayedTyped, HookTyped, Amounts
<1>3. Account!ToSet(accountRows) \cup Account!ToSet(unreported) \cup Account!ToSet(history) \subseteq Both
  <2>1. accountRows \in Seq(Both) /\ unreported \in Seq(Both) /\ history \in Seq(Both)
    BY DEF AccountTypesInv, BankTyped, PastTyped
  <2>2. ASSUME NEW s \in Seq(Both) PROVE Account!ToSet(s) \subseteq Both
    BY DEF Account!ToSet
  <2>3. QED
    BY <2>1, <2>2
<1>4. \A i \in DOMAIN reads : reads[i] \in [Both -> Nat] \cup {NotRead}
  <2> DEFINE K == Amounts \cup {NotRead}
  <2>1. reads \in Seq(K)
    BY DEF AccountTypesInv, HookTyped
  <2> HIDE DEF K
  <2>2. \A i \in DOMAIN reads : reads[i] \in K
    BY <2>1
  <2>3. QED
    BY <2>2 DEF K, Amounts
<1>5. Len(reads) <= MaxReads + MaxTransfers
  <2> DEFINE K == Amounts \cup {NotRead}
             l == Len(reads)
  <2>1. reads \in Seq(K) /\ l <= MaxReads + transfers
    BY DEF AccountTypesInv, HookTyped, ReadsFew
  <2> HIDE DEF K
  <2>2. l \in Nat
    BY <2>1
  <2>3. transfers \in 0..MaxTransfers
    BY DEF AccountTypesInv, TransferTyped
  <2> HIDE DEF l
  <2>4. l <= MaxReads + MaxTransfers
    BY <2>1, <2>2, <2>3, RecordBounds DEF RecordBounds
  <2>5. QED
    BY <2>4 DEF l
<1>6. /\ refetching \in BOOLEAN /\ accountTxLoading \in BOOLEAN /\ historyAsked \in BOOLEAN
      /\ showTransfer \in BOOLEAN /\ transferType \in {"add", "withdraw"} /\ transferError \in BOOLEAN
  BY DEF AccountTypesInv, HookTyped, PastTyped, FormTyped
<1>7. transferLoading <=> transfer # AtRest
  BY DEF AccountTypesInv, TransferTyped
<1>8. /\ transfer \in [from : Both, to : Both,
                       stage : {"none", "sent", "moved", "refused", "reload"}]
      /\ transfers \in 0..MaxTransfers
  BY DEF AccountTypesInv, TransferTyped, Between
<1>9. /\ isIdVisible \in BOOLEAN /\ fullCredentials \in BOOLEAN /\ credentialsLoading \in BOOLEAN
      /\ (isIdVisible => fullCredentials)
  BY DEF AccountTypesInv, CredsTyped
<1>10. QED
  BY <1>1, <1>2, <1>3, <1>4, <1>5, <1>6, <1>7, <1>8, <1>9 DEF Account!TypeOK

(* At first the balances and the history are on their way.                 *)
LEMMA AccountTypesInit == Account!Init => AccountTypesInv
<1> SUFFICES ASSUME Account!Init PROVE AccountTypesInv
  OBVIOUS
<1>1. NotRead = Account!Unknown /\ Account!Accounts = Both /\ AtRest = Account!NoTransfer
  BY DEF NotRead, Both, AtRest, Account!Unknown, Account!Accounts, Account!NoTransfer
<1>2. BankTyped /\ DelayedTyped
  <2>1. BankTyped
    BY <1>1, AccountConstants DEF AccountConstants, Account!Init, BankTyped, Amounts, Both
  <2>2. delayed = [x \in Both \X Both |-> 0]
    BY <1>1 DEF Account!Init
  <2>3. QED
    BY <2>1, <2>2 DEF DelayedTyped
<1>3. HookTyped /\ Len(reads) = 1
  <2> DEFINE K == Amounts \cup {NotRead}
  <2>1. NotRead \in K /\ reads = <<NotRead>> /\ accounts = NotRead /\ refetching = FALSE
    BY <1>1 DEF Account!Init
  <2> HIDE DEF K
  <2>2. reads \in Seq(K) /\ Len(reads) = 1
    BY <2>1
  <2>3. QED
    BY <2>1, <2>2 DEF HookTyped, K
<1>4. PastTyped /\ FormTyped /\ CredsTyped
  <2>1. history = <<>> /\ accountTxLoading = TRUE /\ historyAsked = TRUE
    BY DEF Account!Init
  <2>2. showTransfer = FALSE /\ transferType = "add" /\ transferError = FALSE
    BY DEF Account!Init
  <2>3. isIdVisible = FALSE /\ fullCredentials = FALSE /\ credentialsLoading = FALSE
    BY DEF Account!Init
  <2>4. PastTyped
    BY <2>1 DEF PastTyped
  <2>5. FormTyped
    BY <2>2 DEF FormTyped
  <2>6. CredsTyped
    BY <2>3 DEF CredsTyped
  <2>7. QED
    BY <2>4, <2>5, <2>6
<1>5. transfer = AtRest /\ transfers = 0 /\ transferLoading = FALSE
  BY <1>1 DEF Account!Init
<1>6. AtRest \in Between /\ AtRest.stage = "none" /\ 0 \in 0..MaxTransfers /\ 1 <= MaxReads + 0
  BY RecordBounds DEF RecordBounds, AtRest, Between, Both
<1>7. TransferTyped /\ ReadsFew
  BY <1>3, <1>5, <1>6 DEF TransferTyped, ReadsFew
<1>8. QED
  BY <1>2, <1>3, <1>4, <1>7 DEF AccountTypesInv

(* Every step of the page keeps the types.                                 *)
LEMMA AccountTypesStep ==
    AccountTypesInv /\ (Account!Next \/ UNCHANGED accountVars) => AccountTypesInv'
<1> SUFFICES ASSUME AccountTypesInv, Account!Next \/ UNCHANGED accountVars
             PROVE  AccountTypesInv'
  OBVIOUS
<1>1. NotRead = Account!Unknown /\ Account!Accounts = Both /\ AtRest = Account!NoTransfer
  BY DEF NotRead, Both, AtRest, Account!Unknown, Account!Accounts, Account!NoTransfer
<1>2. /\ BankTyped /\ DelayedTyped /\ HookTyped /\ PastTyped /\ FormTyped /\ TransferTyped
      /\ ReadsFew /\ CredsTyped
  BY DEF AccountTypesInv
<1> DEFINE Bank == UNCHANGED <<balance, accountRows, unreported>>
           Delayed == delayed' = delayed
           Hook == UNCHANGED <<accounts, refetching, reads>>
           Past == UNCHANGED <<history, accountTxLoading, historyAsked>>
           Form == UNCHANGED <<showTransfer, transferType, transferError>>
           Transfer == UNCHANGED <<transferLoading, transfer, transfers>>
           Creds == UNCHANGED <<isIdVisible, fullCredentials, credentialsLoading>>
<1> USE DEF Account!bank, Account!hook, Account!past, Account!form, Account!creds
<1>3. /\ Bank => BankTyped'
      /\ Delayed => DelayedTyped'
      /\ Hook => HookTyped'
      /\ Past => PastTyped'
      /\ Form => FormTyped'
      /\ Transfer => TransferTyped'
      /\ Creds => CredsTyped'
      /\ (UNCHANGED <<reads, transfer, transfers>> => ReadsFew')
  <2>1. /\ Bank => BankTyped'
        /\ Delayed => DelayedTyped'
        /\ Hook => HookTyped'
        /\ Past => PastTyped'
    BY <1>2, BankStays, DelayedStays, HookStays, PastStays, Zenon
  <2>2. /\ Form => FormTyped'
        /\ Transfer => TransferTyped'
        /\ Creds => CredsTyped'
        /\ (UNCHANGED <<reads, transfer, transfers>> => ReadsFew')
    BY <1>2, FormStays, TransferStays, CredsStay, ReadsStay, Zenon
  <2>3. QED
    BY <2>1, <2>2
<1>4. CASE Account!Poll
  <2>1. HookTyped' /\ ReadsFew'
    BY <1>1, <1>2, <1>4, ReadsPolled DEF Account!Poll
  <2>2. Bank /\ Delayed /\ Past /\ Form /\ Transfer /\ Creds
    BY <1>4 DEF Account!Poll
  <2>3. QED
    BY <1>3, <2>1, <2>2 DEF AccountTypesInv
<1>5. ASSUME NEW i \in DOMAIN reads,
             Account!BankReads(i) \/ Account!BalanceAnswered(i) \/ Account!BalanceFails(i)
      PROVE  AccountTypesInv'
  <2>1. HookTyped' /\ ReadsFew'
    <3>1. CASE Account!BankReads(i)
      BY <1>2, <3>1, ReadsRead DEF Account!BankReads
    <3>2. CASE Account!BalanceAnswered(i) \/ Account!BalanceFails(i)
      <4>1. /\ reads' = RemoveAt(reads, i) /\ accounts' \in {accounts, reads[i]}
            /\ refetching' = FALSE /\ UNCHANGED <<transfer, transfers>>
        BY <3>2 DEF Account!BalanceAnswered, Account!BalanceFails, Account!RemoveAt, RemoveAt
      <4>2. QED
        BY <1>2, <4>1, ReadsAnswered
    <3>3. QED
      BY <1>5, <3>1, <3>2
  <2>2. Bank /\ Delayed /\ Past /\ Form /\ Transfer /\ Creds
    BY <1>5 DEF Account!BankReads, Account!BalanceAnswered, Account!BalanceFails
  <2>3. QED
    BY <1>3, <2>1, <2>2 DEF AccountTypesInv
<1>6. CASE Account!HistoryAnswered
  <2>1. Bank /\ Delayed /\ Hook /\ Form /\ Transfer /\ Creds /\ UNCHANGED <<reads, transfer, transfers>>
    BY <1>6 DEF Account!HistoryAnswered
  <2>2. PastTyped'
    <3>1. history \in Seq(Both) /\ accountRows \in Seq(Both) /\ <<>> \in Seq(Both)
      BY <1>2 DEF PastTyped, BankTyped
    <3>2. history' \in Seq(Both)
      BY <1>6, <3>1 DEF Account!HistoryAnswered, Account!Transactions
    <3>3. accountTxLoading' = FALSE /\ historyAsked' = FALSE
      BY <1>6 DEF Account!HistoryAnswered
    <3>4. QED
      BY <3>2, <3>3 DEF PastTyped
  <2>3. QED
    BY <1>3, <2>1, <2>2 DEF AccountTypesInv
<1>7. CASE Account!SyncCheck
  <2>1. Delayed /\ Hook /\ Past /\ Form /\ Transfer /\ Creds /\ UNCHANGED <<reads, transfer, transfers>>
    BY <1>7 DEF Account!SyncCheck
  <2>2. BankTyped'
    <3>1. accountRows \in Seq(Both) /\ unreported \in Seq(Both)
      BY <1>2 DEF BankTyped
    <3>2. accountRows \o unreported \in Seq(Both)
      BY ONLY <3>1
    <3>3. QED
      BY <1>2, <1>7, <3>2 DEF Account!SyncCheck, BankTyped
  <2>3. QED
    BY <1>3, <2>1, <2>2 DEF AccountTypesInv
<1>8. CASE Account!OpenForm \/ Account!Cancel
  <2>1. Bank /\ Delayed /\ Hook /\ Past /\ Transfer /\ Creds /\ UNCHANGED <<reads, transfer, transfers>>
    BY <1>8 DEF Account!OpenForm, Account!Cancel
  <2>2. FormTyped'
    BY <1>2, <1>8 DEF Account!OpenForm, Account!Cancel, FormTyped
  <2>3. QED
    BY <1>3, <2>1, <2>2 DEF AccountTypesInv
<1>9. CASE Account!HandleTransfer
  <2>1. Bank /\ Delayed /\ Hook /\ Past /\ Creds
    BY <1>9 DEF Account!HandleTransfer
  <2>2. FormTyped'
    BY <1>2, <1>9 DEF Account!HandleTransfer, FormTyped
  <2>3. transfer' \in Between /\ transfer'.stage = "sent"
    BY <1>9 DEF Account!HandleTransfer, Between, Both
  <2>4. TransferTyped' /\ ReadsFew'
    BY <1>2, <1>9, <2>1, <2>3, TransferBegun DEF Account!HandleTransfer
  <2>5. QED
    BY <1>3, <2>1, <2>2, <2>4 DEF AccountTypesInv
<1>10. CASE Account!ExecuteInternalTransfer
  <2>1. Delayed /\ Hook /\ Past /\ Form /\ Creds /\ UNCHANGED <<reads, transfers, transferLoading>>
    BY <1>10 DEF Account!ExecuteInternalTransfer
  <2>2. PICK s \in {"moved", "refused"} : transfer' = [transfer EXCEPT !.stage = s]
    BY <1>10 DEF Account!ExecuteInternalTransfer
  <2>3. TransferTyped' /\ ReadsFew'
    BY <1>2, <1>10, <2>1, <2>2, TransferMade DEF Account!ExecuteInternalTransfer
  <2>4. BankTyped'
    <3>1. transfer.from \in Both /\ transfer.to \in Both
      BY <1>2 DEF TransferTyped, Between
    <3>2. CASE Account!Move(transfer.from, transfer.to)
      BY <1>2, <1>10, <3>1, <3>2, BankMoves DEF Account!ExecuteInternalTransfer, Account!Move
    <3>3. CASE UNCHANGED <<balance, unreported>>
      BY <1>2, <1>10, <3>3, BankStays DEF Account!ExecuteInternalTransfer
    <3>4. QED
      BY <1>10, <3>2, <3>3 DEF Account!ExecuteInternalTransfer
  <2>5. QED
    BY <1>3, <2>1, <2>3, <2>4 DEF AccountTypesInv
<1>11. CASE Account!Moved
  <2>1. Bank /\ Delayed /\ Past /\ Creds
    BY <1>11 DEF Account!Moved
  <2>2. FormTyped'
    BY <1>2, <1>11 DEF Account!Moved, FormTyped
  <2>3. HookTyped' /\ TransferTyped' /\ ReadsFew'
    BY <1>1, <1>2, <1>11, ReadsAfterMove DEF Account!Moved
  <2>4. QED
    BY <1>3, <2>1, <2>2, <2>3 DEF AccountTypesInv
<1>12. CASE Account!Reloaded \/ Account!TransferFails
  <2>1. Bank /\ Hook /\ Creds
    BY <1>12 DEF Account!Reloaded, Account!TransferFails
  <2>2. PastTyped'
    <3>1. history \in Seq(Both) /\ accountRows \in Seq(Both) /\ <<>> \in Seq(Both)
      BY <1>2 DEF PastTyped, BankTyped
    <3>2. history' \in {accountRows, <<>>, history}
      BY <1>12 DEF Account!Reloaded, Account!TransferFails, Account!Transactions
    <3>3. history' \in Seq(Both)
      BY <3>1, <3>2
    <3>4. UNCHANGED <<accountTxLoading, historyAsked>>
      BY <1>12 DEF Account!Reloaded, Account!TransferFails
    <3>5. QED
      BY <1>2, <3>3, <3>4 DEF PastTyped
  <2>3. FormTyped'
    BY <1>2, <1>12 DEF Account!Reloaded, Account!TransferFails, FormTyped
  <2>4. TransferTyped' /\ ReadsFew'
    BY <1>1, <1>2, <1>12, <2>1, TransferOver DEF Account!Reloaded, Account!TransferFails, Account!Ends
  <2>5. DelayedTyped'
    <3>1. CASE Delayed
      BY <1>3, <3>1
    <3>2. CASE delayed' = [delayed EXCEPT ![<<transfer.from, transfer.to>>] = @ + 1]
      <4>1. PICK f \in Both, t \in Both : f = transfer.from /\ t = transfer.to
        BY <1>2 DEF TransferTyped, Between
      <4>2. delayed \in [Both \X Both -> Nat] /\ delayed[<<f, t>>] + 1 \in Nat
        BY <1>2 DEF DelayedTyped
      <4>3. delayed' = [delayed EXCEPT ![<<f, t>>] = delayed[<<f, t>>] + 1]
        BY <3>2, <4>1, <4>2
      <4>4. QED
        BY <1>2, <4>2, <4>3, DelayedCounted
    <3>3. QED
      BY <1>12, <3>1, <3>2 DEF Account!Reloaded, Account!TransferFails
  <2>6. BankTyped' /\ HookTyped' /\ CredsTyped'
    BY <1>3, <2>1
  <2>7. QED
    BY <2>2, <2>3, <2>4, <2>5, <2>6 DEF AccountTypesInv
<1>13. CASE Account!FetchFullCredentials \/ Account!CredentialsAnswered
  <2>1. Bank /\ Delayed /\ Hook /\ Past /\ Form /\ Transfer /\ UNCHANGED <<reads, transfer, transfers>>
    BY <1>13 DEF Account!FetchFullCredentials, Account!CredentialsAnswered
  <2>2. CredsTyped'
    BY <1>2, <1>13 DEF Account!FetchFullCredentials, Account!CredentialsAnswered, CredsTyped
  <2>3. QED
    BY <1>3, <2>1, <2>2 DEF AccountTypesInv
<1>14. CASE UNCHANGED accountVars
  <2>1. /\ Bank /\ Delayed /\ Hook /\ Past /\ Form /\ Transfer /\ Creds
        /\ UNCHANGED <<reads, transfer, transfers>>
    BY <1>14 DEF accountVars
  <2>2. QED
    BY <1>3, <2>1 DEF AccountTypesInv
<1>15. ASSUME NEW f \in Both, NEW t \in Both, Account!ExecuteDelayed(f, t)
       PROVE  AccountTypesInv'
  <2>1. Hook /\ Past /\ Form /\ Transfer /\ Creds /\ UNCHANGED <<reads, transfer, transfers>>
    BY <1>15 DEF Account!ExecuteDelayed
  <2>2. BankTyped'
    BY <1>2, <1>15, BankMoves DEF Account!ExecuteDelayed, Account!Move
  <2>3. DelayedTyped'
    <3>1. delayed \in [Both \X Both -> Nat] /\ delayed[<<f, t>>] > 0
      BY <1>2, <1>15 DEF DelayedTyped, Account!ExecuteDelayed
    <3>2. delayed[<<f, t>>] - 1 \in Nat
      BY <3>1
    <3>3. delayed' = [delayed EXCEPT ![<<f, t>>] = delayed[<<f, t>>] - 1]
      BY <1>15, <3>1 DEF Account!ExecuteDelayed
    <3>4. QED
      BY <1>2, <3>2, <3>3, DelayedCounted
  <2>4. QED
    BY <1>3, <2>1, <2>2, <2>3 DEF AccountTypesInv
<1>16. QED
  BY <1>1, <1>4, <1>5, <1>6, <1>7, <1>8, <1>9, <1>10, <1>11, <1>12, <1>13, <1>14, <1>15
  DEF Account!Next

(* What the module says of the types of the main account's.         *)
LEMMA MainAccountTyped == AccountTypesInv => MainAccount!TypeOK
<1> SUFFICES ASSUME AccountTypesInv PROVE MainAccount!TypeOK
  OBVIOUS
<1>1. NotRead = MainAccount!Unknown /\ MainAccount!Accounts = Both /\ AtRest = MainAccount!NoTransfer
  BY DEF NotRead, Both, AtRest, MainAccount!Unknown, MainAccount!Accounts, MainAccount!NoTransfer
<1>2. /\ balance \in [Both -> Nat] /\ accounts \in [Both -> Nat] \cup {NotRead}
      /\ delayed \in [Both \X Both -> Nat]
  BY DEF AccountTypesInv, BankTyped, DelayedTyped, HookTyped, Amounts
<1>3. MainAccount!ToSet(accountRows) \cup MainAccount!ToSet(unreported) \cup MainAccount!ToSet(history) \subseteq Both
  <2>1. accountRows \in Seq(Both) /\ unreported \in Seq(Both) /\ history \in Seq(Both)
    BY DEF AccountTypesInv, BankTyped, PastTyped
  <2>2. ASSUME NEW s \in Seq(Both) PROVE MainAccount!ToSet(s) \subseteq Both
    BY DEF MainAccount!ToSet
  <2>3. QED
    BY <2>1, <2>2
<1>4. \A i \in DOMAIN reads : reads[i] \in [Both -> Nat] \cup {NotRead}
  <2> DEFINE K == Amounts \cup {NotRead}
  <2>1. reads \in Seq(K)
    BY DEF AccountTypesInv, HookTyped
  <2> HIDE DEF K
  <2>2. \A i \in DOMAIN reads : reads[i] \in K
    BY <2>1
  <2>3. QED
    BY <2>2 DEF K, Amounts
<1>5. Len(reads) <= MaxReads + MaxTransfers
  <2> DEFINE K == Amounts \cup {NotRead}
             l == Len(reads)
  <2>1. reads \in Seq(K) /\ l <= MaxReads + transfers
    BY DEF AccountTypesInv, HookTyped, ReadsFew
  <2> HIDE DEF K
  <2>2. l \in Nat
    BY <2>1
  <2>3. transfers \in 0..MaxTransfers
    BY DEF AccountTypesInv, TransferTyped
  <2> HIDE DEF l
  <2>4. l <= MaxReads + MaxTransfers
    BY <2>1, <2>2, <2>3, RecordBounds DEF RecordBounds
  <2>5. QED
    BY <2>4 DEF l
<1>6. /\ refetching \in BOOLEAN /\ accountTxLoading \in BOOLEAN /\ historyAsked \in BOOLEAN
      /\ showTransfer \in BOOLEAN /\ transferType \in {"add", "withdraw"} /\ transferError \in BOOLEAN
  BY DEF AccountTypesInv, HookTyped, PastTyped, FormTyped
<1>7. transferLoading <=> transfer # AtRest
  BY DEF AccountTypesInv, TransferTyped
<1>8. /\ transfer \in [from : Both, to : Both,
                       stage : {"none", "sent", "moved", "refused", "reload"}]
      /\ transfers \in 0..MaxTransfers
  BY DEF AccountTypesInv, TransferTyped, Between
<1>9. /\ isIdVisible \in BOOLEAN /\ fullCredentials \in BOOLEAN /\ credentialsLoading \in BOOLEAN
      /\ (isIdVisible => fullCredentials)
  BY DEF AccountTypesInv, CredsTyped
<1>10. QED
  BY <1>1, <1>2, <1>3, <1>4, <1>5, <1>6, <1>7, <1>8, <1>9 DEF MainAccount!TypeOK

(* At first the balances and the history are on their way.                 *)
LEMMA MainAccountTypesInit == MainAccount!Init => AccountTypesInv
<1> SUFFICES ASSUME MainAccount!Init PROVE AccountTypesInv
  OBVIOUS
<1>1. NotRead = MainAccount!Unknown /\ MainAccount!Accounts = Both /\ AtRest = MainAccount!NoTransfer
  BY DEF NotRead, Both, AtRest, MainAccount!Unknown, MainAccount!Accounts, MainAccount!NoTransfer
<1>2. BankTyped /\ DelayedTyped
  <2>1. BankTyped
    BY <1>1, AccountConstants DEF AccountConstants, MainAccount!Init, BankTyped, Amounts, Both
  <2>2. delayed = [x \in Both \X Both |-> 0]
    BY <1>1 DEF MainAccount!Init
  <2>3. QED
    BY <2>1, <2>2 DEF DelayedTyped
<1>3. HookTyped /\ Len(reads) = 1
  <2> DEFINE K == Amounts \cup {NotRead}
  <2>1. NotRead \in K /\ reads = <<NotRead>> /\ accounts = NotRead /\ refetching = FALSE
    BY <1>1 DEF MainAccount!Init
  <2> HIDE DEF K
  <2>2. reads \in Seq(K) /\ Len(reads) = 1
    BY <2>1
  <2>3. QED
    BY <2>1, <2>2 DEF HookTyped, K
<1>4. PastTyped /\ FormTyped /\ CredsTyped
  <2>1. history = <<>> /\ accountTxLoading = TRUE /\ historyAsked = TRUE
    BY DEF MainAccount!Init
  <2>2. showTransfer = FALSE /\ transferType = "add" /\ transferError = FALSE
    BY DEF MainAccount!Init
  <2>3. isIdVisible = FALSE /\ fullCredentials = FALSE /\ credentialsLoading = FALSE
    BY DEF MainAccount!Init
  <2>4. PastTyped
    BY <2>1 DEF PastTyped
  <2>5. FormTyped
    BY <2>2 DEF FormTyped
  <2>6. CredsTyped
    BY <2>3 DEF CredsTyped
  <2>7. QED
    BY <2>4, <2>5, <2>6
<1>5. transfer = AtRest /\ transfers = 0 /\ transferLoading = FALSE
  BY <1>1 DEF MainAccount!Init
<1>6. AtRest \in Between /\ AtRest.stage = "none" /\ 0 \in 0..MaxTransfers /\ 1 <= MaxReads + 0
  BY RecordBounds DEF RecordBounds, AtRest, Between, Both
<1>7. TransferTyped /\ ReadsFew
  BY <1>3, <1>5, <1>6 DEF TransferTyped, ReadsFew
<1>8. QED
  BY <1>2, <1>3, <1>4, <1>7 DEF AccountTypesInv

(* Every step of the page keeps the types.                                 *)
LEMMA MainAccountTypesStep ==
    AccountTypesInv /\ (MainAccount!Next \/ UNCHANGED accountVars) => AccountTypesInv'
<1> SUFFICES ASSUME AccountTypesInv, MainAccount!Next \/ UNCHANGED accountVars
             PROVE  AccountTypesInv'
  OBVIOUS
<1>1. NotRead = MainAccount!Unknown /\ MainAccount!Accounts = Both /\ AtRest = MainAccount!NoTransfer
  BY DEF NotRead, Both, AtRest, MainAccount!Unknown, MainAccount!Accounts, MainAccount!NoTransfer
<1>2. /\ BankTyped /\ DelayedTyped /\ HookTyped /\ PastTyped /\ FormTyped /\ TransferTyped
      /\ ReadsFew /\ CredsTyped
  BY DEF AccountTypesInv
<1> DEFINE Bank == UNCHANGED <<balance, accountRows, unreported>>
           Delayed == delayed' = delayed
           Hook == UNCHANGED <<accounts, refetching, reads>>
           Past == UNCHANGED <<history, accountTxLoading, historyAsked>>
           Form == UNCHANGED <<showTransfer, transferType, transferError>>
           Transfer == UNCHANGED <<transferLoading, transfer, transfers>>
           Creds == UNCHANGED <<isIdVisible, fullCredentials, credentialsLoading>>
<1> USE DEF MainAccount!bank, MainAccount!hook, MainAccount!past, MainAccount!form, MainAccount!creds
<1>3. /\ Bank => BankTyped'
      /\ Delayed => DelayedTyped'
      /\ Hook => HookTyped'
      /\ Past => PastTyped'
      /\ Form => FormTyped'
      /\ Transfer => TransferTyped'
      /\ Creds => CredsTyped'
      /\ (UNCHANGED <<reads, transfer, transfers>> => ReadsFew')
  <2>1. /\ Bank => BankTyped'
        /\ Delayed => DelayedTyped'
        /\ Hook => HookTyped'
        /\ Past => PastTyped'
    BY <1>2, BankStays, DelayedStays, HookStays, PastStays, Zenon
  <2>2. /\ Form => FormTyped'
        /\ Transfer => TransferTyped'
        /\ Creds => CredsTyped'
        /\ (UNCHANGED <<reads, transfer, transfers>> => ReadsFew')
    BY <1>2, FormStays, TransferStays, CredsStay, ReadsStay, Zenon
  <2>3. QED
    BY <2>1, <2>2
<1>4. CASE MainAccount!Poll
  <2>1. HookTyped' /\ ReadsFew'
    BY <1>1, <1>2, <1>4, ReadsPolled DEF MainAccount!Poll
  <2>2. Bank /\ Delayed /\ Past /\ Form /\ Transfer /\ Creds
    BY <1>4 DEF MainAccount!Poll
  <2>3. QED
    BY <1>3, <2>1, <2>2 DEF AccountTypesInv
<1>5. ASSUME NEW i \in DOMAIN reads,
             MainAccount!BankReads(i) \/ MainAccount!BalanceAnswered(i) \/ MainAccount!BalanceFails(i)
      PROVE  AccountTypesInv'
  <2>1. HookTyped' /\ ReadsFew'
    <3>1. CASE MainAccount!BankReads(i)
      BY <1>2, <3>1, ReadsRead DEF MainAccount!BankReads
    <3>2. CASE MainAccount!BalanceAnswered(i) \/ MainAccount!BalanceFails(i)
      <4>1. /\ reads' = RemoveAt(reads, i) /\ accounts' \in {accounts, reads[i]}
            /\ refetching' = FALSE /\ UNCHANGED <<transfer, transfers>>
        BY <3>2 DEF MainAccount!BalanceAnswered, MainAccount!BalanceFails, MainAccount!RemoveAt, RemoveAt
      <4>2. QED
        BY <1>2, <4>1, ReadsAnswered
    <3>3. QED
      BY <1>5, <3>1, <3>2
  <2>2. Bank /\ Delayed /\ Past /\ Form /\ Transfer /\ Creds
    BY <1>5 DEF MainAccount!BankReads, MainAccount!BalanceAnswered, MainAccount!BalanceFails
  <2>3. QED
    BY <1>3, <2>1, <2>2 DEF AccountTypesInv
<1>6. CASE MainAccount!HistoryAnswered
  <2>1. Bank /\ Delayed /\ Hook /\ Form /\ Transfer /\ Creds /\ UNCHANGED <<reads, transfer, transfers>>
    BY <1>6 DEF MainAccount!HistoryAnswered
  <2>2. PastTyped'
    <3>1. history \in Seq(Both) /\ accountRows \in Seq(Both) /\ <<>> \in Seq(Both)
      BY <1>2 DEF PastTyped, BankTyped
    <3>2. history' \in Seq(Both)
      BY <1>6, <3>1 DEF MainAccount!HistoryAnswered, MainAccount!Transactions
    <3>3. accountTxLoading' = FALSE /\ historyAsked' = FALSE
      BY <1>6 DEF MainAccount!HistoryAnswered
    <3>4. QED
      BY <3>2, <3>3 DEF PastTyped
  <2>3. QED
    BY <1>3, <2>1, <2>2 DEF AccountTypesInv
<1>7. CASE MainAccount!SyncCheck
  <2>1. Delayed /\ Hook /\ Past /\ Form /\ Transfer /\ Creds /\ UNCHANGED <<reads, transfer, transfers>>
    BY <1>7 DEF MainAccount!SyncCheck
  <2>2. BankTyped'
    <3>1. accountRows \in Seq(Both) /\ unreported \in Seq(Both)
      BY <1>2 DEF BankTyped
    <3>2. accountRows \o unreported \in Seq(Both)
      BY ONLY <3>1
    <3>3. QED
      BY <1>2, <1>7, <3>2 DEF MainAccount!SyncCheck, BankTyped
  <2>3. QED
    BY <1>3, <2>1, <2>2 DEF AccountTypesInv
<1>8. CASE MainAccount!OpenForm \/ MainAccount!Cancel
  <2>1. Bank /\ Delayed /\ Hook /\ Past /\ Transfer /\ Creds /\ UNCHANGED <<reads, transfer, transfers>>
    BY <1>8 DEF MainAccount!OpenForm, MainAccount!Cancel
  <2>2. FormTyped'
    BY <1>2, <1>8 DEF MainAccount!OpenForm, MainAccount!Cancel, FormTyped
  <2>3. QED
    BY <1>3, <2>1, <2>2 DEF AccountTypesInv
<1>9. CASE MainAccount!HandleTransfer
  <2>1. Bank /\ Delayed /\ Hook /\ Past /\ Creds
    BY <1>9 DEF MainAccount!HandleTransfer
  <2>2. FormTyped'
    BY <1>2, <1>9 DEF MainAccount!HandleTransfer, FormTyped
  <2>3. transfer' \in Between /\ transfer'.stage = "sent"
    BY <1>9 DEF MainAccount!HandleTransfer, Between, Both
  <2>4. TransferTyped' /\ ReadsFew'
    BY <1>2, <1>9, <2>1, <2>3, TransferBegun DEF MainAccount!HandleTransfer
  <2>5. QED
    BY <1>3, <2>1, <2>2, <2>4 DEF AccountTypesInv
<1>10. CASE MainAccount!ExecuteInternalTransfer
  <2>1. Delayed /\ Hook /\ Past /\ Form /\ Creds /\ UNCHANGED <<reads, transfers, transferLoading>>
    BY <1>10 DEF MainAccount!ExecuteInternalTransfer
  <2>2. PICK s \in {"moved", "refused"} : transfer' = [transfer EXCEPT !.stage = s]
    BY <1>10 DEF MainAccount!ExecuteInternalTransfer
  <2>3. TransferTyped' /\ ReadsFew'
    BY <1>2, <1>10, <2>1, <2>2, TransferMade DEF MainAccount!ExecuteInternalTransfer
  <2>4. BankTyped'
    <3>1. transfer.from \in Both /\ transfer.to \in Both
      BY <1>2 DEF TransferTyped, Between
    <3>2. CASE MainAccount!Move(transfer.from, transfer.to)
      BY <1>2, <1>10, <3>1, <3>2, BankMoves DEF MainAccount!ExecuteInternalTransfer, MainAccount!Move
    <3>3. CASE UNCHANGED <<balance, unreported>>
      BY <1>2, <1>10, <3>3, BankStays DEF MainAccount!ExecuteInternalTransfer
    <3>4. QED
      BY <1>10, <3>2, <3>3 DEF MainAccount!ExecuteInternalTransfer
  <2>5. QED
    BY <1>3, <2>1, <2>3, <2>4 DEF AccountTypesInv
<1>11. CASE MainAccount!Moved
  <2>1. Bank /\ Delayed /\ Past /\ Creds
    BY <1>11 DEF MainAccount!Moved
  <2>2. FormTyped'
    BY <1>2, <1>11 DEF MainAccount!Moved, FormTyped
  <2>3. HookTyped' /\ TransferTyped' /\ ReadsFew'
    BY <1>1, <1>2, <1>11, ReadsAfterMove DEF MainAccount!Moved
  <2>4. QED
    BY <1>3, <2>1, <2>2, <2>3 DEF AccountTypesInv
<1>12. CASE MainAccount!Reloaded \/ MainAccount!TransferFails
  <2>1. Bank /\ Hook /\ Creds
    BY <1>12 DEF MainAccount!Reloaded, MainAccount!TransferFails
  <2>2. PastTyped'
    <3>1. history \in Seq(Both) /\ accountRows \in Seq(Both) /\ <<>> \in Seq(Both)
      BY <1>2 DEF PastTyped, BankTyped
    <3>2. history' \in {accountRows, <<>>, history}
      BY <1>12 DEF MainAccount!Reloaded, MainAccount!TransferFails, MainAccount!Transactions
    <3>3. history' \in Seq(Both)
      BY <3>1, <3>2
    <3>4. UNCHANGED <<accountTxLoading, historyAsked>>
      BY <1>12 DEF MainAccount!Reloaded, MainAccount!TransferFails
    <3>5. QED
      BY <1>2, <3>3, <3>4 DEF PastTyped
  <2>3. FormTyped'
    BY <1>2, <1>12 DEF MainAccount!Reloaded, MainAccount!TransferFails, FormTyped
  <2>4. TransferTyped' /\ ReadsFew'
    BY <1>1, <1>2, <1>12, <2>1, TransferOver DEF MainAccount!Reloaded, MainAccount!TransferFails, MainAccount!Ends
  <2>5. DelayedTyped'
    <3>1. CASE Delayed
      BY <1>3, <3>1
    <3>2. CASE delayed' = [delayed EXCEPT ![<<transfer.from, transfer.to>>] = @ + 1]
      <4>1. PICK f \in Both, t \in Both : f = transfer.from /\ t = transfer.to
        BY <1>2 DEF TransferTyped, Between
      <4>2. delayed \in [Both \X Both -> Nat] /\ delayed[<<f, t>>] + 1 \in Nat
        BY <1>2 DEF DelayedTyped
      <4>3. delayed' = [delayed EXCEPT ![<<f, t>>] = delayed[<<f, t>>] + 1]
        BY <3>2, <4>1, <4>2
      <4>4. QED
        BY <1>2, <4>2, <4>3, DelayedCounted
    <3>3. QED
      BY <1>12, <3>1, <3>2 DEF MainAccount!Reloaded, MainAccount!TransferFails
  <2>6. BankTyped' /\ HookTyped' /\ CredsTyped'
    BY <1>3, <2>1
  <2>7. QED
    BY <2>2, <2>3, <2>4, <2>5, <2>6 DEF AccountTypesInv
<1>13. CASE MainAccount!FetchFullCredentials \/ MainAccount!CredentialsAnswered
  <2>1. Bank /\ Delayed /\ Hook /\ Past /\ Form /\ Transfer /\ UNCHANGED <<reads, transfer, transfers>>
    BY <1>13 DEF MainAccount!FetchFullCredentials, MainAccount!CredentialsAnswered
  <2>2. CredsTyped'
    BY <1>2, <1>13 DEF MainAccount!FetchFullCredentials, MainAccount!CredentialsAnswered, CredsTyped
  <2>3. QED
    BY <1>3, <2>1, <2>2 DEF AccountTypesInv
<1>14. CASE UNCHANGED accountVars
  <2>1. /\ Bank /\ Delayed /\ Hook /\ Past /\ Form /\ Transfer /\ Creds
        /\ UNCHANGED <<reads, transfer, transfers>>
    BY <1>14 DEF accountVars
  <2>2. QED
    BY <1>3, <2>1 DEF AccountTypesInv
<1>15. ASSUME NEW f \in Both, NEW t \in Both, MainAccount!ExecuteDelayed(f, t)
       PROVE  AccountTypesInv'
  <2>1. Hook /\ Past /\ Form /\ Transfer /\ Creds /\ UNCHANGED <<reads, transfer, transfers>>
    BY <1>15 DEF MainAccount!ExecuteDelayed
  <2>2. BankTyped'
    BY <1>2, <1>15, BankMoves DEF MainAccount!ExecuteDelayed, MainAccount!Move
  <2>3. DelayedTyped'
    <3>1. delayed \in [Both \X Both -> Nat] /\ delayed[<<f, t>>] > 0
      BY <1>2, <1>15 DEF DelayedTyped, MainAccount!ExecuteDelayed
    <3>2. delayed[<<f, t>>] - 1 \in Nat
      BY <3>1
    <3>3. delayed' = [delayed EXCEPT ![<<f, t>>] = delayed[<<f, t>>] - 1]
      BY <1>15, <3>1 DEF MainAccount!ExecuteDelayed
    <3>4. QED
      BY <1>2, <3>2, <3>3, DelayedCounted
  <2>4. QED
    BY <1>3, <2>1, <2>2, <2>3 DEF AccountTypesInv
<1>16. QED
  BY <1>1, <1>4, <1>5, <1>6, <1>7, <1>8, <1>9, <1>10, <1>11, <1>12, <1>13, <1>14, <1>15
  DEF MainAccount!Next
==============================================================================
