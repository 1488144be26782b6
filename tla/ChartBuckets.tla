---------------------------- MODULE ChartBuckets ----------------------------
(***************************************************************************)
(* The time part of the Analytics Studio and of the activity feed          *)
(* (lib/neobank/utils.ts): which transactions a range shows, in which      *)
(* bucket of the chart each is counted, and under which heading of the     *)
(* feed it stands.                                                         *)
(*                                                                         *)
(* One transaction is watched while the time goes by, for a year and some  *)
(* days.  Time is counted in half hours from a New Year's midnight; years  *)
(* have 365 days.  The browser's clock may be put forward an hour in       *)
(* spring and back in autumn.                                              *)
(***************************************************************************)
EXTENDS Integers, FiniteSets

CONSTANTS TxTime,          \* when the transaction was made
          Step,            \* time between two renderings
          DaylightSaving   \* the local clock changes twice a year

Range == {"24h", "7d", "30d", "90d", "1y"}
Hour == 2
Day == 24 * Hour
Year == 365 * Day

VARIABLES timeRange, txTime, refDate
vars == <<timeRange, txTime, refDate>>

-----------------------------------------------------------------------------
(* The local clock.                                                        *)

Summer(t) == DaylightSaving /\ (t % Year) \in (67 * Day)..(305 * Day - 1)
Local(t) == t + (IF Summer(t) THEN Hour ELSE 0)
LocalDay(t) == Local(t) \div Day
YearOf(t) == LocalDay(t) \div 365
MonthStart == <<0, 31, 59, 90, 120, 151, 181, 212, 243, 273, 304, 334>>
MonthOfDay(d) == Cardinality({m \in 1..12 : MonthStart[m] <= d % 365})
MonthOf(t) == MonthOfDay(LocalDay(t))

(* setDate: the same time of the clock, some days ago.                     *)
DaysAgo(t, n) ==
    LET wanted == Local(t) - n * Day
    IN  CHOOSE u \in {wanted, wanted - Hour} :
            \/ Local(u) = wanted
            \/ Local(wanted) # wanted /\ Local(wanted - Hour) # wanted

-----------------------------------------------------------------------------
(* The ranges.                                                             *)

GetTimeRangeHours(range) ==
    CASE range = "24h" -> 24
      [] range = "7d" -> 168
      [] range = "30d" -> 720
      [] range = "90d" -> 2160
      [] range = "1y" -> 8760

FilterTransactionsByTimeRange(range, t, now) ==
    t >= now - GetTimeRangeHours(range) * Hour

-----------------------------------------------------------------------------
(* The buckets of each range: 0 is the latest.                             *)

BucketsOf24h(t, now) ==
    {i \in 0..23 : LET centre == now - i * Hour
                   IN  t >= centre - 1 /\ t < centre + 1}

BucketsOf7d(t, now) == {i \in 0..6 : LocalDay(t) = LocalDay(DaysAgo(now, i))}

BucketsOf30d(t, now) ==
    {i \in 0..14 : LET centre == DaysAgo(now, 2 * i)
                   IN  t >= centre - Day /\ t < centre + Day}

BucketsOf90d(t, now) ==
    {i \in 0..11 : LET centre == DaysAgo(now, 7 * i)
                   IN  t >= centre - 84 * Hour /\ t < centre + 84 * Hour}

(* Months, counted through the year.                                       *)
BucketsOf1y(t, now) ==
    {i \in 0..11 : 12 * YearOf(t) + MonthOf(t) = 12 * YearOf(now) + MonthOf(now) - i}

GenerateChartBuckets(range, t, now) ==
    CASE range = "24h" -> BucketsOf24h(t, now)
      [] range = "7d" -> BucketsOf7d(t, now)
      [] range = "30d" -> BucketsOf30d(t, now)
      [] range = "90d" -> BucketsOf90d(t, now)
      [] range = "1y" -> BucketsOf1y(t, now)

(* The chart is made of what the range shows.                              *)
Charted(range, t, now) ==
    IF FilterTransactionsByTimeRange(range, t, now)
    THEN GenerateChartBuckets(range, t, now)
    ELSE {}

(* The points of each chart.                                               *)
Points ==
    [range \in Range |-> CASE range = "24h" -> 24 [] range = "7d" -> 7
                           [] range = "30d" -> 15 [] OTHER -> 12]

TypeOK ==
    /\ timeRange \in Range
    /\ txTime \in TxTime
    /\ refDate \in txTime..(txTime + Year + 4 * Day)
    /\ Charted(timeRange, txTime, refDate) \subseteq 0..(Points[timeRange] - 1)

-----------------------------------------------------------------------------
(* The feed: Today, Yesterday, or the date, without the year if it is this *)
(* year's.                                                                 *)

YearWritten(t, now) == IF YearOf(t) = YearOf(now) THEN -1 ELSE YearOf(t)
Heading(t, now) ==
    CASE LocalDay(t) = LocalDay(now) -> <<"Today">>
      [] LocalDay(t) = LocalDay(DaysAgo(now, 1)) -> <<"Yesterday">>
      [] OTHER -> <<MonthOf(t), LocalDay(t) % 365, YearWritten(t, now)>>

-----------------------------------------------------------------------------
Init ==
    /\ timeRange = "30d"
    /\ txTime \in TxTime
    /\ refDate = txTime

(* The pills.                                                              *)
SetTimeRange ==
    /\ timeRange' \in Range \ {timeRange}
    /\ UNCHANGED <<txTime, refDate>>

(* A poll brings the transactions again: everything is computed anew.      *)
Recompute ==
    /\ refDate + Step <= txTime + Year + 4 * Day
    /\ refDate' = refDate + Step
    /\ UNCHANGED <<timeRange, txTime>>

Next == SetTimeRange \/ Recompute

Spec == Init /\ [][Next]_vars

-----------------------------------------------------------------------------
(* utils.ts:353, "Aggregates transactions into discrete time intervals":   *)
(* no transaction is counted in two of them.                               *)
OneBucket == Cardinality(Charted(timeRange, txTime, refDate)) <= 1

(* The age up to which each chart has no gap between its intervals.        *)
ReachOf(range) ==
    CASE range = "24h" -> 23 * Hour
      [] range = "7d" -> 6 * Day
      [] range = "30d" -> 28 * Day
      [] range = "90d" -> 77 * Day
      [] range = "1y" -> 334 * Day
NoGap ==
    refDate - txTime <= ReachOf(timeRange) => Charted(timeRange, txTime, refDate) # {}

(* While time goes by a transaction moves to older intervals only, and     *)
(* once it has left the chart of a range it does not come back.            *)
OnlyGetsOlder ==
    [][timeRange' = timeRange =>
         \A i \in Charted(timeRange', txTime', refDate') :
             \E j \in Charted(timeRange, txTime, refDate) : j <= i]_vars

(* Two days never stand under one heading of the feed, nor one day under   *)
(* two.                                                                    *)
HeadingsApart ==
    \A k \in 0..((refDate - txTime) \div (Day \div 2)) :
        LET t == txTime + k * (Day \div 2)
        IN  Heading(t, refDate) = Heading(txTime, refDate) <=> LocalDay(t) = LocalDay(txTime)
=============================================================================
