----------------------------- MODULE Analytics -----------------------------
(***************************************************************************)
(* What the read endpoints compute from the transactions of a cell - a     *)
(* payment method in a country - in exact arithmetic: the thresholds of    *)
(* the three insights, ROI and break-even, the trend.                      *)
(*                                                                         *)
(* Transactions come in lots: n transactions of one day, ok of them        *)
(* approved, for price USD each.  Quotients are compared by multiplying    *)
(* out, where the code has float64; days stand for timestamps and 30 days  *)
(* for the calendar month of DATE_TRUNC.                                   *)
(***************************************************************************)
EXTENDS Integers, Sequences, FiniteSets, FiniteSetsExt, Functions

CONSTANT Scale          \* parts of a percent or of a USD that trends round to

Larger(a, b) == IF a >= b THEN a ELSE b

(* math.Round(a / b), b > 0: half away from zero.                          *)
Rounded(a, b) == (a \div b) + (IF 2 * (a % b) >= b THEN 1 ELSE 0)
RoundDiv(a, b) == IF a >= 0 THEN Rounded(a, b) ELSE -Rounded(-a, b)
CeilDiv(a, b) == (a + b - 1) \div b

(* Sums over some of the lots s, and over all.                             *)
CountIn(s, I) == SumFunctionOnSet([i \in DOMAIN s |-> s[i].n], I)
ApprovedIn(s, I) == SumFunctionOnSet([i \in DOMAIN s |-> s[i].ok], I)
TPVIn(s, I) == SumFunctionOnSet([i \in DOMAIN s |-> s[i].ok * s[i].price], I)
AmountIn(s, I) == SumFunctionOnSet([i \in DOMAIN s |-> s[i].n * s[i].price], I)

Count(s) == CountIn(s, DOMAIN s)
ApprovedCount(s) == ApprovedIn(s, DOMAIN s)
TPV(s) == TPVIn(s, DOMAIN s)

(* Mutants: the comparison the other way round; only days that are over.   *)
RecentReversed(s, today) == CountIn(s, {i \in DOMAIN s : s[i].day <= today - 90})
RecentUntilToday(s, today) == CountIn(s, {i \in DOMAIN s : s[i].day \in (today - 90)..(today - 1)})

(* transaction_date >= NOW() - INTERVAL '90 days'.                         *)
Recent(s, today) == CountIn(s, {i \in DOMAIN s : s[i].day >= today - 90})

(* MAX - MIN of transaction_date; months_in_range and the divisor of       *)
(* monthly_avg are at least one month.                                     *)
Days(s) == IF s = <<>> THEN 0
           ELSE LET D == {s[i].day : i \in DOMAIN s} IN Max(D) - Min(D)
Span(days) == Larger(days, 30)

-----------------------------------------------------------------------------
(* Zombies. *)

(* months_active::int rounds, so that 75 days are 3 months.                *)
MonthsActive(days) == (days + 15) \div 30
Established(days) == MonthsActive(days) >= 3

(* Less than pct percent of what three average months bring.               *)
Below(pct, recent, count, days) == 100 * recent * Span(days) < 90 * pct * count

(* Mutant: established methods are not compared with a minimum.            *)
IsZombieNoFloor(recent, count, days) ==
    IF Established(days) THEN Below(10, recent, count, days) ELSE recent < 5

IsZombie(recent, count, days) ==
    IF Established(days) THEN recent < 10 \/ Below(10, recent, count, days) ELSE recent < 5

ZombieSeverity(recent, count, days) ==
    IF recent = 0 \/ Below(10, recent, count, days) THEN "HIGH"
    ELSE IF Below(30, recent, count, days) THEN "MEDIUM" ELSE "LOW"

(* activity_status of the metrics.                                         *)
ActivityStatus(recent) == CASE recent >= 10 -> "ACTIVE"
                            [] recent \in 1..9 -> "LOW_ACTIVITY"
                            [] recent = 0 -> "INACTIVE"

-----------------------------------------------------------------------------
(* Hidden gems and performance alerts. *)

(* At least 90 % approved, 2 % of all revenue, and a share of the volume   *)
(* below three quarters of the share of the revenue.                       *)
IsGem(ok, count, tpv, allTPV, allCount) ==
    /\ 100 * ok >= 90 * count
    /\ allTPV > 0 /\ 100 * tpv >= 2 * allTPV
    /\ 4 * count * allTPV < 3 * tpv * allCount

GemSeverity(tpv, allTPV) == IF 100 * tpv > 8 * allTPV THEN "HIGH"
                            ELSE IF 100 * tpv > 4 * allTPV THEN "MEDIUM" ELSE "LOW"

(* The rates of the lots in P[c], c a peer: their average exceeds that of  *)
(* c by more than points percentage points.  Each peer counts once,        *)
(* however many transactions it has.                                       *)
RateBelowPeers(P, c, points) ==
    LET whole == FoldFunction(LAMBDA a, b : a * b, 1, [p \in DOMAIN P |-> Count(P[p])])
        rate == [p \in DOMAIN P |-> 100 * ApprovedCount(P[p]) * (whole \div Count(P[p]))]
        peers == Cardinality(DOMAIN P)
    IN  SumFunction(rate) - peers * rate[c] > points * peers * whole

(* Mutant: one percentage point is enough.                                 *)
IsAlertAnyGap(P, c) == Count(P[c]) >= 20 /\ RateBelowPeers(P, c, 1)

IsAlert(P, c) == Count(P[c]) >= 20 /\ RateBelowPeers(P, c, 10)

AlertSeverity(P, c) == IF RateBelowPeers(P, c, 15) THEN "HIGH" ELSE "MEDIUM"

-----------------------------------------------------------------------------
(* ROI.  A cost is [fixed, perTxn, fee]: USD a month, cents a transaction, *)
(* percent of the TPV; results are in cents.                               *)

TotalCost(s, cost) ==
    RoundDiv(100 * Span(Days(s)) * cost.fixed + 30 * Count(s) * cost.perTxn + 30 * TPV(s) * cost.fee, 30)

(* Hundredths of a percent.  Without cost the code has nil.                *)
ROIPct(s, cost) == RoundDiv(10000 * (100 * TPV(s) - TotalCost(s, cost)), TotalCost(s, cost))

Recommendation(s, cost) ==
    IF TotalCost(s, cost) = 0 THEN "UNPROFITABLE"
    ELSE LET pct == ROIPct(s, cost)
         IN  CASE pct > 50000 -> "HIGHLY_PROFITABLE"
               [] 10000 < pct /\ pct <= 50000 -> "PROFITABLE"
               [] 0 < pct /\ pct <= 10000 -> "MARGINAL"
               [] pct <= 0 -> "UNPROFITABLE"

(* What all approved transactions earn beyond their variable costs.        *)
Margin(s, cost) == 100 * TPV(s) - ApprovedCount(s) * cost.perTxn - TPV(s) * cost.fee

BreaksEven(s, cost) == (cost.perTxn > 0 \/ cost.fee > 0) /\ ApprovedCount(s) > 0 /\ Margin(s, cost) > 0

(* Mutant: the fixed costs of one month.                                   *)
BreakEvenOneMonth(s, cost) ==
    IF BreaksEven(s, cost)
    THEN CeilDiv(100 * cost.fixed * ApprovedCount(s), Margin(s, cost)) ELSE 0

BreakEven(s, cost) ==
    IF BreaksEven(s, cost)
    THEN CeilDiv(100 * Span(Days(s)) * cost.fixed * ApprovedCount(s), 30 * Margin(s, cost)) ELSE 0

-----------------------------------------------------------------------------
(* Trends by month. *)

Month(day) == day \div 30

(* Months with transactions, from periods months before this one on; a     *)
(* month without any has no bucket.                                        *)
Months(s, today, periods) ==
    {Month(s[i].day) : i \in {j \in DOMAIN s : Month(s[j].day) >= Month(today) - periods}}

InOrder(S) == [i \in 1..Cardinality(S) |-> CHOOSE m \in S : Cardinality({k \in S : k < m}) = i - 1]

Bucket(s, month) == {i \in DOMAIN s : Month(s[i].day) = month}

(* Of a bucket; rates and averages are rounded to, and counted in, parts   *)
(* of Scale: hundredths in the code.                                       *)
Value(s, I, metric) ==
    CASE metric = "tpv_usd" -> TPVIn(s, I)
      [] metric = "transaction_count" -> CountIn(s, I)
      [] metric = "approval_rate" -> RoundDiv(Scale * 100 * ApprovedIn(s, I), CountIn(s, I))
      [] metric = "avg_transaction_value" -> RoundDiv(Scale * AmountIn(s, I), CountIn(s, I))

Values(s, today, periods, metric) ==
    LET months == InOrder(Months(s, today, periods))
    IN  [i \in DOMAIN months |-> Value(s, Bucket(s, months[i]), metric)]

(* A change of less than one percent, or from zero, is none.               *)
Direction(v, i) ==
    LET change == v[i] - v[i - 1]
    IN  IF v[i - 1] = 0 \/ RoundDiv(10000 * change, v[i - 1]) \in -99..99 THEN "FLAT"
        ELSE IF change > 0 THEN "UP" ELSE "DOWN"

(* linearRegression of v over 0 .. n - 1, n > 1: the slope is Slope(v) /   *)
(* Spread(v), the intercept Intercept(v) / (n * Spread(v)).                *)
X(i) == i - 1
SumX(v) == SumFunction([i \in DOMAIN v |-> X(i)])
SumY(v) == SumFunction(v)
SumXX(v) == SumFunction([i \in DOMAIN v |-> X(i) * X(i)])
SumXY(v) == SumFunction([i \in DOMAIN v |-> X(i) * v[i]])
Spread(v) == Len(v) * SumXX(v) - SumX(v) * SumX(v)
Slope(v) == Len(v) * SumXY(v) - SumX(v) * SumY(v)

(* Mutant: the intercept is the mean.                                      *)
InterceptMean(v) == SumY(v) * Spread(v)

Intercept(v) == SumY(v) * Spread(v) - Slope(v) * SumX(v)

Square(n) == n * n

(* ssRes and ssTot, both times (n * Spread(v)) ^ 2.                        *)
SSRes(v) ==
    LET n == Len(v)  spread == Spread(v)  slope == Slope(v)  intercept == Intercept(v)
    IN  SumFunction([i \in DOMAIN v |-> Square(n * spread * v[i] - n * slope * X(i) - intercept)])
SSTot(v) ==
    LET n == Len(v)  spread == Spread(v)  total == SumY(v)
    IN  SumFunction([i \in DOMAIN v |-> Square(spread * (n * v[i] - total))])

(* R squared is at least one half; it is 1 if all values are the same.     *)
Fits(v) == SSTot(v) = 0 \/ 2 * SSRes(v) <= SSTot(v)

OverallTrend(v) == IF Len(v) < 2 \/ ~Fits(v) THEN "VOLATILE"
                   ELSE IF Slope(v) > 0 THEN "GROWING" ELSE "DECLINING"
=============================================================================
