-------------------------- MODULE PortfolioProofs --------------------------
(***************************************************************************)
(* Theorems about Analytics and Portfolio, for any cells, peers, costs and *)
(* lots, days and steps: zombies, statuses, gems and alerts, ROI, trends.  *)
(* What a sum over lots or points is comes from SumTheorems.               *)
(***************************************************************************)
EXTENDS Portfolio, SumTheorems

(***************************************************************************)
(* Fewer transactions in the last 90 days, with the same history: a zombie *)
(* stays one, and is as severe or more.                                    *)
(***************************************************************************)
THEOREM FewerIsWorse ==
    ASSUME NEW recent \in Nat, NEW fewer \in 0..recent, NEW count \in Nat, NEW days \in Nat,
           IsZombie(recent, count, days)
    PROVE  /\ IsZombie(fewer, count, days)
           /\ Rank[ZombieSeverity(recent, count, days)] <= Rank[ZombieSeverity(fewer, count, days)]
<1> DEFINE S == Span(days)
<1>1. S \in Nat /\ S >= 30
  BY DEF Span, Larger
<1>2. 100 * fewer * S <= 100 * recent * S
  BY <1>1
<1>3. \A pct \in {10, 30} : Below(pct, recent, count, days) => Below(pct, fewer, count, days)
  BY <1>1, <1>2 DEF Below
<1>4. IsZombie(fewer, count, days)
  BY <1>3 DEF IsZombie
<1>5. recent = 0 => fewer = 0
  OBVIOUS
<1>6. Rank["LOW"] = 1 /\ Rank["MEDIUM"] = 2 /\ Rank["HIGH"] = 3
  BY DEF Rank
<1>7. CASE fewer = 0 \/ Below(10, fewer, count, days)
  <2>1. ZombieSeverity(fewer, count, days) = "HIGH"
    BY <1>7 DEF ZombieSeverity
  <2>2. ZombieSeverity(recent, count, days) \in {"LOW", "MEDIUM", "HIGH"}
    BY DEF ZombieSeverity
  <2> QED
    BY <1>4, <1>6, <2>1, <2>2
<1>8. CASE ~(fewer = 0 \/ Below(10, fewer, count, days))
  <2>1. ~(recent = 0 \/ Below(10, recent, count, days))
    BY <1>3, <1>5, <1>8
  <2>2. ZombieSeverity(recent, count, days) = IF Below(30, recent, count, days) THEN "MEDIUM" ELSE "LOW"
    BY <2>1 DEF ZombieSeverity
  <2>3. ZombieSeverity(fewer, count, days) = IF Below(30, fewer, count, days) THEN "MEDIUM" ELSE "LOW"
    BY <1>8 DEF ZombieSeverity
  <2> QED
    BY <1>3, <1>4, <1>6, <2>2, <2>3
<1> QED
  BY <1>7, <1>8

(***************************************************************************)
(* n more transactions, all of them of the last 90 days, make no zombie of *)
(* a method, whatever they add to its history - unless they establish it.  *)
(***************************************************************************)
THEOREM MoreIsBetter ==
    ASSUME NEW count \in Nat, NEW recent \in 0..count, NEW n \in Nat,
           NEW days \in Nat, NEW longer \in Nat, days <= longer,
           Established(days) <=> Established(longer),
           ~IsZombie(recent, count, days)
    PROVE  ~IsZombie(recent + n, count + n, longer)
<1> DEFINE S == Span(days)
           T == Span(longer)
<1>1. S \in Nat /\ T \in Nat /\ 30 <= S /\ S <= T
  BY DEF Span, Larger
<1>2. CASE ~Established(days)
  BY <1>2 DEF IsZombie
<1>3. CASE Established(days)
  <2>1. recent >= 10 /\ ~(100 * recent * S < 900 * count)
    BY <1>3 DEF IsZombie, Below
  <2>2. (recent + n) * T = recent * T + n * T
    BY <1>1
  <2>3. recent * S <= recent * T /\ n * 30 <= n * T
    BY <1>1
  <2>4. recent * S >= 9 * count
    <3>1. recent * S \in Nat
      BY <1>1
    <3>2. 100 * recent * S = 100 * (recent * S)
      BY <1>1
    <3> QED
      BY <2>1, <3>1, <3>2
  <2>5. (recent + n) * T >= 9 * (count + n)
    <3>1. recent * T \in Nat /\ n * T \in Nat /\ recent * S \in Nat
      BY <1>1
    <3> HIDE DEF S, T
    <3> QED
      BY <2>2, <2>3, <2>4, <3>1
  <2>6. ~(100 * (recent + n) * T < 900 * (count + n))
    <3>1. (recent + n) * T \in Nat
      BY <1>1
    <3>2. 100 * (recent + n) * T = 100 * ((recent + n) * T)
      BY <1>1
    <3> QED
      BY <2>5, <3>1, <3>2
  <2> QED
    BY <1>3, <2>1, <2>6 DEF IsZombie, Below
<1> QED
  BY <1>2, <1>3

-----------------------------------------------------------------------------
(***************************************************************************)
(* A finite set of days has a first and a last one.                        *)
(***************************************************************************)
LEMMA Extremes ==
    ASSUME NEW D \in SUBSET Int, IsFiniteSet(D), D # {}
    PROVE  /\ Max(D) \in D /\ \A d \in D : d <= Max(D)
           /\ Min(D) \in D /\ \A d \in D : Min(D) <= d
<1> DEFINE T == {U \in SUBSET D : U = {} \/ ((\E x \in U : \A y \in U : x >= y) /\ (\E x \in U : \A y \in U : x <= y))}
<1>1. {} \in T
  OBVIOUS
<1>2. ASSUME NEW U \in SUBSET D, NEW z \in D, U \in T, z \notin U PROVE U \cup {z} \in T
  <2>1. CASE U = {}
    BY <2>1
  <2>2. CASE U # {}
    <3>1. PICK x \in U : \A y \in U : x >= y
      BY <1>2, <2>2
    <3>2. PICK w \in U : \A y \in U : w <= y
      BY <1>2, <2>2
    <3>3. \E v \in U \cup {z} : \A y \in U \cup {z} : v >= y
      BY <3>1
    <3>4. \E v \in U \cup {z} : \A y \in U \cup {z} : v <= y
      BY <3>2
    <3> QED
      BY <3>3, <3>4
  <2> QED
    BY <2>1, <2>2
<1> HIDE DEF T
<1>3. D \in T
  BY <1>1, <1>2, SubsetInduction
<1>4. (\E x \in D : \A y \in D : x >= y) /\ (\E x \in D : \A y \in D : x <= y)
  BY <1>3 DEF T
<1>5. Max(D) \in D /\ \A y \in D : Max(D) >= y
  BY <1>4 DEF Max
<1>6. Min(D) \in D /\ \A y \in D : Min(D) <= y
  BY <1>4 DEF Min
<1> QED
  BY <1>5, <1>6

(***************************************************************************)
(* A history that sold nothing or something, and what one more lot adds.   *)
(* No lot has more approved transactions than transactions.                *)
(***************************************************************************)
History == {s \in Seq(Lot) : \A i \in DOMAIN s : s[i].ok <= s[i].n}

LEMMA LotsOf ==
    ASSUME NEW s \in History
    PROVE  /\ IsFiniteSet(DOMAIN s)
           /\ \A i \in DOMAIN s : /\ s[i].n \in Nat \ {0} /\ s[i].ok \in Nat /\ s[i].price \in Nat
                                  /\ s[i].day \in Int /\ s[i].ok <= s[i].n
                                  /\ s[i].ok * s[i].price \in Nat /\ s[i].n * s[i].price \in Nat
<1>1. DOMAIN s = 1..Len(s) /\ Len(s) \in Nat
  BY DEF History
<1>2. \A i \in DOMAIN s : s[i] \in Lot
  BY DEF History
<1>3. IsFiniteSet(DOMAIN s)
  BY <1>1, FS_Interval
<1>4. \A i \in DOMAIN s : /\ s[i].n \in Nat \ {0} /\ s[i].ok \in Nat /\ s[i].price \in Nat
                          /\ s[i].day \in Int /\ s[i].ok <= s[i].n
  BY <1>2 DEF Lot, History
<1> QED
  BY <1>3, <1>4

LEMMA SumsTyped ==
    ASSUME NEW s \in History, NEW I \in SUBSET (DOMAIN s)
    PROVE  /\ CountIn(s, I) \in Nat /\ ApprovedIn(s, I) \in Nat
           /\ TPVIn(s, I) \in Nat /\ AmountIn(s, I) \in Nat
           /\ ApprovedIn(s, I) <= CountIn(s, I)
           /\ CountIn(s, I) <= Count(s)
           /\ I # {} => CountIn(s, I) > 0
<1> USE LotsOf
<1>1. IsFiniteSet(I)
  BY FS_Subset
<1>2. CountIn(s, I) \in Nat
  BY <1>1, SumNat DEF CountIn
<1>3. ApprovedIn(s, I) \in Nat
  BY <1>1, SumNat DEF ApprovedIn
<1>4. TPVIn(s, I) \in Nat
  BY <1>1, SumNat DEF TPVIn
<1>5. AmountIn(s, I) \in Nat
  BY <1>1, SumNat DEF AmountIn
<1>6. ApprovedIn(s, I) <= CountIn(s, I)
  BY <1>1, SumMonotone DEF ApprovedIn, CountIn
<1>7. CountIn(s, I) <= Count(s)
  BY SumSubset DEF Count, CountIn
<1>8. ASSUME NEW i \in I PROVE CountIn(s, I) > 0
  <2>1. CountIn(s, I) = s[i].n + SumFunctionOnSet([j \in DOMAIN s |-> s[j].n], I \ {i})
    BY <1>1, SumRemove DEF CountIn
  <2>2. SumFunctionOnSet([j \in DOMAIN s |-> s[j].n], I \ {i}) \in Nat
    BY <1>1, FS_Subset, SumNat
  <2> QED
    BY <2>1, <2>2
<1> QED
  BY <1>2, <1>3, <1>4, <1>5, <1>6, <1>7, <1>8

LEMMA DatesOf ==
    ASSUME NEW s \in History
    PROVE  LET D == {s[i].day : i \in DOMAIN s}
           IN  D \in SUBSET Int /\ IsFiniteSet(D) /\ (s # <<>> => D # {})
<1> DEFINE date == [i \in DOMAIN s |-> s[i].day]
<1>1. {s[i].day : i \in DOMAIN s} = {date[i] : i \in DOMAIN s}
  OBVIOUS
<1>2. IsFiniteSet({date[i] : i \in DOMAIN s})
  <2>1. date \in Surjection(DOMAIN s, {date[i] : i \in DOMAIN s})
    BY DEF Surjection
  <2> HIDE DEF date
  <2> QED
    BY <2>1, LotsOf, FS_Surjection
<1>3. s # <<>> => 1 \in DOMAIN s
  BY DEF History
<1> QED
  BY <1>1, <1>2, <1>3, LotsOf

LEMMA DaysTyped ==
    ASSUME NEW s \in History
    PROVE  /\ Days(s) \in Nat
           /\ \A i, j \in DOMAIN s : s[i].day - s[j].day <= Days(s)
<1> DEFINE D == {s[i].day : i \in DOMAIN s}
<1>1. CASE s = <<>>
  BY <1>1 DEF Days
<1>2. CASE s # <<>>
  <2>1. D \in SUBSET Int /\ IsFiniteSet(D) /\ D # {}
    BY <1>2, DatesOf
  <2>3. Days(s) = Max(D) - Min(D)
    BY <1>2 DEF Days
  <2>4. \A i \in DOMAIN s : s[i].day \in D
    OBVIOUS
  <2> HIDE DEF D
  <2>5. /\ Max(D) \in Int /\ Min(D) \in Int /\ Min(D) <= Max(D)
        /\ \A d \in D : d \in Int /\ d <= Max(D) /\ Min(D) <= d
    BY <2>1, Extremes
  <2> QED
    BY <2>3, <2>4, <2>5
<1> QED
  BY <1>1, <1>2

LEMMA Longer ==
    ASSUME NEW s \in History, NEW t \in History, DOMAIN s \subseteq DOMAIN t,
           \A i \in DOMAIN s : t[i] = s[i]
    PROVE  Days(s) <= Days(t)
<1> DEFINE D == {s[i].day : i \in DOMAIN s}
<1>1. CASE s = <<>>
  BY <1>1, DaysTyped DEF Days
<1>2. CASE s # <<>>
  <2>1. D \in SUBSET Int /\ IsFiniteSet(D) /\ D # {}
    BY <1>2, DatesOf
  <2>3. Days(s) = Max(D) - Min(D)
    BY <1>2 DEF Days
  <2>4. PICK i \in DOMAIN s, j \in DOMAIN s : s[i].day = Max(D) /\ s[j].day = Min(D)
    <3> HIDE DEF D
    <3>1. Max(D) \in D /\ Min(D) \in D
      BY <2>1, Extremes
    <3> QED
      BY <3>1 DEF D
  <2>5. t[i].day - t[j].day <= Days(t)
    BY DaysTyped
  <2> QED
    BY <2>3, <2>4, <2>5
<1> QED
  BY <1>1, <1>2

LEMMA Appended ==
    ASSUME NEW s \in History, NEW l \in Lot, l.ok <= l.n, NEW day \in Int
    PROVE  LET t == Append(s, l)
           IN  /\ t \in History
               /\ Count(t) = Count(s) + l.n
               /\ Recent(t, day) = Recent(s, day) + (IF l.day >= day - 90 THEN l.n ELSE 0)
               /\ Days(s) <= Days(t)
<1> DEFINE t == Append(s, l)
           k == Len(s) + 1
           f == [i \in DOMAIN t |-> t[i].n]
           g == [i \in DOMAIN s |-> s[i].n]
           I == {i \in DOMAIN s : s[i].day >= day - 90}
           J == {i \in DOMAIN t : t[i].day >= day - 90}
<1>1. /\ Len(s) \in Nat /\ DOMAIN s = 1..Len(s) /\ DOMAIN t = DOMAIN s \cup {k} /\ k \notin DOMAIN s
      /\ t \in Seq(Lot) /\ t[k] = l /\ \A i \in DOMAIN s : t[i] = s[i]
  BY DEF History
<1> HIDE DEF k
<1>2. t \in History
  BY <1>1 DEF History
<1> HIDE DEF t
<1>3. /\ \A i \in DOMAIN t : f[i] \in Int
      /\ \A i \in DOMAIN s : g[i] \in Int /\ f[i] = g[i]
      /\ f[k] = l.n /\ l.n \in Nat
  BY <1>1, <1>2, LotsOf DEF Lot
<1> HIDE DEF f, g
<1>4. ASSUME NEW U \in SUBSET (DOMAIN s)
      PROVE  /\ SumFunctionOnSet(f, U) = SumFunctionOnSet(g, U)
             /\ SumFunctionOnSet(f, U \cup {k}) = l.n + SumFunctionOnSet(g, U)
  <2>1. IsFiniteSet(U)
    BY LotsOf, FS_Subset
  <2>2. SumFunctionOnSet(f, U) = SumFunctionOnSet(g, U)
    BY <1>3, <2>1, SumEqual
  <2>3. k \notin U /\ \A x \in U \cup {k} : f[x] \in Int
    BY <1>1, <1>3
  <2>4. SumFunctionOnSet(f, U \cup {k}) = f[k] + SumFunctionOnSet(f, U)
    BY <2>1, <2>3, SumAdd
  <2> QED
    BY <1>3, <2>2, <2>4
<1>5. Count(t) = SumFunctionOnSet(f, DOMAIN t) /\ Count(s) = SumFunctionOnSet(g, DOMAIN s)
  BY DEF Count, CountIn, f, g
<1>6. Recent(t, day) = SumFunctionOnSet(f, J) /\ Recent(s, day) = SumFunctionOnSet(g, I)
  BY DEF Recent, CountIn, f, g
<1>7. Count(s) \in Nat /\ Recent(s, day) \in Nat
  BY SumsTyped DEF Count, Recent
<1>8. Count(t) = Count(s) + l.n
  <2>1. SumFunctionOnSet(f, DOMAIN s \cup {k}) = l.n + SumFunctionOnSet(g, DOMAIN s)
    BY <1>4
  <2> QED
    BY <1>1, <1>3, <1>5, <1>7, <2>1
<1>9. J = IF l.day >= day - 90 THEN I \cup {k} ELSE I
  BY <1>1
<1> HIDE DEF J
<1>10. Recent(t, day) = Recent(s, day) + (IF l.day >= day - 90 THEN l.n ELSE 0)
  <2>1. I \in SUBSET (DOMAIN s)
    OBVIOUS
  <2> HIDE DEF I
  <2>2. /\ SumFunctionOnSet(f, I) = SumFunctionOnSet(g, I)
        /\ SumFunctionOnSet(f, I \cup {k}) = l.n + SumFunctionOnSet(g, I)
    BY <1>4, <2>1
  <2>3. CASE l.day >= day - 90
    BY <1>3, <1>6, <1>7, <1>9, <2>2, <2>3
  <2>4. CASE ~(l.day >= day - 90)
    BY <1>3, <1>6, <1>7, <1>9, <2>2, <2>4
  <2> QED
    BY <2>3, <2>4
<1>11. Days(s) <= Days(t)
  BY <1>1, <1>2, Longer
<1> QED
  BY <1>2, <1>8, <1>10, <1>11 DEF t

(***************************************************************************)
(* The activity status of the metrics and the zombies tell one story.      *)
(***************************************************************************)
LEMMA OneStory ==
    ASSUME \A c \in Cells : /\ Recent(sold[c], today) \in Nat
                            /\ Count(sold[c]) \in Nat /\ Days(sold[c]) \in Nat
    PROVE  StatusesAgree
<1> SUFFICES ASSUME NEW c \in DOMAIN Costs \cap Selling
             PROVE  LET status == ActivityStatus(Recent(sold[c], today))
                    IN  /\ Established(Days(sold[c])) /\ status # "ACTIVE" => c \in DOMAIN Zombies
                        /\ status = "INACTIVE" => Zombies[c] = "HIGH"
                        /\ status = "ACTIVE" /\ c \in DOMAIN Zombies => Zombies[c] = "HIGH"
  BY DEF StatusesAgree
<1> DEFINE r == Recent(sold[c], today)
           n == Count(sold[c])
           d == Days(sold[c])
<1>1. c \in Cells /\ c \in DOMAIN Costs \cap Filter
  BY PortfolioAssumption DEF PortfolioAssumption, Selling
<1>2. r \in Nat /\ n \in Nat /\ d \in Nat
  BY <1>1
<1>3. /\ c \in DOMAIN Zombies <=> IsZombie(r, n, d)
      /\ c \in DOMAIN Zombies => Zombies[c] = ZombieSeverity(r, n, d)
  BY <1>1 DEF Zombies, Zombie
<1> HIDE DEF r, n, d
<1>4. /\ ActivityStatus(r) = "ACTIVE" <=> r >= 10
      /\ ActivityStatus(r) = "INACTIVE" <=> r = 0
  BY <1>2 DEF ActivityStatus
<1>5. r = 0 => IsZombie(r, n, d) /\ ZombieSeverity(r, n, d) = "HIGH"
  BY DEF IsZombie, ZombieSeverity
<1>6. r < 10 /\ Established(d) => IsZombie(r, n, d)
  BY DEF IsZombie
<1>7. r >= 10 /\ IsZombie(r, n, d) => ZombieSeverity(r, n, d) = "HIGH"
  BY <1>2 DEF IsZombie, ZombieSeverity
<1> QED
  BY <1>2, <1>3, <1>4, <1>5, <1>6, <1>7 DEF r, n, d

-----------------------------------------------------------------------------
(***************************************************************************)
(* The variables of Portfolio have their types: zombies are methods with   *)
(* an integration, every insight is about a method asked for.              *)
(***************************************************************************)
LEMMA ListingsTyped ==
    /\ IsListing(Zombies, DOMAIN Costs \cap Filter)
    /\ IsListing(Gems, Filter)
    /\ IsListing(Alerts, Filter)
<1>1. \A recent, count, days : ZombieSeverity(recent, count, days) \in Severities
  BY DEF ZombieSeverity, Severities
<1>2. \A tpv, all : GemSeverity(tpv, all) \in Severities
  BY DEF GemSeverity, Severities
<1>3. \A P, c : AlertSeverity(P, c) \in Severities
  BY DEF AlertSeverity, Severities
<1>4. Selling \subseteq Filter
  BY DEF Selling
<1>5. IsListing(Zombies, DOMAIN Costs \cap Filter)
  BY <1>1 DEF IsListing, Zombies, Range
<1>6. IsListing(Gems, Filter)
  BY <1>2, <1>4 DEF IsListing, Gems, Range
<1>7. IsListing(Alerts, Filter)
  BY <1>3, <1>4 DEF IsListing, Alerts, Range
<1> QED
  BY <1>5, <1>6, <1>7

LEMMA NothingListed == \A S : IsListing(<<>>, S)
  BY DEF IsListing, Range

LEMMA MeanwhileTyped ==
    ASSUME TypeOK, NEW C \in SUBSET Cells, Meanwhile(C)
    PROVE  /\ touched' \subseteq Cells /\ pending' \subseteq Detectors
           /\ IsListing(zombies', DOMAIN Costs \cap Filter)
           /\ IsListing(gems', Filter) /\ IsListing(alerts', Filter)
  BY NothingListed DEF TypeOK, Meanwhile, answer

LEMMA PostedLot ==
    ASSUME TypeOK, NEW c \in Cells, NEW lot \in Lots, NEW back \in Back, Post(c, lot, back)
    PROVE  \E new \in Lot : /\ new.ok <= new.n
                            /\ sold' = [sold EXCEPT ![c] = Append(sold[c], new)]
<1> DEFINE new == [n |-> lot.n, ok |-> lot.ok, price |-> lot.price, day |-> today - back]
<1>1. new \in Lot /\ new.ok <= new.n
  BY PortfolioAssumption DEF PortfolioAssumption, TypeOK, Lot
<1>2. sold' = [sold EXCEPT ![c] = Append(sold[c], new)]
  BY DEF Post
<1> QED
  BY <1>1, <1>2

THEOREM TypeInvariant == Spec => []TypeOK
<1> USE PortfolioAssumption DEF PortfolioAssumption
<1>1. Init => TypeOK
  <2> SUFFICES ASSUME Init PROVE TypeOK
    OBVIOUS
  <2>1. sold \in [Cells -> Seq(Lot)]
    BY DEF Init
  <2>2. today \in 0..MaxToday /\ posted \in 0..MaxPosts
    BY DEF Init
  <2>3. touched \subseteq Cells /\ pending \subseteq Detectors
    BY DEF Init
  <2>4. zombies = <<>> /\ gems = <<>> /\ alerts = <<>>
    BY DEF Init
  <2>5. /\ IsListing(zombies, DOMAIN Costs \cap Filter)
        /\ IsListing(gems, Filter) /\ IsListing(alerts, Filter)
    BY <2>4, NothingListed
  <2> QED
    BY <2>1, <2>2, <2>3, <2>5 DEF TypeOK
<1>2. TypeOK /\ [Next]_vars => TypeOK'
  <2> SUFFICES ASSUME TypeOK, [Next]_vars PROVE TypeOK'
    OBVIOUS
  <2>1. ASSUME NEW c \in Cells, NEW lot \in Lots, NEW back \in Back, Post(c, lot, back) PROVE TypeOK'
    <3>1. PICK new \in Lot : sold' = [sold EXCEPT ![c] = Append(sold[c], new)]
      BY <2>1, PostedLot
    <3>2. sold[c] \in Seq(Lot)
      BY DEF TypeOK
    <3>3. Append(sold[c], new) \in Seq(Lot)
      BY <3>2
    <3>4. sold' \in [Cells -> Seq(Lot)]
      BY <3>1, <3>3 DEF TypeOK
    <3>5. posted' \in 0..MaxPosts /\ today' \in 0..MaxToday
      BY <2>1 DEF Post, TypeOK
    <3>6. Meanwhile({c}) /\ {c} \in SUBSET Cells
      BY <2>1 DEF Post
    <3> QED
      BY <3>4, <3>5, <3>6, MeanwhileTyped DEF TypeOK
  <2>2. CASE Tick
    <3>1. today' \in 0..MaxToday
      BY <2>2 DEF Tick, TypeOK
    <3>2. Meanwhile({}) /\ {} \in SUBSET Cells
      BY <2>2 DEF Tick
    <3> QED
      BY <2>2, <3>1, <3>2, MeanwhileTyped DEF Tick, TypeOK
  <2>3. CASE Ask
    BY <2>3, NothingListed DEF Ask, TypeOK
  <2>4. CASE DetectZombies
    BY <2>4, ListingsTyped DEF DetectZombies, Detect, TypeOK
  <2>5. CASE DetectHiddenGems
    BY <2>5, ListingsTyped DEF DetectHiddenGems, Detect, TypeOK
  <2>6. CASE DetectPerformanceAlerts
    BY <2>6, ListingsTyped DEF DetectPerformanceAlerts, Detect, TypeOK
  <2>7. CASE UNCHANGED vars
    BY <2>7 DEF vars, answer, TypeOK
  <2> QED
    BY <2>1, <2>2, <2>3, <2>4, <2>5, <2>6, <2>7 DEF Next
<1> QED
  BY <1>1, <1>2, PTL DEF Spec

(***************************************************************************)
(* Every transaction that is approved was made: the lots of every cell are *)
(* a history.                                                              *)
(***************************************************************************)
LotsSound == sold \in [Cells -> History]
HistoryInv == TypeOK /\ LotsSound

(* So they are in every state that can be reached.                         *)
LEMMA HistoryInvariant == Spec => []HistoryInv
<1> USE PortfolioAssumption DEF PortfolioAssumption
<1>1. Init => LotsSound
  <2> SUFFICES ASSUME Init, NEW c \in Cells PROVE sold[c] \in History
    BY DEF Init, LotsSound
  <2>1. sold \in Histories
    BY DEF Init
  <2> QED
    BY <2>1 DEF History
<1>2. TypeOK /\ LotsSound /\ [Next]_vars => LotsSound'
  <2> SUFFICES ASSUME TypeOK, sold \in [Cells -> History], [Next]_vars
               PROVE  sold' \in [Cells -> History]
    BY DEF LotsSound
  <2>1. ASSUME NEW c \in Cells, NEW lot \in Lots, NEW back \in Back, Post(c, lot, back)
        PROVE  sold' \in [Cells -> History]
    <3>1. PICK new \in Lot : /\ new.ok <= new.n
                             /\ sold' = [sold EXCEPT ![c] = Append(sold[c], new)]
      BY <2>1, PostedLot
    <3>2. Append(sold[c], new) \in History
      BY <3>1, Appended
    <3> QED
      BY <3>1, <3>2
  <2>2. CASE UNCHANGED sold
    BY <2>2
  <2> QED
    BY <2>1, <2>2 DEF Next, Tick, Ask, DetectZombies, DetectHiddenGems, DetectPerformanceAlerts, vars
<1> QED
  BY <1>1, <1>2, TypeInvariant, PTL DEF Spec, HistoryInv

(***************************************************************************)
(* The zombies and the activity status of the metrics agree in every state *)
(* that can be reached.                                                    *)
(***************************************************************************)
THEOREM StatusesAgreeInvariant == Spec => []StatusesAgree
<1>1. HistoryInv => StatusesAgree
  <2> SUFFICES ASSUME HistoryInv
               PROVE  \A c \in Cells : /\ Recent(sold[c], today) \in Nat
                                       /\ Count(sold[c]) \in Nat /\ Days(sold[c]) \in Nat
    BY OneStory
  <2> QED
    BY SumsTyped, DaysTyped DEF HistoryInv, LotsSound, Recent, Count
<1> QED
  BY <1>1, HistoryInvariant, PTL

LEMMA LaterIsWorse ==
    ASSUME NEW s \in History, NEW day \in Int, NEW later \in Int, day <= later,
           IsZombie(Recent(s, day), Count(s), Days(s))
    PROVE  /\ IsZombie(Recent(s, later), Count(s), Days(s))
           /\ Rank[ZombieSeverity(Recent(s, day), Count(s), Days(s))]
                <= Rank[ZombieSeverity(Recent(s, later), Count(s), Days(s))]
<1> DEFINE I == {i \in DOMAIN s : s[i].day >= day - 90}
           J == {i \in DOMAIN s : s[i].day >= later - 90}
<1>1. J \in SUBSET I /\ I \in SUBSET (DOMAIN s)
  BY LotsOf
<1>2. CountIn(s, J) <= CountIn(s, I)
  <2>1. IsFiniteSet(I)
    BY <1>1, LotsOf, FS_Subset
  <2>2. \A i \in I : [j \in DOMAIN s |-> s[j].n][i] \in Nat
    BY LotsOf
  <2> HIDE DEF I, J
  <2> QED
    BY <1>1, <2>1, <2>2, SumSubset DEF CountIn
<1>3. CountIn(s, I) \in Nat /\ CountIn(s, J) \in Nat /\ Count(s) \in Nat /\ Days(s) \in Nat
  BY <1>1, SumsTyped, DaysTyped DEF Count
<1>4. Recent(s, day) = CountIn(s, I) /\ Recent(s, later) = CountIn(s, J)
  BY DEF Recent
<1> HIDE DEF I, J
<1>5. Recent(s, later) \in 0..Recent(s, day)
  BY <1>2, <1>3, <1>4
<1> QED
  BY <1>3, <1>4, <1>5, FewerIsWorse

(***************************************************************************)
(* Time that passes without a transaction makes no zombie better.          *)
(***************************************************************************)
THEOREM SilenceOnlyWorsensHolds == Spec => SilenceOnlyWorsens
<1> DEFINE Silence == sold' = sold => \A c \in DOMAIN Zombies :
                         c \in DOMAIN Zombies' /\ Rank[Zombies[c]] <= Rank[Zombies'[c]]
<1>1. HistoryInv /\ HistoryInv' /\ [Next]_vars => [Silence]_<<sold, today>>
  <2> SUFFICES ASSUME HistoryInv, HistoryInv', [Next]_vars, sold' = sold, NEW c \in DOMAIN Zombies
               PROVE  c \in DOMAIN Zombies' /\ Rank[Zombies[c]] <= Rank[Zombies'[c]]
    OBVIOUS
  <2>1. today \in Int /\ today' \in Int /\ today <= today'
    <3>1. today \in Int /\ Step \in Nat
      BY PortfolioAssumption DEF PortfolioAssumption, HistoryInv, TypeOK
    <3>2. today' = today \/ today' = today + Step
      BY DEF Next, Post, Tick, Ask, DetectZombies, DetectHiddenGems, DetectPerformanceAlerts, vars
    <3> QED
      BY <3>1, <3>2
  <2>2. c \in DOMAIN Costs \cap Filter /\ Zombie(c)
    BY DEF Zombies
  <2>3. sold[c] \in History
    BY <2>2, PortfolioAssumption DEF PortfolioAssumption, HistoryInv, LotsSound
  <2>4. Zombies[c] = ZombieSeverity(Recent(sold[c], today), Count(sold[c]), Days(sold[c]))
    BY DEF Zombies
  <2>5. /\ IsZombie(Recent(sold[c], today'), Count(sold[c]), Days(sold[c]))
        /\ Rank[Zombies[c]] <= Rank[ZombieSeverity(Recent(sold[c], today'), Count(sold[c]), Days(sold[c]))]
    BY <2>1, <2>2, <2>3, <2>4, LaterIsWorse DEF Zombie
  <2>6. /\ c \in DOMAIN Zombies' <=> IsZombie(Recent(sold[c], today'), Count(sold[c]), Days(sold[c]))
        /\ c \in DOMAIN Zombies' =>
             Zombies'[c] = ZombieSeverity(Recent(sold[c], today'), Count(sold[c]), Days(sold[c]))
    BY <2>2 DEF Zombies, Zombie
  <2> QED
    BY <2>5, <2>6
<1> QED
  BY <1>1, HistoryInvariant, PTL DEF Spec, SilenceOnlyWorsens

(***************************************************************************)
(* A transaction of the last 90 days makes a zombie of a method only by    *)
(* making it established.                                                  *)
(***************************************************************************)
THEOREM TrafficNeverKillsHolds == Spec => TrafficNeverKills
<1> DEFINE Traffic == \A c \in DOMAIN Costs \cap Filter :
                         /\ today' = today /\ Zombie(c)' /\ ~Zombie(c)
                         /\ sold'[c][Len(sold'[c])].day >= today - 90
                         => ~Established(Days(sold[c])) /\ Established(Days(sold'[c]))
<1>1. HistoryInv /\ [Next]_vars => [Traffic]_<<sold, today>>
  <2> SUFFICES ASSUME HistoryInv, [Next]_vars, NEW c \in DOMAIN Costs \cap Filter,
                      today' = today, Zombie(c)', ~Zombie(c),
                      sold'[c][Len(sold'[c])].day >= today - 90
               PROVE  ~Established(Days(sold[c])) /\ Established(Days(sold'[c]))
    OBVIOUS
  <2>1. sold[c] \in History /\ c \in Cells /\ today \in Int
    BY PortfolioAssumption DEF PortfolioAssumption, HistoryInv, LotsSound, TypeOK
  <2>2. sold'[c] # sold[c]
    BY DEF Zombie
  <2>3. PICK lot \in Lots, back \in Back : Post(c, lot, back)
    BY <2>1, <2>2 DEF Next, Post, Tick, Ask, DetectZombies, DetectHiddenGems, DetectPerformanceAlerts,
       vars, HistoryInv, LotsSound
  <2>4. PICK new \in Lot : /\ new.ok <= new.n
                           /\ sold' = [sold EXCEPT ![c] = Append(sold[c], new)]
    BY <2>1, <2>3, PostedLot DEF HistoryInv, LotsSound
  <2> DEFINE s == sold[c]
             t == Append(s, new)
  <2>5. sold'[c] = t
    BY <2>1, <2>4 DEF HistoryInv, LotsSound
  <2>6. t[Len(t)] = new
    BY <2>1 DEF History
  <2>7. /\ Count(t) = Count(s) + new.n /\ Recent(t, today) = Recent(s, today) + new.n
        /\ Days(s) <= Days(t) /\ t \in History
    BY <2>1, <2>4, <2>5, <2>6, Appended
  <2>8. /\ Count(s) \in Nat /\ Recent(s, today) \in 0..Count(s) /\ new.n \in Nat
        /\ Days(s) \in Nat /\ Days(t) \in Nat
    BY <2>1, <2>7, SumsTyped, DaysTyped DEF Recent, Count, Lot
  <2>9. /\ ~IsZombie(Recent(s, today), Count(s), Days(s))
        /\ IsZombie(Recent(t, today), Count(t), Days(t))
    BY <2>5 DEF Zombie
  <2> HIDE DEF s, t
  <2>10. ~(Established(Days(s)) <=> Established(Days(t)))
    BY <2>7, <2>8, <2>9, MoreIsBetter
  <2>11. Established(Days(s)) => Established(Days(t))
    BY <2>7, <2>8 DEF Established, MonthsActive
  <2> QED
    BY <2>5, <2>10, <2>11 DEF s
<1> QED
  BY <1>1, HistoryInvariant, PTL DEF Spec, TrafficNeverKills
-----------------------------------------------------------------------------
(***************************************************************************)
(* A rate of 90 % is not 10 points below the average of rates that are     *)
(* 100 % at most.                                                          *)
(***************************************************************************)
LEMMA GoodRate ==
    ASSUME NEW P, IsFiniteSet(DOMAIN P), \A p \in DOMAIN P : P[p] \in History /\ P[p] # <<>>,
           NEW c \in DOMAIN P, 100 * ApprovedCount(P[c]) >= 90 * Count(P[c])
    PROVE  ~RateBelowPeers(P, c, 10)
<1> DEFINE n == [p \in DOMAIN P |-> Count(P[p])]
           whole == FoldFunction(LAMBDA a, b : a * b, 1, n)
           rate == [p \in DOMAIN P |-> 100 * ApprovedCount(P[p]) * (whole \div Count(P[p]))]
           peers == Cardinality(DOMAIN P)
           all == 100 * whole
           most == [p \in DOMAIN P |-> all]
<1>1. \A p \in DOMAIN P : /\ Count(P[p]) \in Nat \ {0} /\ ApprovedCount(P[p]) \in Nat
                          /\ ApprovedCount(P[p]) <= Count(P[p])
  <2> SUFFICES ASSUME NEW p \in DOMAIN P
               PROVE  /\ Count(P[p]) \in Nat \ {0} /\ ApprovedCount(P[p]) \in Nat
                      /\ ApprovedCount(P[p]) <= Count(P[p])
    OBVIOUS
  <2>1. DOMAIN P[p] # {}
    BY DEF History
  <2> QED
    BY <2>1, SumsTyped DEF Count, ApprovedCount
<1>2. whole = Product(n, DOMAIN P)
  BY DEF FoldFunction, Product
<1>3. /\ whole \in Nat \ {0}
      /\ \A p \in DOMAIN P : \E k \in Nat \ {0} : whole = Count(P[p]) * k
  <2>1. \A p \in DOMAIN P : n[p] = Count(P[p]) /\ n[p] \in Nat \ {0}
    BY <1>1
  <2> HIDE DEF n, whole
  <2> QED
    BY <1>2, <2>1, FactorsDivide
<1> HIDE DEF whole
<1>4. ASSUME NEW p \in DOMAIN P
      PROVE  /\ rate[p] \in Nat /\ rate[p] <= 100 * whole
             /\ 100 * ApprovedCount(P[p]) >= 90 * Count(P[p]) => rate[p] >= 90 * whole
  <2>1. PICK k \in Nat \ {0} : whole = Count(P[p]) * k
    BY <1>3
  <2> DEFINE N == Count(P[p])
             ok == ApprovedCount(P[p])
  <2>2. N \in Nat \ {0} /\ ok \in Nat /\ ok <= N
    BY <1>1
  <2>3. rate[p] = 100 * ok * (whole \div N)
    OBVIOUS
  <2> HIDE DEF N, ok, rate
  <2>4. whole \div N = k
    BY <2>1, <2>2 DEF N
  <2>5. whole = N * k /\ rate[p] = 100 * (ok * k) /\ ok * k \in Nat
    BY <2>1, <2>2, <2>3, <2>4 DEF N
  <2>6. ok * k <= N * k
    BY <2>2
  <2>7. 100 * ok >= 90 * N => 100 * (ok * k) >= 90 * (N * k)
    <3>1. 100 * (ok * k) = (100 * ok) * k /\ 90 * (N * k) = (90 * N) * k
      BY <2>2
    <3>2. \A a, b \in Nat : a >= b => a * k >= b * k
      OBVIOUS
    <3> QED
      BY <2>2, <3>1, <3>2
  <2> QED
    BY <1>3, <2>5, <2>6, <2>7 DEF N, ok
<1>5. SumFunctionOnSet(rate, DOMAIN P) <= peers * all
  <2>1. SumFunctionOnSet(rate, DOMAIN P) <= SumFunctionOnSet(most, DOMAIN P)
    <3>1. \A p \in DOMAIN P : rate[p] \in Int /\ most[p] \in Int /\ rate[p] <= most[p]
      BY <1>3, <1>4
    <3> HIDE DEF rate, most
    <3> QED
      BY <3>1, SumMonotone
  <2>2. SumFunctionOnSet(most, DOMAIN P) = all * peers
    BY <1>3, SumConstant
  <2>3. peers \in Nat
    BY FS_CardinalityType
  <2> QED
    BY <1>3, <2>1, <2>2, <2>3
<1>6. peers \in Nat /\ SumFunctionOnSet(rate, DOMAIN P) \in Int
  BY <1>4, SumInt, FS_CardinalityType
<1>7. rate[c] >= 90 * whole /\ rate[c] \in Nat
  BY <1>4
<1>8. SumFunction(rate) = SumFunctionOnSet(rate, DOMAIN P)
  BY DEF SumFunction, SumFunctionOnSet, FoldFunction
<1>9. RateBelowPeers(P, c, 10) <=> SumFunctionOnSet(rate, DOMAIN P) - peers * rate[c] > 10 * peers * whole
  BY <1>8 DEF RateBelowPeers, whole
<1> HIDE DEF peers, rate
<1>10. peers * rate[c] >= peers * (90 * whole) /\ peers * rate[c] \in Nat
  BY <1>3, <1>6, <1>7
<1>11. /\ peers * (90 * whole) = 90 * (peers * whole) /\ 10 * peers * whole = 10 * (peers * whole)
       /\ peers * all = 100 * (peers * whole) /\ peers * whole \in Nat
  BY <1>3, <1>6
<1> QED
  BY <1>5, <1>6, <1>9, <1>10, <1>11

(***************************************************************************)
(* What the two lists say of a method's own rate, now.                     *)
(***************************************************************************)
Praiseworthy(c) == 100 * ApprovedCount(sold[c]) >= 90 * Count(sold[c])

LEMMA GemsArePraiseworthy == \A c \in DOMAIN Gems : Praiseworthy(c)
  BY DEF Gems, IsGem, Praiseworthy

LEMMA AlertsAreNot ==
    ASSUME HistoryInv, NEW c \in DOMAIN Alerts
    PROVE  ~Praiseworthy(c)
<1> SUFFICES ASSUME Praiseworthy(c) PROVE FALSE
  OBVIOUS
<1> DEFINE P == SoldByPeers(c)
<1>1. c \in Selling /\ RateBelowPeers(P, c, 10)
  BY DEF Alerts, IsAlert
<1>2. /\ DOMAIN P = Selling \cap Peers[c] /\ \A p \in DOMAIN P : P[p] = sold[p]
      /\ Selling \subseteq Cells /\ IsFiniteSet(Cells) /\ c \in Peers[c]
  BY <1>1, PortfolioAssumption DEF SoldByPeers, Selling, PortfolioAssumption
<1>3. \A p \in DOMAIN P : P[p] \in History /\ P[p] # <<>>
  BY <1>2 DEF HistoryInv, LotsSound, Selling
<1> HIDE DEF P
<1>4. IsFiniteSet(DOMAIN P)
  BY <1>2, FS_Subset
<1> QED
  BY <1>1, <1>2, <1>3, <1>4, GoodRate DEF Praiseworthy

(***************************************************************************)
(* Whatever the others do, a method that has sold nothing since the client *)
(* asked has the rate for which it is listed.                              *)
(***************************************************************************)
RatesKnown == \A c \in Cells \ touched : /\ c \in DOMAIN gems => Praiseworthy(c)
                                         /\ c \in DOMAIN alerts => ~Praiseworthy(c)

(***************************************************************************)
(* No method is praised for its approval rate and blamed for it in one     *)
(* answer, from two snapshots, unless it sold something in between.        *)
(***************************************************************************)
THEOREM NeverPraisedAndBlamedInvariant == Spec => []NeverPraisedAndBlamed
<1>1. Init => RatesKnown
  BY DEF Init, RatesKnown
<1>2. HistoryInv /\ RatesKnown /\ [Next]_vars => RatesKnown'
  <2> SUFFICES ASSUME HistoryInv, RatesKnown, [Next]_vars, NEW d \in Cells, d \notin touched'
               PROVE  /\ d \in DOMAIN gems' => Praiseworthy(d)'
                      /\ d \in DOMAIN alerts' => ~Praiseworthy(d)'
    BY DEF RatesKnown
  <2>1. sold'[d] = sold[d] => (Praiseworthy(d)' <=> Praiseworthy(d))
    BY DEF Praiseworthy
  <2>2. ASSUME NEW c \in Cells, NEW lot \in Lots, NEW back \in Back, Post(c, lot, back)
        PROVE  /\ d \in DOMAIN gems' => Praiseworthy(d)'
               /\ d \in DOMAIN alerts' => ~Praiseworthy(d)'
    <3>1. CASE pending = {}
      BY <2>2, <3>1 DEF Post, Meanwhile
    <3>2. CASE pending # {}
      <4>1. d \notin touched /\ d # c /\ UNCHANGED <<gems, alerts>>
        BY <2>2, <3>2 DEF Post, Meanwhile, answer
      <4>2. sold'[d] = sold[d]
        BY <2>2, <4>1 DEF Post, HistoryInv, TypeOK
      <4> QED
        BY <2>1, <4>1, <4>2 DEF RatesKnown
    <3> QED
      BY <3>1, <3>2
  <2>3. CASE Tick
    <3>1. CASE pending = {}
      BY <2>3, <3>1 DEF Tick, Meanwhile
    <3>2. CASE pending # {}
      BY <2>1, <2>3, <3>2 DEF Tick, Meanwhile, answer, RatesKnown
    <3> QED
      BY <3>1, <3>2
  <2>4. CASE Ask
    BY <2>4 DEF Ask
  <2>5. CASE DetectZombies
    BY <2>1, <2>5 DEF DetectZombies, RatesKnown
  <2>6. CASE DetectHiddenGems
    BY <2>1, <2>6, GemsArePraiseworthy DEF DetectHiddenGems, RatesKnown
  <2>7. CASE DetectPerformanceAlerts
    BY <2>1, <2>7, AlertsAreNot DEF DetectPerformanceAlerts, RatesKnown
  <2>8. CASE UNCHANGED vars
    BY <2>1, <2>8 DEF vars, answer, RatesKnown
  <2> QED
    BY <2>2, <2>3, <2>4, <2>5, <2>6, <2>7, <2>8 DEF Next
<1>3. HistoryInv /\ RatesKnown => NeverPraisedAndBlamed
  <2> SUFFICES ASSUME HistoryInv, RatesKnown, NEW c \in DOMAIN gems \cap DOMAIN alerts
               PROVE  c \in touched
    BY DEF NeverPraisedAndBlamed
  <2>1. c \in Cells
    BY PortfolioAssumption DEF HistoryInv, TypeOK, IsListing, PortfolioAssumption
  <2> QED
    BY <2>1 DEF RatesKnown
<1> QED
  BY <1>1, <1>2, <1>3, HistoryInvariant, PTL DEF Spec
-----------------------------------------------------------------------------
(***************************************************************************)
(* Rounded and rounded up quotients.                                       *)
(***************************************************************************)
LEMMA DivMod ==
    ASSUME NEW a \in Int, NEW b \in Nat \ {0}
    PROVE  a \div b \in Int /\ a % b \in 0..(b - 1) /\ a = b * (a \div b) + (a % b)
  OBVIOUS

LEMMA RoundedBounds ==
    ASSUME NEW a \in Nat, NEW b \in Nat \ {0}
    PROVE  LET q == Rounded(a, b)
           IN  q \in Nat /\ 2 * a - b < 2 * (b * q) /\ 2 * (b * q) <= 2 * a + b
<1> DEFINE d == a \div b
           r == a % b
<1>1. d \in Int /\ r \in 0..(b - 1) /\ a = b * d + r
  BY DivMod
<1>2. Rounded(a, b) = d + (IF 2 * r >= b THEN 1 ELSE 0)
  BY DEF Rounded
<1> HIDE DEF d, r
<1>3. d >= 0
  <2> SUFFICES ASSUME d <= -1 PROVE FALSE
    BY <1>1
  <2>1. b * d <= b * (-1)
    BY <1>1
  <2> QED
    BY <1>1, <2>1
<1>4. b * d \in Nat /\ b * (d + 1) = b * d + b
  BY <1>1, <1>3
<1>5. CASE 2 * r >= b
  <2>1. Rounded(a, b) = d + 1
    BY <1>2, <1>5
  <2> QED
    BY <1>1, <1>3, <1>4, <1>5, <2>1
<1>6. CASE ~(2 * r >= b)
  <2>1. Rounded(a, b) = d
    BY <1>1, <1>2, <1>6
  <2> QED
    BY <1>1, <1>3, <1>4, <1>6, <2>1
<1> QED
  BY <1>5, <1>6

LEMMA RoundDivBounds ==
    ASSUME NEW a \in Int, NEW b \in Nat \ {0}
    PROVE  LET q == RoundDiv(a, b)
           IN  /\ q \in Int
               /\ a >= 0 => q \in Nat
               /\ 2 * a - b <= 2 * (b * q) /\ 2 * (b * q) <= 2 * a + b
               /\ q <= 0 /\ a >= 0 => 2 * a < b
               /\ a <= 0 => q <= 0
<1>1. CASE a >= 0
  <2> DEFINE q == RoundDiv(a, b)
  <2>1. q = Rounded(a, b)
    BY <1>1 DEF RoundDiv
  <2> HIDE DEF q
  <2>2. q \in Nat /\ 2 * a - b < 2 * (b * q) /\ 2 * (b * q) <= 2 * a + b
    BY <1>1, <2>1, RoundedBounds
  <2>3. b * q \in Nat
    BY <2>2
  <2>4. q <= 0 => b * q = 0
    BY <2>2
  <2>5. a = 0 => q = 0
    <3> SUFFICES ASSUME a = 0, q >= 1 PROVE FALSE
      BY <2>2
    <3>1. b * q >= b
      BY <2>2
    <3> QED
      BY <2>2, <2>3, <3>1
  <2> QED
    BY <1>1, <2>2, <2>3, <2>4, <2>5 DEF q
<1>2. CASE a < 0
  <2> DEFINE p == Rounded(-a, b)
  <2>1. RoundDiv(a, b) = -p
    BY <1>2 DEF RoundDiv
  <2>2. p \in Nat /\ 2 * (-a) - b < 2 * (b * p) /\ 2 * (b * p) <= 2 * (-a) + b
    <3>1. -a \in Nat
      BY <1>2
    <3> QED
      BY <3>1, RoundedBounds
  <2> HIDE DEF p
  <2>3. b * (-p) = -(b * p) /\ b * p \in Nat
    BY <2>2
  <2> QED
    BY <1>2, <2>1, <2>2, <2>3
<1> QED
  BY <1>1, <1>2

LEMMA CeilDivBounds ==
    ASSUME NEW a \in Nat, NEW b \in Nat \ {0}, NEW n \in Nat
    PROVE  n < CeilDiv(a, b) <=> n * b < a
<1> DEFINE m == a + b - 1
           d == m \div b
           r == m % b
<1>1. m \in Int
  OBVIOUS
<1>2. CeilDiv(a, b) = d
  BY DEF CeilDiv
<1>3. d \in Int /\ r \in 0..(b - 1) /\ m = b * d + r
  <2> HIDE DEF m
  <2> QED
    BY <1>1, DivMod
<1> HIDE DEF d, r
<1>4. b * d \in Int /\ b * n \in Int /\ n * b = b * n /\ b * (n + 1) = b * n + b
  BY <1>3
<1>5. n + 1 <= d => b * (n + 1) <= b * d
  BY <1>3
<1>6. d <= n => b * d <= b * n
  BY <1>3
<1> QED
  BY <1>2, <1>3, <1>4, <1>5, <1>6
(***************************************************************************)
(* The total cost, to half a cent.                                         *)
(***************************************************************************)
Cost == [fixed : Nat, perTxn : Nat, fee : Nat]

LEMMA CostsTyped ==
    ASSUME NEW s \in History, NEW cost \in Cost
    PROVE  LET due == 100 * Span(Days(s)) * cost.fixed
               fees == Count(s) * cost.perTxn + TPV(s) * cost.fee
           IN  /\ Span(Days(s)) \in Nat /\ Count(s) \in Nat /\ TPV(s) \in Nat /\ ApprovedCount(s) \in Nat
               /\ due \in Nat /\ fees \in Nat
               /\ TotalCost(s, cost) \in Nat
               /\ due + 30 * fees - 15 <= 30 * TotalCost(s, cost)
               /\ 30 * TotalCost(s, cost) <= due + 30 * fees + 15
<1> DEFINE S == Span(Days(s))
           N == Count(s)
           T == TPV(s)
           F == cost.fixed
           q == cost.perTxn
           fee == cost.fee
           A == 100 * S * F + 30 * N * q + 30 * T * fee
<1>1. S \in Nat
  BY DaysTyped DEF Span, Larger
<1>2. N \in Nat /\ T \in Nat /\ ApprovedCount(s) \in Nat
  BY SumsTyped DEF Count, TPV, ApprovedCount
<1>3. F \in Nat /\ q \in Nat /\ fee \in Nat
  BY DEF Cost
<1>4. TotalCost(s, cost) = RoundDiv(A, 30)
  BY DEF TotalCost
<1> HIDE DEF S, N, T, F, q, fee
<1>5. 100 * S * F \in Nat /\ N * q \in Nat /\ T * fee \in Nat
  BY <1>1, <1>2, <1>3
<1>6. 30 * N * q = 30 * (N * q) /\ 30 * T * fee = 30 * (T * fee)
  BY <1>2, <1>3
<1>7. A \in Nat /\ A = 100 * S * F + 30 * (N * q + T * fee)
  BY <1>5, <1>6
<1> HIDE DEF A
<1>8. /\ TotalCost(s, cost) \in Nat
      /\ 2 * A - 30 <= 2 * (30 * TotalCost(s, cost)) /\ 2 * (30 * TotalCost(s, cost)) <= 2 * A + 30
  <2>1. 30 \in Nat \ {0} /\ A \in Int /\ A >= 0
    BY <1>7
  <2>2. LET q30 == RoundDiv(A, 30)
        IN  q30 \in Nat /\ 2 * A - 30 <= 2 * (30 * q30) /\ 2 * (30 * q30) <= 2 * A + 30
    BY <2>1, RoundDivBounds
  <2> QED
    BY <1>4, <2>2
<1> QED
  BY <1>1, <1>2, <1>5, <1>7, <1>8 DEF S, N, T, F, q, fee

(***************************************************************************)
(* What is not profitable earns no more than it costs, but for rounding.   *)
(***************************************************************************)
LEMMA UnprofitableEarnsLess ==
    ASSUME NEW s \in History, NEW cost \in Cost
    PROVE  LET total == TotalCost(s, cost)
               earned == 100 * TPV(s) - total
           IN  /\ Recommendation(s, cost) = "UNPROFITABLE" => total = 0 \/ 20000 * earned < total
               /\ earned <= 0 => Recommendation(s, cost) = "UNPROFITABLE"
<1> DEFINE total == TotalCost(s, cost)
           earned == 100 * TPV(s) - total
           pct == ROIPct(s, cost)
<1>1. total \in Nat /\ earned \in Int
  BY CostsTyped
<1>2. CASE total = 0
  BY <1>2 DEF Recommendation
<1>3. CASE total # 0
  <2>1. pct = RoundDiv(10000 * earned, total)
    BY DEF ROIPct
  <2>2. pct \in Int => (Recommendation(s, cost) = "UNPROFITABLE" <=> pct <= 0)
    <3>1. \A p \in Int : LET r == CASE p > 50000 -> "HIGHLY_PROFITABLE"
                                   [] 10000 < p /\ p <= 50000 -> "PROFITABLE"
                                   [] 0 < p /\ p <= 10000 -> "MARGINAL"
                                   [] p <= 0 -> "UNPROFITABLE"
                         IN  r = "UNPROFITABLE" <=> p <= 0
      OBVIOUS
    <3> QED
      BY <1>3, <3>1 DEF Recommendation
  <2> HIDE DEF total, earned, pct
  <2>3. 10000 * earned \in Int /\ total \in Nat \ {0}
    BY <1>1, <1>3
  <2>4. /\ pct \in Int
        /\ pct <= 0 /\ 10000 * earned >= 0 => 2 * (10000 * earned) < total
        /\ 10000 * earned <= 0 => pct <= 0
    <3> DEFINE a == 10000 * earned
    <3> HIDE DEF a
    <3>1. a \in Int /\ pct = RoundDiv(a, total)
      BY <2>1, <2>3 DEF a
    <3>2. LET q == RoundDiv(a, total)
          IN  /\ q \in Int
              /\ a >= 0 => q \in Nat
              /\ 2 * a - total <= 2 * (total * q) /\ 2 * (total * q) <= 2 * a + total
              /\ q <= 0 /\ a >= 0 => 2 * a < total
              /\ a <= 0 => q <= 0
      <4>1. total \in Nat \ {0} /\ a \in Int
        BY <2>3, <3>1
      <4> QED
        BY ONLY <4>1, RoundDivBounds
    <3> QED
      BY <3>1, <3>2 DEF a
  <2>5. Recommendation(s, cost) = "UNPROFITABLE" <=> pct <= 0
    BY <2>2, <2>4
  <2> QED
    BY <1>1, <2>3, <2>4, <2>5 DEF total, earned
<1> QED
  BY <1>2, <1>3

(***************************************************************************)
(* With all n transactions approved, n is below the break-even exactly if  *)
(* what they earn is less than the fixed costs.                            *)
(***************************************************************************)
LEMMA BreakEvenSound ==
    ASSUME NEW s \in History, NEW cost \in Cost, BreaksEven(s, cost), ApprovedCount(s) = Count(s)
    PROVE  IF Count(s) < BreakEven(s, cost)
           THEN 100 * TPV(s) <= TotalCost(s, cost)
           ELSE TotalCost(s, cost) <= 100 * TPV(s)
<1> DEFINE N == Count(s)
           T == TPV(s)
           M == Margin(s, cost)
           due == 100 * Span(Days(s)) * cost.fixed
           fees == N * cost.perTxn + T * cost.fee
           total == TotalCost(s, cost)
<1>1. /\ N \in Nat /\ T \in Nat /\ due \in Nat /\ fees \in Nat /\ total \in Nat
      /\ due + 30 * fees - 15 <= 30 * total /\ 30 * total <= due + 30 * fees + 15
  BY CostsTyped
<1>2. N > 0 /\ M > 0
  BY DEF BreaksEven
<1>3. N * cost.perTxn \in Int /\ T * cost.fee \in Int
  BY <1>1 DEF Cost
<1>4. M = 100 * T - fees
  BY <1>1, <1>3 DEF Margin
<1>5. BreakEven(s, cost) = CeilDiv(due * N, 30 * M)
  BY DEF BreakEven
<1> HIDE DEF N, T, M, due, fees, total
<1>6. due * N \in Nat /\ 30 * M \in Nat \ {0}
  BY <1>1, <1>2, <1>4
<1>7. N < BreakEven(s, cost) <=> N * (30 * M) < due * N
  BY <1>1, <1>5, <1>6, CeilDivBounds
<1>8. N * (30 * M) < due * N <=> 30 * M < due
  <2>1. due * N = N * due
    BY <1>1
  <2>2. 30 * M < due => N * (30 * M) < N * due
    BY <1>1, <1>2, <1>6
  <2>3. due <= 30 * M => N * due <= N * (30 * M)
    BY <1>1, <1>2, <1>6
  <2>4. N * due \in Int /\ N * (30 * M) \in Int
    BY <1>1, <1>6
  <2> QED
    BY <1>1, <1>6, <2>1, <2>2, <2>3, <2>4
<1>9. 30 * M < due => 100 * T <= total
  BY <1>1, <1>4
<1>10. ~(30 * M < due) => total <= 100 * T
  BY <1>1, <1>4
<1> QED
  BY <1>7, <1>8, <1>9, <1>10 DEF N, T, total

(***************************************************************************)
(* Break-even, total cost and recommendation agree.                        *)
(***************************************************************************)
THEOREM ROIConsistentInvariant == Spec => []ROIConsistent
<1>1. HistoryInv => ROIConsistent
  <2> SUFFICES ASSUME HistoryInv, NEW c \in Selling
               PROVE  LET s == sold[c]  cost == CostOf(c)  total == TotalCost(s, cost)
                      IN  /\ BreaksEven(s, cost) /\ ApprovedCount(s) = Count(s) =>
                                IF Count(s) < BreakEven(s, cost)
                                THEN Recommendation(s, cost) = "UNPROFITABLE"
                                ELSE total <= 100 * TPV(s)
                          /\ Recommendation(s, cost) = "UNPROFITABLE" =>
                                total = 0 \/ 20000 * (100 * TPV(s) - total) < total
    BY DEF ROIConsistent
  <2> DEFINE s == sold[c]
             cost == CostOf(c)
  <2>1. s \in History
    BY PortfolioAssumption DEF PortfolioAssumption, Selling, HistoryInv, LotsSound
  <2>2. cost \in Cost
    BY PortfolioAssumption DEF PortfolioAssumption, CostOf, NoCost, Cost
  <2> HIDE DEF s, cost
  <2>3. TPV(s) \in Nat /\ TotalCost(s, cost) \in Nat
    BY <2>1, <2>2, CostsTyped
  <2>4. BreaksEven(s, cost) /\ ApprovedCount(s) = Count(s) =>
            IF Count(s) < BreakEven(s, cost)
            THEN 100 * TPV(s) <= TotalCost(s, cost)
            ELSE TotalCost(s, cost) <= 100 * TPV(s)
    BY <2>1, <2>2, BreakEvenSound
  <2>5. 100 * TPV(s) <= TotalCost(s, cost) => Recommendation(s, cost) = "UNPROFITABLE"
    BY <2>1, <2>2, <2>3, UnprofitableEarnsLess
  <2>6. Recommendation(s, cost) = "UNPROFITABLE" =>
            TotalCost(s, cost) = 0 \/ 20000 * (100 * TPV(s) - TotalCost(s, cost)) < TotalCost(s, cost)
    BY <2>1, <2>2, UnprofitableEarnsLess
  <2> QED
    BY <2>4, <2>5, <2>6 DEF s, cost
<1> QED
  BY <1>1, HistoryInvariant, PTL
-----------------------------------------------------------------------------
(***************************************************************************)
(* The regression of v, in terms of the deviations of its points from      *)
(* their means: n times each, so that they are integers.                   *)
(***************************************************************************)
One(v) == [i \in DOMAIN v |-> 1]
Index(v) == [i \in DOMAIN v |-> X(i)]
Rise(v) == [i \in DOMAIN v |-> Len(v) * v[i] - SumY(v)]
Run(v) == [i \in DOMAIN v |-> Len(v) * X(i) - SumX(v)]
SumYY(v) == SumFunction([i \in DOMAIN v |-> v[i] * v[i]])
Variance(v) == Len(v) * SumYY(v) - SumY(v) * SumY(v)

LEMMA SumIsOnDomain == \A f : SumFunction(f) = SumFunctionOnSet(f, DOMAIN f)
  BY DEF SumFunction, SumFunctionOnSet, FoldFunction

LEMMA PointsTyped ==
    ASSUME NEW v \in Seq(Int)
    PROVE  /\ IsFiniteSet(DOMAIN v) /\ Cardinality(DOMAIN v) = Len(v) /\ Len(v) \in Nat
           /\ DOMAIN v = 1..Len(v)
           /\ \A i \in DOMAIN v : v[i] \in Int /\ X(i) \in Int
           /\ SumX(v) \in Int /\ SumY(v) \in Int
<1>1. Len(v) \in Nat /\ DOMAIN v = 1..Len(v)
  OBVIOUS
<1>2. IsFiniteSet(DOMAIN v) /\ Cardinality(DOMAIN v) = Len(v)
  BY <1>1, FS_Interval
<1>3. \A i \in DOMAIN v : v[i] \in Int /\ X(i) \in Int
  BY <1>1 DEF X
<1>4. SumY(v) \in Int
  BY <1>2, <1>3, SumInt, SumIsOnDomain DEF SumY
<1>5. SumX(v) \in Int
  <2>1. SumX(v) = SumFunctionOnSet(Index(v), DOMAIN v)
    BY SumIsOnDomain DEF SumX, Index
  <2>2. \A i \in DOMAIN v : Index(v)[i] \in Int
    BY <1>3 DEF Index
  <2> QED
    BY <1>2, <2>1, <2>2, SumInt
<1> QED
  BY <1>1, <1>2, <1>3, <1>4, <1>5

LEMMA DeviationsTyped ==
    ASSUME NEW v \in Seq(Int), NEW i \in DOMAIN v
    PROVE  /\ v[i] \in Int /\ One(v)[i] = 1 /\ One(v)[i] \in Int
           /\ Index(v)[i] = X(i) /\ Index(v)[i] \in Int
           /\ Rise(v)[i] = Len(v) * v[i] + (-SumY(v)) * One(v)[i] /\ Rise(v)[i] \in Int
           /\ Run(v)[i] = Len(v) * Index(v)[i] + (-SumX(v)) * One(v)[i] /\ Run(v)[i] \in Int
  BY PointsTyped DEF One, Index, Rise, Run

LEMMA Moments ==
    ASSUME NEW v \in Seq(Int)
    PROVE  LET S == DOMAIN v
           IN  /\ Dot(One(v), One(v), S) = Len(v)
               /\ Dot(v, One(v), S) = SumY(v) /\ Dot(One(v), v, S) = SumY(v)
               /\ Dot(Index(v), One(v), S) = SumX(v) /\ Dot(One(v), Index(v), S) = SumX(v)
               /\ Dot(Index(v), Index(v), S) = SumXX(v) /\ SumXX(v) \in Int
               /\ Dot(Index(v), v, S) = SumXY(v) /\ Dot(v, Index(v), S) = SumXY(v) /\ SumXY(v) \in Int
               /\ Dot(v, v, S) = SumYY(v) /\ SumYY(v) \in Int
<1> DEFINE S == DOMAIN v
<1>1. IsFiniteSet(S) /\ Cardinality(S) = Len(v)
  BY PointsTyped
<1>2. \A i \in S : /\ v[i] \in Int /\ One(v)[i] = 1 /\ One(v)[i] \in Int
                   /\ Index(v)[i] = X(i) /\ Index(v)[i] \in Int
  BY DeviationsTyped
<1>3. Dot(One(v), One(v), S) = Len(v)
  <2>1. \A i \in S : [x \in S |-> One(v)[x] * One(v)[x]][i] = 1
    BY <1>2
  <2> QED
    BY <1>1, <2>1, SumOfOnes DEF Dot
<1>4. \A i \in S : v[i] * One(v)[i] = v[i] /\ Index(v)[i] * One(v)[i] = X(i)
  BY <1>2
<1>5. Dot(v, One(v), S) = SumY(v)
  <2>1. \A i \in S : v[i] \in Int /\ [x \in S |-> v[x] * One(v)[x]][i] = v[i]
    BY <1>2, <1>4
  <2> QED
    BY <1>1, <2>1, SumEqual, SumIsOnDomain DEF Dot, SumY
<1>6. Dot(Index(v), One(v), S) = SumX(v)
  <2>1. [x \in S |-> Index(v)[x] * One(v)[x]] = [i \in DOMAIN v |-> X(i)]
    BY <1>4
  <2> QED
    BY <2>1, SumIsOnDomain DEF Dot, SumX
<1>7. Dot(Index(v), Index(v), S) = SumXX(v)
  <2>1. [x \in S |-> Index(v)[x] * Index(v)[x]] = [i \in DOMAIN v |-> X(i) * X(i)]
    BY <1>2
  <2> QED
    BY <2>1, SumIsOnDomain DEF Dot, SumXX
<1>8. Dot(Index(v), v, S) = SumXY(v)
  <2>1. [x \in S |-> Index(v)[x] * v[x]] = [i \in DOMAIN v |-> X(i) * v[i]]
    BY <1>2
  <2> QED
    BY <2>1, SumIsOnDomain DEF Dot, SumXY
<1>9. Dot(v, v, S) = SumYY(v)
  BY SumIsOnDomain DEF Dot, SumYY
<1>10. /\ Dot(One(v), v, S) = Dot(v, One(v), S)
       /\ Dot(One(v), Index(v), S) = Dot(Index(v), One(v), S)
       /\ Dot(v, Index(v), S) = Dot(Index(v), v, S)
  BY <1>1, <1>2, DotSymmetric
<1>11. SumXX(v) \in Int /\ SumXY(v) \in Int /\ SumYY(v) \in Int
  BY <1>1, <1>2, <1>7, <1>8, <1>9, DotInt
<1> QED
  BY <1>3, <1>5, <1>6, <1>7, <1>8, <1>9, <1>10, <1>11

LEMMA RegressionTyped ==
    ASSUME NEW v \in Seq(Int)
    PROVE  Variance(v) \in Int /\ Slope(v) \in Int /\ Spread(v) \in Int
<1>1. /\ SumXX(v) \in Int /\ SumXY(v) \in Int /\ SumYY(v) \in Int
      /\ SumX(v) \in Int /\ SumY(v) \in Int /\ Len(v) \in Int
  BY Moments, PointsTyped
<1> QED
  BY <1>1 DEF Variance, Slope, Spread

LEMMA DeviationsLinear ==
    ASSUME NEW v \in Seq(Int), NEW q, \A i \in DOMAIN v : q[i] \in Int
    PROVE  LET S == DOMAIN v
           IN  /\ Dot(Rise(v), q, S) = Len(v) * Dot(v, q, S) + (-SumY(v)) * Dot(One(v), q, S)
               /\ Dot(Run(v), q, S) = Len(v) * Dot(Index(v), q, S) + (-SumX(v)) * Dot(One(v), q, S)
<1> DEFINE S == DOMAIN v
           n == Len(v)
           sx == SumX(v)
           sy == SumY(v)
<1>1. IsFiniteSet(S) /\ n \in Int /\ -sx \in Int /\ -sy \in Int
  BY PointsTyped
<1>2. /\ \A i \in S : v[i] \in Int /\ One(v)[i] \in Int /\ q[i] \in Int
                      /\ Rise(v)[i] = n * v[i] + (-sy) * One(v)[i]
      /\ \A i \in S : Index(v)[i] \in Int /\ One(v)[i] \in Int /\ q[i] \in Int
                      /\ Run(v)[i] = n * Index(v)[i] + (-sx) * One(v)[i]
  BY DeviationsTyped
<1> HIDE DEF S, n, sx, sy
<1>3. Dot(Rise(v), q, S) = n * Dot(v, q, S) + (-sy) * Dot(One(v), q, S)
  BY ONLY <1>1, <1>2, DotLinear
<1>4. Dot(Run(v), q, S) = n * Dot(Index(v), q, S) + (-sx) * Dot(One(v), q, S)
  BY ONLY <1>1, <1>2, DotLinear
<1> QED
  BY <1>3, <1>4 DEF S, n, sx, sy

(***************************************************************************)
(* The deviations add up to nothing; their products with the points, and   *)
(* among themselves, are what the regression is made of.                   *)
(***************************************************************************)
LEMMA DeviationsOfPoints ==
    ASSUME NEW v \in Seq(Int)
    PROVE  LET S == DOMAIN v
           IN  /\ Dot(Rise(v), One(v), S) = 0 /\ Dot(Run(v), One(v), S) = 0
               /\ Dot(Rise(v), v, S) = Variance(v) /\ Dot(Rise(v), Index(v), S) = Slope(v)
               /\ Dot(Run(v), v, S) = Slope(v) /\ Dot(Run(v), Index(v), S) = Spread(v)
<1> DEFINE S == DOMAIN v
           n == Len(v)
           sx == SumX(v)
           sy == SumY(v)
<1>1. IsFiniteSet(S) /\ n \in Int /\ sx \in Int /\ sy \in Int /\ -sx \in Int /\ -sy \in Int
  BY PointsTyped
<1>2. ASSUME NEW q, \A i \in S : q[i] \in Int
      PROVE  /\ Dot(Rise(v), q, S) = n * Dot(v, q, S) + (-sy) * Dot(One(v), q, S)
             /\ Dot(Run(v), q, S) = n * Dot(Index(v), q, S) + (-sx) * Dot(One(v), q, S)
  BY <1>2, DeviationsLinear
<1>3. \A i \in S : v[i] \in Int /\ One(v)[i] \in Int /\ Index(v)[i] \in Int
  BY DeviationsTyped
<1>4. SumXX(v) \in Int /\ SumXY(v) \in Int /\ SumYY(v) \in Int
  BY Moments
<1>5. \A k, m \in Int : k * m + (-m) * k = 0 /\ k * m + (-m) * m = k * m - m * m
  OBVIOUS
<1>6. Dot(Rise(v), One(v), S) = n * sy + (-sy) * n /\ Dot(Run(v), One(v), S) = n * sx + (-sx) * n
  BY <1>2, <1>3, Moments
<1>7. Dot(Rise(v), v, S) = n * SumYY(v) + (-sy) * sy /\ Dot(Run(v), v, S) = n * SumXY(v) + (-sx) * sy
  BY <1>2, <1>3, Moments
<1>8. Dot(Rise(v), Index(v), S) = n * SumXY(v) + (-sy) * sx /\ Dot(Run(v), Index(v), S) = n * SumXX(v) + (-sx) * sx
  BY <1>2, <1>3, Moments
<1>9. \A a, b \in Int : a + (-sy) * sy = a - sy * sy /\ a + (-sx) * sx = a - sx * sx
                        /\ a + (-sy) * sx = a - sx * sy /\ a + (-sx) * sy = a - sx * sy
  BY <1>1
<1>10. n * SumYY(v) \in Int /\ n * SumXX(v) \in Int /\ n * SumXY(v) \in Int
  BY <1>1, <1>4
<1>11. /\ Variance(v) = n * SumYY(v) - sy * sy /\ Slope(v) = n * SumXY(v) - sx * sy
       /\ Spread(v) = n * SumXX(v) - sx * sx
  BY DEF Variance, Slope, Spread
<1> QED
  BY <1>1, <1>5, <1>6, <1>7, <1>8, <1>9, <1>10, <1>11

LEMMA Deviations ==
    ASSUME NEW v \in Seq(Int)
    PROVE  LET S == DOMAIN v
               n == Len(v)
           IN  /\ Dot(Rise(v), Rise(v), S) = n * Variance(v)
               /\ Dot(Rise(v), Run(v), S) = n * Slope(v)
               /\ Dot(Run(v), Rise(v), S) = n * Slope(v)
               /\ Dot(Run(v), Run(v), S) = n * Spread(v)
<1> DEFINE S == DOMAIN v
           n == Len(v)
           sx == SumX(v)
           sy == SumY(v)
<1>1. IsFiniteSet(S) /\ n \in Int /\ sx \in Int /\ sy \in Int /\ -sx \in Int /\ -sy \in Int
  BY PointsTyped
<1>2. \A i \in S : v[i] \in Int /\ One(v)[i] \in Int /\ Index(v)[i] \in Int /\ Rise(v)[i] \in Int /\ Run(v)[i] \in Int
  BY DeviationsTyped
<1>3. ASSUME NEW q, \A i \in S : q[i] \in Int
      PROVE  /\ Dot(Rise(v), q, S) = n * Dot(v, q, S) + (-sy) * Dot(One(v), q, S)
             /\ Dot(Run(v), q, S) = n * Dot(Index(v), q, S) + (-sx) * Dot(One(v), q, S)
  BY <1>3, DeviationsLinear
<1>4. /\ Dot(v, Rise(v), S) = Variance(v) /\ Dot(One(v), Rise(v), S) = 0
      /\ Dot(v, Run(v), S) = Slope(v) /\ Dot(One(v), Run(v), S) = 0
      /\ Dot(Index(v), Run(v), S) = Spread(v) /\ Dot(Index(v), Rise(v), S) = Slope(v)
  BY <1>1, <1>2, DotSymmetric, DeviationsOfPoints
<1>5. n * Variance(v) \in Int /\ n * Slope(v) \in Int /\ n * Spread(v) \in Int
  BY <1>1, RegressionTyped
<1>6. /\ Dot(Rise(v), Rise(v), S) = n * Variance(v) + (-sy) * 0
      /\ Dot(Rise(v), Run(v), S) = n * Slope(v) + (-sy) * 0
      /\ Dot(Run(v), Rise(v), S) = n * Slope(v) + (-sx) * 0
      /\ Dot(Run(v), Run(v), S) = n * Spread(v) + (-sx) * 0
  BY <1>2, <1>3, <1>4
<1> QED
  BY <1>1, <1>5, <1>6
(***************************************************************************)
(* Both sums of squares by slope, spread and variance: R squared is the    *)
(* square of the correlation.                                              *)
(***************************************************************************)
Residual(v) == [i \in DOMAIN v |-> Spread(v) * Rise(v)[i] - Slope(v) * Run(v)[i]]

LEMMA SSTotIs ==
    ASSUME NEW v \in Seq(Int)
    PROVE  SSTot(v) = Spread(v) * (Spread(v) * (Len(v) * Variance(v)))
<1> DEFINE S == DOMAIN v
           d == Spread(v)
           a == Rise(v)
           none == 0
           h == [i \in S |-> d * a[i]]
<1>1. IsFiniteSet(S) /\ d \in Int /\ none \in Int /\ \A i \in S : a[i] \in Int
  BY PointsTyped, RegressionTyped, DeviationsTyped
<1>2. \A i \in S : a[i] \in Int /\ h[i] \in Int /\ h[i] = d * a[i] + none * a[i]
  BY <1>1
<1>3. SSTot(v) = Dot(h, h, S)
  <2>1. \A i \in S : Square(Spread(v) * (Len(v) * v[i] - SumY(v))) = h[i] * h[i]
    BY DEF Square, Rise
  <2> QED
    BY <2>1, SumIsOnDomain DEF SSTot, Dot
<1> HIDE DEF S, d, a, none, h
<1>4. Dot(h, h, S) = d * Dot(a, h, S) + none * Dot(a, h, S)
  BY ONLY <1>1, <1>2, DotLinear
<1>5. Dot(h, a, S) = d * Dot(a, a, S) + none * Dot(a, a, S)
  BY ONLY <1>1, <1>2, DotLinear
<1>6. Dot(a, h, S) = Dot(h, a, S) /\ Dot(a, a, S) \in Int /\ Dot(h, a, S) \in Int
  BY <1>1, <1>2, DotSymmetric, DotInt
<1>7. \A k \in Int : d * k + none * k = d * k
  BY <1>1 DEF none
<1>8. Dot(a, a, S) = Len(v) * Variance(v)
  BY Deviations DEF a, S
<1> QED
  BY <1>3, <1>4, <1>5, <1>6, <1>7, <1>8 DEF d

LEMMA SSResIs ==
    ASSUME NEW v \in Seq(Int)
    PROVE  SSRes(v) = Spread(v) * (Len(v) * (Spread(v) * Variance(v) - Slope(v) * Slope(v)))
<1> DEFINE S == DOMAIN v
           n == Len(v)
           d == Spread(v)
           m == Slope(v)
           w == Variance(v)
           a == Rise(v)
           b == Run(v)
           r == Residual(v)
<1>1. /\ IsFiniteSet(S) /\ n \in Int /\ d \in Int /\ m \in Int /\ -m \in Int /\ w \in Int
      /\ SumX(v) \in Int /\ SumY(v) \in Int
  BY PointsTyped, RegressionTyped
<1>2. \A i \in S : a[i] \in Int /\ b[i] \in Int /\ r[i] \in Int /\ r[i] = d * a[i] + (-m) * b[i]
  <2> SUFFICES ASSUME NEW i \in S
               PROVE  a[i] \in Int /\ b[i] \in Int /\ r[i] \in Int /\ r[i] = d * a[i] + (-m) * b[i]
    OBVIOUS
  <2>1. a[i] \in Int /\ b[i] \in Int
    BY DeviationsTyped
  <2>2. r[i] = d * a[i] - m * b[i]
    BY DEF Residual
  <2>3. \A e, x, k, y \in Int : e * x - k * y = e * x + (-k) * y /\ e * x - k * y \in Int
    OBVIOUS
  <2> HIDE DEF a, b, r, d, m
  <2>4. d * a[i] - m * b[i] = d * a[i] + (-m) * b[i] /\ d * a[i] - m * b[i] \in Int
    BY ONLY <1>1, <2>1, <2>3
  <2> QED
    BY <2>1, <2>2, <2>4
<1>3. SSRes(v) = Dot(r, r, S)
  <2> SUFFICES ASSUME NEW i \in S
               PROVE  Square(n * d * v[i] - n * m * X(i) - Intercept(v)) = r[i] * r[i]
    BY SumIsOnDomain DEF SSRes, Dot
  <2>1. v[i] \in Int /\ X(i) \in Int
    BY PointsTyped
  <2>2. r[i] = d * (n * v[i] - SumY(v)) - m * (n * X(i) - SumX(v))
    BY DEF Residual, Rise, Run
  <2>3. Intercept(v) = SumY(v) * d - m * SumX(v)
    BY DEF Intercept
  <2> HIDE DEF d, m, n, r
  <2>4. d * (n * v[i] - SumY(v)) = n * d * v[i] - SumY(v) * d
    BY <1>1, <2>1
  <2>5. m * (n * X(i) - SumX(v)) = n * m * X(i) - m * SumX(v)
    BY <1>1, <2>1
  <2>6. /\ n * d * v[i] \in Int /\ n * m * X(i) \in Int
        /\ SumY(v) * d \in Int /\ m * SumX(v) \in Int
    BY <1>1, <2>1
  <2>7. r[i] = n * d * v[i] - n * m * X(i) - Intercept(v)
    BY <2>2, <2>3, <2>4, <2>5, <2>6
  <2> QED
    BY <2>7 DEF Square
<1>4. /\ Dot(a, a, S) = n * w /\ Dot(a, b, S) = n * m
      /\ Dot(b, a, S) = n * m /\ Dot(b, b, S) = n * d
  BY Deviations
<1> HIDE DEF S, n, d, m, w, a, b, r
<1>5. /\ Dot(r, r, S) = d * Dot(a, r, S) + (-m) * Dot(b, r, S)
      /\ Dot(r, a, S) = d * Dot(a, a, S) + (-m) * Dot(b, a, S)
      /\ Dot(r, b, S) = d * Dot(a, b, S) + (-m) * Dot(b, b, S)
  BY ONLY <1>1, <1>2, DotLinear
<1>6. Dot(a, r, S) = Dot(r, a, S) /\ Dot(b, r, S) = Dot(r, b, S)
  BY ONLY <1>1, <1>2, DotSymmetric
<1>7. Dot(r, a, S) = n * (d * w - m * m)
  <2>1. d * (n * w) + (-m) * (n * m) = n * (d * w - m * m)
    BY <1>1
  <2> QED
    BY <1>4, <1>5, <2>1
<1>8. Dot(r, b, S) = 0
  <2>1. d * (n * m) + (-m) * (n * d) = 0
    BY <1>1
  <2> QED
    BY <1>4, <1>5, <2>1
<1>9. Dot(r, r, S) = d * (n * (d * w - m * m)) + (-m) * 0
  BY <1>5, <1>6, <1>7, <1>8
<1>10. d * (n * (d * w - m * m)) \in Int
  BY <1>1
<1> QED
  BY <1>1, <1>3, <1>9, <1>10 DEF d, n, w, m

(***************************************************************************)
(* The mean of 0 .. n - 1.                                                 *)
(***************************************************************************)
LEMMA MeanIndex ==
    ASSUME NEW v \in Seq(Int)
    PROVE  2 * SumX(v) = Len(v) * (Len(v) - 1)
<1> DEFINE S == DOMAIN v
           n == Len(v)
           x == Index(v)
           y == [i \in S |-> n - i]
           b == [i \in S |-> n + 1 - i]
           both == [i \in S |-> n - 1]
           one == 1
           again == 1
<1>1. IsFiniteSet(S) /\ n \in Nat /\ S = 1..n /\ Cardinality(S) = n
  BY PointsTyped
<1>2. \A i \in S : x[i] = i - 1 /\ y[i] = n - i /\ b[i] = n + 1 - i /\ both[i] = n - 1 /\ i \in Int
  BY <1>1, DeviationsTyped DEF X
<1>3. b \in Bijection(S, S)
  <2>1. b \in [S -> S]
    BY <1>1
  <2>2. \A i, j \in S : b[i] = b[j] => i = j
    BY <1>1
  <2>3. \A i \in S : b[i] \in S /\ b[b[i]] = i
    BY <1>1
  <2> HIDE DEF b
  <2> QED
    BY <2>1, <2>2, <2>3 DEF Bijection, Injection, Surjection, IsInjective
<1>4. /\ one \in Int /\ again \in Int
      /\ \A i \in S : x[i] \in Int /\ y[i] \in Int /\ both[i] = one * x[i] + again * y[i]
  <2> SUFFICES ASSUME NEW i \in S
               PROVE  x[i] \in Int /\ y[i] \in Int /\ both[i] = 1 * x[i] + 1 * y[i]
    OBVIOUS
  <2>1. x[i] = i - 1 /\ y[i] = n - i /\ both[i] = n - 1 /\ i \in Int /\ n \in Int
    BY <1>1, <1>2
  <2> HIDE DEF x, y, both, n
  <2> QED
    BY <2>1
<1>5. \A i \in S : x[i] \in Int /\ y[b[i]] = x[i]
  BY <1>1, <1>2
<1>6. n - 1 \in Int
  BY <1>1
<1>7. SumX(v) = SumFunctionOnSet(x, S)
  BY SumIsOnDomain DEF SumX, Index
<1> HIDE DEF S, n, x, y, b, both, one, again
<1>8. SumFunctionOnSet(x, S) = SumFunctionOnSet(y, S)
  BY ONLY <1>1, <1>3, <1>5, SumRenamed
<1>9. SumFunctionOnSet(both, S) = one * SumFunctionOnSet(x, S) + again * SumFunctionOnSet(y, S)
  <2>1. IsFiniteSet(S)
    BY <1>1
  <2> QED
    BY ONLY <1>4, <2>1, SumLinear
<1>10. SumFunctionOnSet(both, S) = (n - 1) * Cardinality(S)
  BY <1>1, <1>2, <1>6, SumConstant
<1>11. SumFunctionOnSet(x, S) \in Int
  BY <1>1, <1>4, SumInt
<1> QED
  BY <1>1, <1>7, <1>8, <1>9, <1>10, <1>11 DEF one, again, n

(***************************************************************************)
(* From the middle of the series on, the months are later than the mean.   *)
(***************************************************************************)
LEMMA RunSigns ==
    ASSUME NEW v \in Seq(Int), Len(v) >= 2
    PROVE  \E p \in 1..(Len(v) - 1) :
             /\ \A i \in DOMAIN v : (i <= p => Run(v)[i] <= 0) /\ (p < i => Run(v)[i] > 0)
<1> DEFINE n == Len(v)
           p == (n + 1) \div 2
<1>1. n \in Nat /\ n >= 2 /\ DOMAIN v = 1..n /\ 2 * SumX(v) = n * (n - 1) /\ SumX(v) \in Int
  BY PointsTyped, MeanIndex
<1>2. p \in 1..(n - 1) /\ 2 * p <= n + 1 /\ n <= 2 * p
  BY <1>1
<1>3. ASSUME NEW i \in DOMAIN v
      PROVE  (i <= p => Run(v)[i] <= 0) /\ (p < i => Run(v)[i] > 0)
  <2> DEFINE k == 2 * (i - 1) - (n - 1)
  <2>1. i \in Int /\ i >= 1 /\ i <= n
    BY <1>1
  <2>2. Run(v)[i] = n * (i - 1) - SumX(v) /\ Run(v)[i] \in Int
    BY <1>1, DeviationsTyped DEF Run, X
  <2>3. 2 * Run(v)[i] = n * k
    <3>1. n * k = 2 * (n * (i - 1)) - n * (n - 1)
      <4> DEFINE e == i - 1
                 f == n - 1
      <4>1. e \in Int /\ f \in Int /\ n \in Int /\ k = 2 * e - f
        BY <1>1, <2>1
      <4> HIDE DEF e, f, k, n
      <4>2. n * (2 * e - f) = 2 * (n * e) - n * f
        BY <4>1
      <4> QED
        BY <4>1, <4>2 DEF e, f
    <3> QED
      BY <1>1, <2>1, <2>2, <3>1
  <2>4. (i <= p => k <= 0) /\ (p < i => k >= 1) /\ k \in Int
    <3> HIDE DEF n, p
    <3> QED
      BY <1>1, <1>2, <2>1
  <2> HIDE DEF k, n, p
  <2>5. (k <= 0 => n * k <= 0) /\ (k >= 1 => n * k >= 1)
    BY <1>1, <2>4
  <2> QED
    BY <2>2, <2>3, <2>4, <2>5
<1> QED
  BY <1>2, <1>3

LEMMA SpreadPositive ==
    ASSUME NEW v \in Seq(Int), Len(v) >= 2
    PROVE  Spread(v) > 0
<1> DEFINE n == Len(v)
<1>1. n \in Nat /\ n \in DOMAIN v /\ IsFiniteSet(DOMAIN v)
  BY PointsTyped
<1>2. Run(v)[n] # 0 /\ \A i \in DOMAIN v : Run(v)[i] \in Int
  <2>1. PICK p \in 1..(n - 1) : \A i \in DOMAIN v : p < i => Run(v)[i] > 0
    BY RunSigns
  <2>2. p < n /\ \A i \in DOMAIN v : Run(v)[i] \in Int
    BY <1>1, DeviationsTyped
  <2>3. Run(v)[n] > 0 /\ Run(v)[n] \in Int
    BY <1>1, <2>1, <2>2
  <2> QED
    BY <2>2, <2>3
<1>3. n * Spread(v) > 0
  <2>1. Dot(Run(v), Run(v), DOMAIN v) > 0
    BY <1>1, <1>2, DotOfSquares
  <2> QED
    BY <2>1, Deviations
<1>4. Spread(v) \in Int
  BY RegressionTyped
<1>5. Spread(v) <= 0 => n * Spread(v) <= 0
  <2> HIDE DEF n
  <2> QED
    BY <1>1, <1>4
<1>6. n * Spread(v) \in Int
  BY <1>1, <1>4
<1> QED
  BY <1>3, <1>4, <1>5, <1>6
(***************************************************************************)
(* The series fits if the square of the correlation is at least one half;  *)
(* a series without variance never changes.                                *)
(***************************************************************************)
LEMMA FitsIs ==
    ASSUME NEW v \in Seq(Int), Len(v) >= 2
    PROVE  Fits(v) <=> Variance(v) = 0 \/ 2 * Slope(v) * Slope(v) >= Spread(v) * Variance(v)
<1> DEFINE n == Len(v)
           d == Spread(v)
           m == Slope(v)
           w == Variance(v)
           c == d * n
<1>1. n \in Nat /\ n >= 2 /\ d \in Int /\ d > 0 /\ m \in Int /\ w \in Int
  BY PointsTyped, RegressionTyped, SpreadPositive
<1>2. SSTot(v) = d * (d * (n * w)) /\ SSRes(v) = d * (n * (d * w - m * m))
  BY SSTotIs, SSResIs
<1>3. Fits(v) <=> SSTot(v) = 0 \/ 2 * SSRes(v) <= SSTot(v)
  BY DEF Fits
<1> HIDE DEF n, d, m, w
<1>4. d * w \in Int /\ m * m \in Int /\ c \in Nat /\ c > 0
  BY <1>1
<1>5. SSTot(v) = c * (d * w) /\ SSRes(v) = c * (d * w - m * m)
  BY <1>1, <1>2
<1> HIDE DEF c
<1>6. \A k \in Int : (k > 0 => c * k > 0) /\ (k < 0 => c * k < 0) /\ (k = 0 => c * k = 0)
  BY <1>4
<1>7. SSTot(v) = 0 <=> w = 0
  <2>1. (w > 0 => d * w > 0) /\ (w < 0 => d * w < 0) /\ (w = 0 => d * w = 0)
    BY <1>1
  <2> QED
    BY <1>1, <1>4, <1>5, <1>6, <2>1
<1>8. 2 * SSRes(v) <= SSTot(v) <=> 2 * (m * m) >= d * w
  <2> DEFINE k == 2 * (m * m) - d * w
  <2>1. k \in Int /\ SSTot(v) - 2 * SSRes(v) = c * k /\ SSTot(v) \in Int /\ SSRes(v) \in Int
    <3> DEFINE x == d * w
               y == m * m
    <3>1. x \in Int /\ y \in Int /\ c \in Int
      BY <1>4
    <3>2. \A p, q, z \in Int : p * q - 2 * (p * (q - z)) = p * (2 * z - q)
      OBVIOUS
    <3>3. SSTot(v) = c * x /\ SSRes(v) = c * (x - y) /\ k = 2 * y - x
      BY <1>5
    <3> HIDE DEF x, y, k
    <3>4. c * x - 2 * (c * (x - y)) = c * k
      BY <3>1, <3>2, <3>3
    <3>5. c * x \in Int /\ c * (x - y) \in Int /\ k \in Int
      BY <3>1, <3>3
    <3> QED
      BY <3>3, <3>4, <3>5
  <2>2. c * k >= 0 <=> k >= 0
    <3> HIDE DEF k
    <3> QED
      BY <1>4, <1>6, <2>1
  <2>3. c * k \in Int
    BY <1>4, <2>1
  <2>4. k >= 0 <=> 2 * (m * m) >= d * w
    BY <1>4
  <2> HIDE DEF k
  <2> QED
    BY <2>1, <2>2, <2>3, <2>4
<1>9. 2 * m * m = 2 * (m * m)
  BY <1>1
<1> QED
  BY <1>3, <1>7, <1>8, <1>9 DEF n, d, m, w

LEMMA NoVariance ==
    ASSUME NEW v \in Seq(Int), Len(v) >= 2
    PROVE  Variance(v) >= 0 /\ (Variance(v) = 0 => \A i \in DOMAIN v : v[i] = v[1])
<1> DEFINE n == Len(v)
           a == Rise(v)
           S == DOMAIN v
           w == Variance(v)
           sy == SumY(v)
<1>1. /\ n \in Nat /\ n >= 2 /\ w \in Int /\ sy \in Int /\ IsFiniteSet(S) /\ 1 \in S
      /\ \A i \in S : a[i] \in Int /\ v[i] \in Int /\ a[i] = n * v[i] - sy
  BY PointsTyped, RegressionTyped, DeviationsTyped DEF Rise
<1>2. Dot(a, a, S) = n * w
  BY Deviations
<1>3. Dot(a, a, S) \in Nat /\ \A i \in S : a[i] # 0 => Dot(a, a, S) > 0
  <2> HIDE DEF a, S, n, w, sy
  <2> QED
    BY ONLY <1>1, DotOfSquares
<1> HIDE DEF n, a, S, w, sy
<1>4. (w < 0 => n * w < 0) /\ (w = 0 => n * w = 0)
  BY <1>1
<1>5. w >= 0
  BY <1>1, <1>2, <1>3, <1>4
<1>6. ASSUME w = 0, NEW i \in S PROVE v[i] = v[1]
  <2>1. a[i] = 0 /\ a[1] = 0
    BY <1>1, <1>2, <1>3, <1>4, <1>6
  <2>2. v[i] \in Int /\ v[1] \in Int /\ n * v[i] - sy = 0 /\ n * v[1] - sy = 0
    BY <1>1, <2>1
  <2>3. n * (v[i] - v[1]) = 0
    <3> DEFINE y == v[i]
               z == v[1]
    <3>1. y \in Int /\ z \in Int /\ n * y - sy = 0 /\ n * z - sy = 0
      BY <2>2
    <3> HIDE DEF y, z
    <3>2. n * (y - z) = n * y - n * z /\ n * y \in Int /\ n * z \in Int
      BY <1>1, <3>1
    <3>3. n * (y - z) = 0
      <4> DEFINE ny == n * y
                 nz == n * z
                 nyz == n * (y - z)
      <4>1. ny \in Int /\ nz \in Int /\ ny - sy = 0 /\ nz - sy = 0 /\ nyz = ny - nz
        BY <3>1, <3>2
      <4> HIDE DEF ny, nz, nyz
      <4>2. nyz = 0
        BY <1>1, <4>1
      <4> QED
        BY <4>2 DEF nyz
    <3> QED
      BY <3>3 DEF y, z
  <2> DEFINE k == v[i] - v[1]
  <2>4. k \in Int
    BY <1>1
  <2>5. k = 0
    <3> HIDE DEF k
    <3>1. (k > 0 => n * k > 0) /\ (k < 0 => n * k < 0)
      BY <1>1, <2>4
    <3> QED
      BY <2>3, <2>4, <3>1 DEF k
  <2> QED
    BY <1>1, <2>5
<1> QED
  BY <1>5, <1>6 DEF w, S

(***************************************************************************)
(* A series that only rises has a positive slope, one that never rises has *)
(* none.                                                                   *)
(***************************************************************************)
LEMMA NeverFalls ==
    ASSUME NEW v \in Seq(Int), \A i \in 2..Len(v) : v[i - 1] <= v[i],
           NEW i \in DOMAIN v, NEW j \in DOMAIN v, i <= j
    PROVE  v[i] <= v[j]
<1> SUFFICES ASSUME v[i] > v[j] PROVE FALSE
  BY PointsTyped
<1> DEFINE Less == {k \in i..Len(v) : v[k] < v[i]}
<1>1. /\ Len(v) \in Nat /\ i \in 1..Len(v) /\ j \in 1..Len(v) /\ \A k \in 1..Len(v) : v[k] \in Int
  BY PointsTyped
<1>2. Less \in SUBSET Int /\ IsFiniteSet(Less) /\ Less # {}
  <2>1. j \in Less
    BY <1>1
  <2>2. IsFiniteSet(i..Len(v))
    BY <1>1, FS_Interval
  <2> QED
    BY <1>1, <2>1, <2>2, FS_Subset
<1> DEFINE k == Min(Less)
<1>3. k \in Less /\ \A l \in Less : k <= l
  <2> HIDE DEF Less
  <2> QED
    BY <1>2, Extremes
<1> HIDE DEF k
<1>4. k # i /\ k \in 2..Len(v) /\ k - 1 \in i..Len(v)
  BY <1>1, <1>3
<1>5. k - 1 \notin Less
  BY <1>3, <1>4
<1>6. v[k - 1] >= v[i] /\ v[k] < v[i] /\ v[k - 1] <= v[k] /\ k \in 1..Len(v) /\ k - 1 \in 1..Len(v)
  <2>1. k \in 1..Len(v) /\ k - 1 \in 1..Len(v)
    BY <1>1, <1>4
  <2>2. v[k] < v[i]
    BY <1>3
  <2>3. ~(v[k - 1] < v[i])
    BY <1>4, <1>5
  <2>4. v[k - 1] <= v[k]
    BY <1>1, <1>4
  <2>5. v[k - 1] \in Int /\ v[i] \in Int
    BY <1>1, <2>1
  <2> QED
    BY <2>1, <2>2, <2>3, <2>4, <2>5
<1> QED
  BY <1>1, <1>6

LEMMA SlopeAround ==
    ASSUME NEW v \in Seq(Int), NEW k \in Int
    PROVE  Slope(v) = SumFunctionOnSet([i \in DOMAIN v |-> (v[i] - k) * Run(v)[i]], DOMAIN v)
<1> DEFINE S == DOMAIN v
           w == [i \in S |-> v[i] - k]
           once == 1
           b == Run(v)
           o == One(v)
<1>1. IsFiniteSet(S) /\ once \in Int /\ -k \in Int
  BY PointsTyped
<1>2. ASSUME NEW i \in S
      PROVE  v[i] \in Int /\ o[i] \in Int /\ b[i] \in Int /\ w[i] = once * v[i] + (-k) * o[i]
  <2>1. v[i] \in Int /\ o[i] = 1 /\ o[i] \in Int /\ b[i] \in Int
    BY DeviationsTyped
  <2> QED
    BY <2>1
<1>3. Dot(v, b, S) = Slope(v) /\ Dot(o, b, S) = 0 /\ Slope(v) \in Int
  <2>1. \A i \in S : v[i] \in Int /\ o[i] \in Int /\ b[i] \in Int
    BY <1>2
  <2> HIDE DEF b, o
  <2>2. Dot(v, b, S) = Dot(b, v, S) /\ Dot(o, b, S) = Dot(b, o, S)
    BY <1>1, <2>1, DotSymmetric
  <2> QED
    BY <2>2, DeviationsOfPoints, RegressionTyped DEF b, o
<1>4. SumFunctionOnSet([i \in DOMAIN v |-> (v[i] - k) * Run(v)[i]], DOMAIN v) = Dot(w, b, S)
  <2>1. \A i \in S : (v[i] - k) * Run(v)[i] = w[i] * b[i]
    OBVIOUS
  <2> QED
    BY <2>1 DEF Dot
<1> HIDE DEF S, w, once, b, o
<1>5. Dot(w, b, S) = once * Dot(v, b, S) + (-k) * Dot(o, b, S)
  BY ONLY <1>1, <1>2, DotLinear
<1> QED
  BY <1>1, <1>3, <1>4, <1>5 DEF once

LEMMA ProductOfSigns ==
    ASSUME NEW x \in Int, NEW y \in Int, (x <= 0 /\ y <= 0) \/ (x >= 0 /\ y >= 0)
    PROVE  x * y \in Nat
<1>1. CASE x >= 0 /\ y >= 0
  BY <1>1
<1>2. CASE x <= 0 /\ y <= 0
  <2>1. x * y = (-x) * (-y)
    OBVIOUS
  <2>2. -x \in Nat /\ -y \in Nat
    BY <1>2
  <2> QED
    BY <2>1, <2>2
<1> QED
  BY <1>1, <1>2

LEMMA RisingSlope ==
    ASSUME NEW v \in Seq(Int), Len(v) >= 2, \A i \in 2..Len(v) : v[i - 1] < v[i]
    PROVE  Slope(v) > 0
<1> DEFINE n == Len(v)
           S == DOMAIN v
           b == Run(v)
<1>1. /\ n \in Nat /\ S = 1..n /\ IsFiniteSet(S) /\ n \in S /\ n - 1 \in S
      /\ \A i \in S : v[i] \in Int /\ b[i] \in Int
  BY PointsTyped, DeviationsTyped
<1>2. PICK p \in 1..(n - 1) : \A i \in S : (i <= p => b[i] <= 0) /\ (p < i => b[i] > 0)
  BY RunSigns
<1>3. \A i \in 2..Len(v) : v[i - 1] <= v[i]
  BY <1>1
<1>4. \A i, j \in S : i <= j => v[i] <= v[j]
  BY <1>3, NeverFalls
<1>5. p \in S /\ v[p] \in Int /\ p < n /\ p <= n - 1
  BY <1>1
<1>6. v[p] < v[n]
  <2>1. n \in 2..Len(v)
    BY <1>1
  <2>2. v[p] <= v[n - 1] /\ v[n - 1] < v[n] /\ v[n - 1] \in Int
    BY <1>1, <1>4, <1>5, <2>1
  <2> QED
    BY <1>1, <1>5, <2>2
<1> DEFINE f == [i \in S |-> (v[i] - v[p]) * b[i]]
<1>7. ASSUME NEW i \in S PROVE f[i] \in Nat
  <2>1. /\ i <= p => v[i] - v[p] <= 0 /\ b[i] <= 0
        /\ p < i => v[i] - v[p] >= 0 /\ b[i] >= 0
    <3> HIDE DEF b
    <3>1. i \in Int /\ p \in Int /\ v[i] \in Int /\ b[i] \in Int
      BY <1>1, <1>5
    <3>2. (i <= p => v[i] <= v[p] /\ b[i] <= 0) /\ (p < i => v[p] <= v[i] /\ b[i] > 0)
      BY <1>2, <1>4, <1>5, <3>1
    <3> QED
      BY <1>5, <3>1, <3>2
  <2>2. i \in Int /\ p \in Int /\ v[i] - v[p] \in Int /\ b[i] \in Int
    BY <1>1, <1>5
  <2> DEFINE x == v[i] - v[p]
             y == b[i]
  <2>3. x \in Int /\ y \in Int /\ ((x <= 0 /\ y <= 0) \/ (x >= 0 /\ y >= 0))
    BY <2>1, <2>2
  <2> HIDE DEF x, y
  <2>4. x * y \in Nat
    BY <2>3, ProductOfSigns
  <2> QED
    BY <2>4 DEF x, y
<1>8. f[n] > 0
  <2>1. v[n] - v[p] > 0 /\ b[n] > 0 /\ v[n] - v[p] \in Int /\ b[n] \in Int
    BY <1>1, <1>2, <1>5, <1>6
  <2>2. f[n] = (v[n] - v[p]) * b[n]
    BY <1>1
  <2>3. \A x, y \in Int : x > 0 /\ y > 0 => x * y > 0
    OBVIOUS
  <2> QED
    BY <2>1, <2>2, <2>3
<1>9. Slope(v) = SumFunctionOnSet(f, S)
  BY <1>5, SlopeAround
<1> HIDE DEF f, S
<1> QED
  BY <1>1, <1>7, <1>8, <1>9, SumPositive

LEMMA FallingSlope ==
    ASSUME NEW v \in Seq(Int), Len(v) >= 2, \A i \in 2..Len(v) : v[i] <= v[i - 1]
    PROVE  Slope(v) <= 0
<1> DEFINE n == Len(v)
           S == DOMAIN v
           b == Run(v)
           u == [i \in S |-> -v[i]]
           zero == [i \in S |-> 0]
<1>1. /\ n \in Nat /\ S = 1..n /\ IsFiniteSet(S)
      /\ \A i \in S : v[i] \in Int /\ b[i] \in Int
  BY PointsTyped, DeviationsTyped
<1>2. PICK p \in 1..(n - 1) : \A i \in S : (i <= p => b[i] <= 0) /\ (p < i => b[i] > 0)
  BY RunSigns
<1>3. u \in Seq(Int) /\ Len(u) = n /\ DOMAIN u = S
  BY <1>1
<1>4. \A i \in 2..Len(u) : u[i - 1] <= u[i]
  <2> SUFFICES ASSUME NEW i \in 2..n PROVE u[i - 1] <= u[i]
    BY <1>3
  <2>1. v[i] <= v[i - 1] /\ i \in S /\ i - 1 \in S
    BY <1>1
  <2> QED
    BY <1>1, <2>1
<1>5. \A i, j \in S : i <= j => u[i] <= u[j]
  <2> HIDE DEF u
  <2> QED
    BY <1>3, <1>4, NeverFalls
<1>6. \A i, j \in S : i <= j => v[j] <= v[i]
  BY <1>1, <1>5
<1>7. p \in S /\ v[p] \in Int
  BY <1>1
<1> DEFINE f == [i \in S |-> (v[i] - v[p]) * b[i]]
<1>8. ASSUME NEW i \in S PROVE f[i] \in Int /\ f[i] <= 0
  <2> DEFINE x == v[p] - v[i]
             y == b[i]
  <2>1. (i <= p => v[p] <= v[i] /\ y <= 0) /\ (p < i => v[i] <= v[p] /\ y > 0)
    BY <1>1, <1>2, <1>6, <1>7
  <2>2. i \in Int /\ p \in Int /\ v[i] \in Int /\ v[p] \in Int /\ y \in Int /\ x \in Int
    BY <1>1, <1>7
  <2>3. (x <= 0 /\ y <= 0) \/ (x >= 0 /\ y >= 0)
    <3> HIDE DEF y
    <3> QED
      BY <2>1, <2>2
  <2>4. f[i] = (-x) * y
    BY <2>2
  <2> HIDE DEF x, y, f
  <2>5. x * y \in Nat
    BY <2>2, <2>3, ProductOfSigns
  <2>6. (-x) * y = -(x * y)
    BY <2>2
  <2> QED
    BY <2>4, <2>5, <2>6
<1>9. Slope(v) = SumFunctionOnSet(f, S)
  BY <1>7, SlopeAround
<1>10. \A i \in S : f[i] \in Int /\ zero[i] \in Int /\ f[i] <= zero[i] /\ zero[i] = 0
  BY <1>8
<1> HIDE DEF f, S, zero
<1>11. SumFunctionOnSet(f, S) <= SumFunctionOnSet(zero, S) /\ SumFunctionOnSet(zero, S) = 0
  BY <1>1, <1>10, SumMonotone, SumZero
<1> QED
  BY <1>9, <1>11
LEMMA TwoPoints ==
    ASSUME NEW v \in Seq(Int), Len(v) = 2
    PROVE  Slope(v) = v[2] - v[1] /\ Spread(v) = 1 /\ Variance(v) = (v[2] - v[1]) * (v[2] - v[1])
<1>1. DOMAIN v = {1, 2} /\ v[1] \in Int /\ v[2] \in Int
  BY PointsTyped
<1>2. ASSUME NEW f, f[1] \in Int, f[2] \in Int PROVE SumFunctionOnSet(f, {1, 2}) = f[1] + f[2]
  <2>1. SumFunctionOnSet(f, {} \cup {1}) = f[1] + SumFunctionOnSet(f, {})
    BY <1>2, FS_EmptySet, SumAdd
  <2>2. SumFunctionOnSet(f, {}) = 0
    BY SumEmpty
  <2>3. IsFiniteSet({1}) /\ 2 \notin {1} /\ \A x \in {1} \cup {2} : f[x] \in Int
    <3>1. IsFiniteSet({1})
      BY FS_Singleton
    <3>2. \A x \in {1} \cup {2} : f[x] \in Int
      BY <1>2
    <3> QED
      BY <3>1, <3>2
  <2>4. SumFunctionOnSet(f, {1} \cup {2}) = f[2] + SumFunctionOnSet(f, {1})
    BY <2>3, SumAdd
  <2>5. {1} \cup {2} = {1, 2} /\ {} \cup {1} = {1}
    OBVIOUS
  <2> QED
    <3>1. SumFunctionOnSet(f, {1}) = f[1]
      BY <1>2, <2>1, <2>2, <2>5
    <3>2. SumFunctionOnSet(f, {1, 2}) = f[2] + f[1]
      BY <2>4, <2>5, <3>1
    <3> QED
      BY <1>2, <3>2
<1>3. SumX(v) = 1
  BY <1>1, <1>2, SumIsOnDomain DEF SumX, X
<1>4. SumY(v) = v[1] + v[2]
  BY <1>1, <1>2, SumIsOnDomain DEF SumY
<1>5. SumXX(v) = 1
  BY <1>1, <1>2, SumIsOnDomain DEF SumXX, X
<1>6. SumXY(v) = v[2]
  BY <1>1, <1>2, SumIsOnDomain DEF SumXY, X
<1>7. SumYY(v) = v[1] * v[1] + v[2] * v[2]
  <2>1. v[1] * v[1] \in Int /\ v[2] * v[2] \in Int
    BY <1>1
  <2> QED
    BY <1>1, <1>2, <2>1, SumIsOnDomain DEF SumYY
<1>8. Spread(v) = 1
  BY <1>3, <1>5 DEF Spread
<1>9. Slope(v) = v[2] - v[1]
  BY <1>1, <1>3, <1>4, <1>6 DEF Slope
<1>10. Variance(v) = (v[2] - v[1]) * (v[2] - v[1])
  <2>1. \A a, b \in Int : 2 * (a * a + b * b) - (a + b) * (a + b) = (b - a) * (b - a)
    OBVIOUS
  <2> QED
    BY <1>1, <1>4, <1>7, <2>1 DEF Variance
<1> QED
  BY <1>8, <1>9, <1>10

(***************************************************************************)
(* The trend of any series of at least two numbers does not contradict its *)
(* points.                                                                 *)
(***************************************************************************)
THEOREM TrendOfAnySeries ==
    ASSUME NEW v \in Seq(Int), Len(v) >= 2
    PROVE  /\ Directions(v) = {"UP"} => OverallTrend(v) # "DECLINING"
           /\ Directions(v) = {"DOWN"} => OverallTrend(v) # "GROWING"
           /\ Len(v) = 2 => OverallTrend(v) = IF v[1] < v[2] THEN "GROWING" ELSE "DECLINING"
           /\ OverallTrend(v) = "DECLINING" /\ Slope(v) = 0 => \A i \in DOMAIN v : v[i] = v[1]
           /\ Fits(v) <=> Variance(v) = 0 \/ 2 * Slope(v) * Slope(v) >= Spread(v) * Variance(v)
<1>1. /\ OverallTrend(v) = "GROWING" <=> Fits(v) /\ Slope(v) > 0
      /\ OverallTrend(v) = "DECLINING" <=> Fits(v) /\ ~(Slope(v) > 0)
  BY DEF OverallTrend
<1>2. /\ Slope(v) \in Int /\ Variance(v) \in Int /\ Spread(v) \in Int /\ Spread(v) > 0
      /\ Len(v) \in Nat /\ DOMAIN v = 1..Len(v) /\ \A i \in 1..Len(v) : v[i] \in Int
  BY RegressionTyped, SpreadPositive, PointsTyped
<1>3. Fits(v) <=> Variance(v) = 0 \/ 2 * Slope(v) * Slope(v) >= Spread(v) * Variance(v)
  BY FitsIs
<1>4. Directions(v) = {"UP"} => OverallTrend(v) # "DECLINING"
  <2> SUFFICES ASSUME Directions(v) = {"UP"} PROVE Slope(v) > 0
    BY <1>1
  <2>1. ASSUME NEW i \in 2..Len(v) PROVE v[i - 1] < v[i]
    <3>1. Direction(v, i) = "UP"
      BY DEF Directions
    <3>2. v[i] - v[i - 1] > 0
      BY <3>1 DEF Direction
    <3>3. v[i] \in Int /\ v[i - 1] \in Int
      BY <1>2
    <3> QED
      BY <3>2, <3>3
  <2> QED
    BY <2>1, RisingSlope
<1>5. Directions(v) = {"DOWN"} => OverallTrend(v) # "GROWING"
  <2> SUFFICES ASSUME Directions(v) = {"DOWN"} PROVE Slope(v) <= 0
    BY <1>1, <1>2
  <2>1. ASSUME NEW i \in 2..Len(v) PROVE v[i] <= v[i - 1]
    <3>1. Direction(v, i) = "DOWN"
      BY DEF Directions
    <3>2. ~(v[i] - v[i - 1] > 0)
      BY <3>1 DEF Direction
    <3>3. v[i] \in Int /\ v[i - 1] \in Int
      BY <1>2
    <3> QED
      BY <3>2, <3>3
  <2> QED
    BY <2>1, FallingSlope
<1>6. Len(v) = 2 => OverallTrend(v) = IF v[1] < v[2] THEN "GROWING" ELSE "DECLINING"
  <2> SUFFICES ASSUME Len(v) = 2
               PROVE  OverallTrend(v) = IF v[1] < v[2] THEN "GROWING" ELSE "DECLINING"
    OBVIOUS
  <2> DEFINE k == v[2] - v[1]
  <2>1. k \in Int /\ Slope(v) = k /\ Spread(v) = 1 /\ Variance(v) = k * k
    BY <1>2, TwoPoints
  <2>2. k > 0 <=> v[1] < v[2]
    BY <1>2
  <2> HIDE DEF k
  <2>3. 2 * k * k >= 1 * (k * k)
    <3>1. k * k \in Nat
      BY <2>1, ProductOfSigns
    <3>2. 2 * k * k = 2 * (k * k)
      BY <2>1
    <3> QED
      BY <3>1, <3>2
  <2>4. Fits(v)
    BY <1>3, <2>1, <2>3
  <2> QED
    BY <1>1, <2>1, <2>2, <2>4
<1>7. OverallTrend(v) = "DECLINING" /\ Slope(v) = 0 => \A i \in DOMAIN v : v[i] = v[1]
  <2> SUFFICES ASSUME Fits(v), Slope(v) = 0 PROVE Variance(v) = 0
    BY <1>1, NoVariance
  <2>1. Variance(v) >= 0
    BY NoVariance
  <2>2. Variance(v) > 0 => Spread(v) * Variance(v) > 0
    BY <1>2
  <2>3. Variance(v) = 0 \/ 0 >= Spread(v) * Variance(v)
    BY <1>3
  <2>4. Spread(v) * Variance(v) \in Int
    BY <1>2
  <2> QED
    BY <1>2, <2>1, <2>2, <2>3, <2>4
<1> QED
  BY <1>3, <1>4, <1>5, <1>6, <1>7

(***************************************************************************)
(* The months in order are all the months: each position has its month.    *)
(***************************************************************************)
LEMMA InOrderIs ==
    ASSUME NEW S \in SUBSET Int, IsFiniteSet(S)
    PROVE  /\ Cardinality(S) \in Nat /\ DOMAIN InOrder(S) = 1..Cardinality(S)
           /\ \A i \in 1..Cardinality(S) : InOrder(S)[i] \in S
<1> DEFINE Before(m) == {k \in S : k < m}
           n == Cardinality(S)
           rank == [m \in S |-> Cardinality(Before(m)) + 1]
<1>1. n \in Nat /\ IsFiniteSet(1..n) /\ Cardinality(1..n) = n
  BY FS_CardinalityType, FS_Interval
<1>2. ASSUME NEW m \in S
      PROVE  IsFiniteSet(Before(m)) /\ Cardinality(Before(m)) \in Nat /\ Cardinality(Before(m)) < n
  <2>1. Before(m) \in SUBSET S /\ Before(m) \in SUBSET (S \ {m})
    OBVIOUS
  <2>2. IsFiniteSet(S \ {m}) /\ Cardinality(S \ {m}) = n - 1
    BY FS_RemoveElement
  <2> HIDE DEF Before
  <2>3. IsFiniteSet(Before(m)) /\ Cardinality(Before(m)) <= n - 1
    BY <2>1, <2>2, FS_Subset
  <2> QED
    BY <1>1, <2>3, FS_CardinalityType
<1>3. ASSUME NEW m \in S, NEW l \in S, m < l PROVE rank[m] < rank[l]
  <2>1. Before(m) \cup {m} \in SUBSET Before(l) /\ m \notin Before(m)
    <3>1. m \in Int /\ l \in Int /\ m < l /\ \A k \in S : k \in Int
      BY <1>3
    <3>2. \A k \in S : k < m => k < l
      BY <3>1
    <3>3. \A k \in Before(m) : k \in Before(l)
      BY <3>2
    <3>4. m \in Before(l)
      BY <3>1
    <3>5. ~(m < m)
      BY <3>1
    <3> QED
      BY <3>3, <3>4, <3>5
  <2>2. rank[m] = Cardinality(Before(m)) + 1 /\ rank[l] = Cardinality(Before(l)) + 1
    OBVIOUS
  <2> HIDE DEF Before, rank
  <2>3. Cardinality(Before(m) \cup {m}) = Cardinality(Before(m)) + 1
    BY <1>2, <2>1, FS_AddElement
  <2>4. Cardinality(Before(m) \cup {m}) <= Cardinality(Before(l))
    BY <1>2, <2>1, FS_Subset
  <2> QED
    BY <1>2, <2>2, <2>3, <2>4
<1>4. rank \in [S -> 1..n]
  BY <1>1, <1>2
<1>5. rank \in Injection(S, 1..n)
  <2>1. ASSUME NEW m \in S, NEW l \in S, rank[m] = rank[l] PROVE m = l
    <3>1. rank[m] \in 1..n /\ rank[l] \in 1..n
      BY <1>4
    <3>2. ~(m < l) /\ ~(l < m)
      <4> HIDE DEF rank
      <4> QED
        BY <1>1, <1>3, <2>1, <3>1
    <3> QED
      BY <3>2
  <2> HIDE DEF rank
  <2> QED
    BY <1>4, <2>1 DEF Injection, IsInjective
<1>6. rank \in Surjection(S, 1..n)
  <2> HIDE DEF rank
  <2> QED
    BY <1>1, <1>5, FS_Injection
<1>7. ASSUME NEW i \in 1..n PROVE \E m \in S : Cardinality(Before(m)) = i - 1
  <2>1. PICK m \in S : rank[m] = i
    BY <1>6 DEF Surjection
  <2>2. Cardinality(Before(m)) + 1 = i /\ Cardinality(Before(m)) \in Nat
    BY <1>2, <2>1
  <2> HIDE DEF Before
  <2>3. Cardinality(Before(m)) = i - 1
    BY <2>2
  <2> QED
    BY <2>3
<1>8. \A i \in 1..n : InOrder(S)[i] \in S
  BY <1>7 DEF InOrder
<1>9. DOMAIN InOrder(S) = 1..n
  BY DEF InOrder
<1> QED
  BY <1>1, <1>8, <1>9

LEMMA SeriesTyped ==
    ASSUME NEW s \in History, NEW day \in Int, NEW periods \in Nat, NEW metric \in Metrics
    PROVE  Values(s, day, periods, metric) \in Seq(Int)
<1> DEFINE S == Months(s, day, periods)
           n == Cardinality(S)
           v == Values(s, day, periods, metric)
<1>1. S \in SUBSET Int /\ IsFiniteSet(S)
  <2> DEFINE J == {j \in DOMAIN s : Month(s[j].day) >= Month(day) - periods}
             month == [j \in J |-> Month(s[j].day)]
  <2>1. S = {month[j] : j \in J}
    BY DEF Months
  <2>2. IsFiniteSet(J)
    BY LotsOf, FS_Subset
  <2>3. \A j \in J : month[j] \in Int
    BY LotsOf DEF Month
  <2>4. month \in Surjection(J, {month[j] : j \in J})
    BY DEF Surjection
  <2> HIDE DEF J, month, S
  <2>5. IsFiniteSet({month[j] : j \in J})
    BY <2>2, <2>4, FS_Surjection
  <2> QED
    BY <2>1, <2>3, <2>5
<1>2. /\ n \in Nat /\ DOMAIN InOrder(S) = 1..n /\ \A i \in 1..n : InOrder(S)[i] \in S
  <2> HIDE DEF S
  <2> QED
    BY <1>1, InOrderIs
<1>3. v = [i \in 1..n |-> Value(s, Bucket(s, InOrder(S)[i]), metric)]
  BY <1>2 DEF Values
<1>4. ASSUME NEW m \in S PROVE Value(s, Bucket(s, m), metric) \in Int
  <2> DEFINE I == Bucket(s, m)
  <2>1. I \in SUBSET (DOMAIN s) /\ I # {}
    BY DEF Bucket, Months
  <2> HIDE DEF I
  <2>2. /\ CountIn(s, I) \in Nat /\ ApprovedIn(s, I) \in Nat /\ TPVIn(s, I) \in Nat /\ AmountIn(s, I) \in Nat
        /\ CountIn(s, I) > 0
    BY <2>1, SumsTyped
  <2>3. /\ Scale * 100 * ApprovedIn(s, I) \in Int /\ Scale * AmountIn(s, I) \in Int
        /\ CountIn(s, I) \in Nat \ {0}
    BY <2>2, PortfolioAssumption DEF PortfolioAssumption
  <2>4. \A a \in Int, b \in Nat \ {0} : RoundDiv(a, b) \in Int
    BY RoundDivBounds
  <2>5. /\ RoundDiv(Scale * 100 * ApprovedIn(s, I), CountIn(s, I)) \in Int
        /\ RoundDiv(Scale * AmountIn(s, I), CountIn(s, I)) \in Int
    BY ONLY <2>3, <2>4
  <2> QED
    BY <2>2, <2>5 DEF Value, Metrics, I
<1> HIDE DEF S, n, v
<1>5. v \in [1..n -> Int]
  BY <1>2, <1>3, <1>4
<1> QED
  BY <1>2, <1>5 DEF v

(***************************************************************************)
(* No trend that can be shown contradicts its points.                      *)
(***************************************************************************)
THEOREM TrendSoundInvariant == Spec => []TrendSound
<1>1. HistoryInv => TrendSound
  <2> SUFFICES ASSUME HistoryInv, NEW v \in Series, Len(v) >= 2
               PROVE  /\ Directions(v) = {"UP"} => OverallTrend(v) # "DECLINING"
                      /\ Directions(v) = {"DOWN"} => OverallTrend(v) # "GROWING"
                      /\ Len(v) = 2 => OverallTrend(v) = IF v[1] < v[2] THEN "GROWING" ELSE "DECLINING"
                      /\ OverallTrend(v) = "DECLINING" /\ Slope(v) = 0 => \A i \in DOMAIN v : v[i] = v[1]
                      /\ Fits(v) <=> Variance(v) = 0 \/ 2 * Slope(v) * Slope(v) >= Spread(v) * Variance(v)
    BY DEF TrendSound, Variance, SumYY
  <2>1. PICK c \in Selling, m \in Metrics : v = Values(sold[c], today, Periods, m)
    BY DEF Series
  <2>2. sold[c] \in History /\ today \in Int /\ Periods \in Nat
    BY PortfolioAssumption DEF PortfolioAssumption, Selling, HistoryInv, LotsSound, TypeOK
  <2>3. v \in Seq(Int)
    BY <2>1, <2>2, SeriesTyped
  <2> QED
    BY <2>3, TrendOfAnySeries
<1> QED
  BY <1>1, HistoryInvariant, PTL
=============================================================================
