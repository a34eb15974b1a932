----------------------------- MODULE Portfolio -----------------------------
(***************************************************************************)
(* What the insights, ROI and trends say of a portfolio of payment methods *)
(* as it sells and time passes.  Lots of transactions arrive, dated today, *)
(* earlier or later (the API takes any date); a client asks for the        *)
(* insights again and again, and the three detectors run at the same time, *)
(* each on a snapshot of its own.  InsightDetection has their goroutines   *)
(* and errors, here they all succeed.                                      *)
(***************************************************************************)
EXTENDS Analytics

CONSTANTS
    Cells,              \* pairs <<payment method, country>>
    Peers,              \* cells with the same country and type, by cell
    Costs,              \* integration_costs in effect, by cell
    Filter,             \* cells of the country asked for, or all
    Histories,          \* lots each cell may have sold at the beginning
    Lots,               \* [n, ok, price] that a post may bring
    Periods,            \* periods_back
    Back,               \* how many days ago a posted lot was sold; -n: in n days
    Step,               \* days that pass at a time
    MaxToday,           \* bound: the last day
    MaxPosts            \* bound: lots that are posted

Lot == [n : Nat \ {0}, ok : Nat, price : Nat, day : Int]

ASSUME PortfolioAssumption ==
    /\ IsFiniteSet(Cells)
    /\ Peers \in [Cells -> SUBSET Cells] /\ \A c \in Cells : c \in Peers[c]
    /\ DOMAIN Costs \subseteq Cells
    /\ \A c \in DOMAIN Costs : Costs[c] \in [fixed : Nat, perTxn : Nat, fee : Nat]
    /\ Filter \subseteq Cells
    /\ Histories \subseteq [Cells -> Seq(Lot)]
    /\ \A h \in Histories : \A c \in Cells : \A i \in DOMAIN h[c] : h[c][i].ok <= h[c][i].n
    /\ Lots \subseteq [n : Nat \ {0}, ok : Nat, price : Nat]
    /\ \A lot \in Lots : lot.ok <= lot.n
    /\ Back \subseteq Int /\ Periods \in Nat \ {0} /\ Step \in Nat \ {0}
    /\ MaxToday \in Nat /\ MaxPosts \in Nat /\ Scale \in Nat \ {0}

VARIABLES
    sold,               \* transactions of each cell
    today,
    posted,
    pending,            \* detectors that have not answered yet
    zombies,            \* severity of the zombies of the answer, by cell
    gems, alerts,       \* likewise
    touched             \* cells that sold since the client asked

answer == <<pending, zombies, gems, alerts>>
vars == <<sold, today, posted, answer, touched>>

Detectors == {"zombie", "hidden_gem", "performance_alert"}
Severities == {"LOW", "MEDIUM", "HIGH"}

Init == /\ sold \in Histories
        /\ today = 0 /\ posted = 0
        /\ pending = {}
        /\ zombies = <<>> /\ gems = <<>> /\ alerts = <<>>
        /\ touched = {}

-----------------------------------------------------------------------------
(* The queries of the three detectors. *)

(* integration_costs without an end, and what the last 90 days brought.    *)
Zombie(c) == IsZombie(Recent(sold[c], today), Count(sold[c]), Days(sold[c]))

(* Mutant: methods without an integration are listed, too.                 *)
ZombiesUnjoined ==
    [c \in {d \in Filter : Zombie(d)} |->
        ZombieSeverity(Recent(sold[c], today), Count(sold[c]), Days(sold[c]))]

Zombies ==
    [c \in {d \in DOMAIN Costs \cap Filter : Zombie(d)} |->
        ZombieSeverity(Recent(sold[c], today), Count(sold[c]), Days(sold[c]))]

Selling == {c \in Filter : sold[c] # <<>>}

Gems ==
    LET allTPV == SumFunction([c \in Selling |-> TPV(sold[c])])
        allCount == SumFunction([c \in Selling |-> Count(sold[c])])
        gem(c) == IsGem(ApprovedCount(sold[c]), Count(sold[c]), TPV(sold[c]), allTPV, allCount)
    IN  [c \in {d \in Selling : gem(d)} |-> GemSeverity(TPV(sold[c]), allTPV)]

SoldByPeers(c) == [p \in Selling \cap Peers[c] |-> sold[p]]

Alerts == [c \in {d \in Selling : IsAlert(SoldByPeers(d), d)} |-> AlertSeverity(SoldByPeers(c), c)]

-----------------------------------------------------------------------------
(* Something happens, to the cells C: an answer that is complete has been  *)
(* read by then.                                                           *)
Meanwhile(C) ==
    /\ touched' = IF pending = {} THEN {} ELSE touched \cup C
    /\ IF pending = {} THEN zombies' = <<>> /\ gems' = <<>> /\ alerts' = <<>> /\ pending' = {}
       ELSE UNCHANGED answer

Post(c, lot, back) ==
    /\ posted < MaxPosts
    /\ posted' = posted + 1
    /\ sold' = [sold EXCEPT ![c] = Append(@, [n |-> lot.n, ok |-> lot.ok, price |-> lot.price,
                                              day |-> today - back])]
    /\ Meanwhile({c})
    /\ UNCHANGED today

Tick == /\ today + Step <= MaxToday
        /\ today' = today + Step
        /\ Meanwhile({})
        /\ UNCHANGED <<sold, posted>>

(* DetectInsights starts three goroutines ...                              *)
Ask == /\ pending = {}
       /\ pending' = Detectors
       /\ zombies' = <<>> /\ gems' = <<>> /\ alerts' = <<>>
       /\ touched' = {}
       /\ UNCHANGED <<sold, today, posted>>

(* ... which run their queries in any order.                               *)
Detect(d) == d \in pending /\ pending' = pending \ {d}

DetectZombies == /\ Detect("zombie")
                 /\ zombies' = Zombies
                 /\ UNCHANGED <<sold, today, posted, gems, alerts, touched>>

DetectHiddenGems == /\ Detect("hidden_gem")
                    /\ gems' = Gems
                    /\ UNCHANGED <<sold, today, posted, zombies, alerts, touched>>

DetectPerformanceAlerts == /\ Detect("performance_alert")
                           /\ alerts' = Alerts
                           /\ UNCHANGED <<sold, today, posted, zombies, gems, touched>>

Next == \/ \E c \in Cells, lot \in Lots, back \in Back : Post(c, lot, back)
        \/ Tick
        \/ Ask
        \/ DetectZombies \/ DetectHiddenGems \/ DetectPerformanceAlerts

Spec == Init /\ [][Next]_vars

-----------------------------------------------------------------------------
IsListing(f, S) == DOMAIN f \subseteq S /\ Range(f) \subseteq Severities

TypeOK == /\ sold \in [Cells -> Seq(Lot)]
          /\ today \in 0..MaxToday /\ posted \in 0..MaxPosts
          /\ pending \subseteq Detectors
          /\ IsListing(zombies, DOMAIN Costs \cap Filter)
          /\ IsListing(gems, Filter) /\ IsListing(alerts, Filter)
          /\ touched \subseteq Cells

(* No method is praised for its approval rate and blamed for it in one     *)
(* answer, although the two queries have snapshots of their own - unless   *)
(* it sold something itself in between.  What the others sell, which moves *)
(* the averages both are compared with, does not do it.                    *)
NeverPraisedAndBlamed == DOMAIN gems \cap DOMAIN alerts \subseteq touched

Rank == [LOW |-> 1, MEDIUM |-> 2, HIGH |-> 3]

(* Time that passes without a transaction makes no zombie better: it       *)
(* stays one, and is as severe or more.                                    *)
SilenceOnlyWorsens ==
    [][sold' = sold => \A c \in DOMAIN Zombies :
          c \in DOMAIN Zombies' /\ Rank[Zombies[c]] <= Rank[Zombies'[c]]]_<<sold, today>>

(* A transaction of the last 90 days makes a zombie of a method only by    *)
(* making it established, when the minimum jumps from 5 to 10.             *)
TrafficNeverKills ==
    [][\A c \in DOMAIN Costs \cap Filter :
          /\ today' = today /\ Zombie(c)' /\ ~Zombie(c)
          /\ sold'[c][Len(sold'[c])].day >= today - 90
          => ~Established(Days(sold[c])) /\ Established(Days(sold'[c]))]_<<sold, today>>

(* The activity status of the metrics and the zombies tell one story: an   *)
(* established method that is not ACTIVE is a zombie, INACTIVE ones are    *)
(* severe, and an ACTIVE zombie is one whose traffic collapsed.            *)
StatusesAgree ==
    \A c \in DOMAIN Costs \cap Selling :
        LET status == ActivityStatus(Recent(sold[c], today))
        IN  /\ Established(Days(sold[c])) /\ status # "ACTIVE" => c \in DOMAIN Zombies
            /\ status = "INACTIVE" => Zombies[c] = "HIGH"
            /\ status = "ACTIVE" /\ c \in DOMAIN Zombies => Zombies[c] = "HIGH"

NoCost == [fixed |-> 0, perTxn |-> 0, fee |-> 0]
CostOf(c) == IF c \in DOMAIN Costs THEN Costs[c] ELSE NoCost

(* Break-even, cost and recommendation are computed apart and agree: a     *)
(* method all of whose transactions are approved loses money below its     *)
(* break-even and covers its costs from there on, and none that earns more *)
(* than it costs is UNPROFITABLE, except by rounding or if it costs        *)
(* nothing.                                                                *)
ROIConsistent ==
    \A c \in Selling :
        LET s == sold[c]  cost == CostOf(c)  total == TotalCost(s, cost)
        IN  /\ BreaksEven(s, cost) /\ ApprovedCount(s) = Count(s) =>
                  IF Count(s) < BreakEven(s, cost)
                  THEN Recommendation(s, cost) = "UNPROFITABLE"
                  ELSE total <= 100 * TPV(s)
            /\ Recommendation(s, cost) = "UNPROFITABLE" =>
                  total = 0 \/ 20000 * (100 * TPV(s) - total) < total

Metrics == {"tpv_usd", "transaction_count", "approval_rate", "avg_transaction_value"}
Series == {Values(sold[c], today, Periods, m) : c \in Selling, m \in Metrics}
Directions(v) == {Direction(v, i) : i \in 2..Len(v)}

(* The trend does not contradict its points: what only goes up is not      *)
(* DECLINING, what only goes down is not GROWING, two points are a trend,  *)
(* and DECLINING without a fall is a series that never changes.  And R     *)
(* squared, computed from the residuals, is the square of the correlation. *)
TrendSound ==
    \A v \in Series : Len(v) >= 2 =>
        LET variance == Len(v) * SumFunction([i \in DOMAIN v |-> v[i] * v[i]]) - SumY(v) * SumY(v)
            trend == OverallTrend(v)
        IN  /\ Directions(v) = {"UP"} => trend # "DECLINING"
            /\ Directions(v) = {"DOWN"} => trend # "GROWING"
            /\ Len(v) = 2 => trend = IF v[1] < v[2] THEN "GROWING" ELSE "DECLINING"
            /\ trend = "DECLINING" /\ Slope(v) = 0 => \A i \in DOMAIN v : v[i] = v[1]
            /\ Fits(v) <=> variance = 0 \/ 2 * Slope(v) * Slope(v) >= Spread(v) * variance

(* README.md: an established method is a zombie "if dropped below 10% of   *)
(* historical baseline".                                                   *)
EstablishedByBaseline ==
    \A c \in DOMAIN Zombies :
        Days(sold[c]) >= 90 => Below(10, Recent(sold[c], today), Count(sold[c]), Days(sold[c]))

(* swagger.json: the trend analysis is "month-over-month".                 *)
MonthOverMonth ==
    \A c \in Selling :
        LET months == InOrder(Months(sold[c], today, Periods))
        IN  \A i \in 2..Len(months) : months[i - 1] = months[i] - 1
=============================================================================
