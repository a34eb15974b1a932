-------------------------------- MODULE Reads --------------------------------
(***************************************************************************)
(* The endpoints that answer with lists - /metrics, /roi, /trends,         *)
(* /market-gaps and /reports/health - while transactions come in.  Each    *)
(* request runs one or more statements, each on a snapshot of its own; a   *)
(* client walks the pages one request after the other.  Rows arrive as     *)
(* AtomicIngest promises, all of a request at once, and leave the 90-day   *)
(* window as time passes.                                                  *)
(*                                                                         *)
(* One client is enough: reads take no locks and change nothing.  A cell   *)
(* is a pair <<payment method, country>>.  A filter by country or type is  *)
(* the set of cells it selects, without dates.  Of the insights only the   *)
(* candidates for hidden gems are read: InsightDetection has the three     *)
(* detectors and their errors, Portfolio what they say.                    *)
(***************************************************************************)
EXTENDS Integers, Sequences, FiniteSets, FiniteSetsExt, Functions

CONSTANTS
    Requests,           \* what the client may ask for
    Cells,
    Catalog,            \* place of each cell of country_payment_catalog in a
                        \* list by country and market share
    Essential,          \* its essential cells
    DefaultSize,        \* page_size if none is given, 20
    MaxSize,            \* largest page_size, and the LIMIT of the report, 100
    MaxInt,             \* largest int, 2^63 - 1
    Initial,            \* rows of transactions at the beginning
    Posts,              \* rows that one accepted request may add
    MaxPosts,           \* bound: accepted requests
    MaxAged,            \* bound: rows that leave the 90-day window
    MaxFaults           \* bound: statements that fail

Tx == [cell : Cells, usd : Nat, approved : BOOLEAN, recent : BOOLEAN]

(* "list" stands for /roi and /trends.  page and size are the parameters   *)
(* as strconv.Atoi returns them: 0 for what is no number, the largest or   *)
(* smallest int for what is out of range.                                  *)
Request == [kind : {"metrics", "list", "gaps", "report"}, select : SUBSET Cells,
            essential : BOOLEAN, sort : {"tpv_usd", "transaction_count"}, order : {"asc", "desc"},
            page : (-MaxInt - 1)..MaxInt, size : (-MaxInt - 1)..MaxInt]

Country(c) == c[2]

ASSUME ReadsAssumption ==
    /\ IsFiniteSet(Cells) /\ Cardinality(Cells) <= MaxInt
    /\ DOMAIN Catalog \subseteq Cells /\ Catalog \in [DOMAIN Catalog -> Nat]
    /\ Essential \subseteq DOMAIN Catalog
    /\ MaxInt \in Nat /\ MaxSize \in 1..MaxInt /\ DefaultSize \in 1..MaxSize
    /\ Requests \subseteq Request
    /\ \A r \in Requests : r.kind = "gaps" =>                  \* a filter by country
          \A c \in r.select, d \in Cells : Country(d) = Country(c) => d \in r.select
    /\ Initial \in Seq(Tx) /\ Posts \subseteq Seq(Tx)
    /\ MaxPosts \in Nat /\ MaxAged \in Nat /\ MaxFaults \in Nat

VARIABLES
    table,              \* rows of transactions
    posted, aged, faults,
    req,                \* what the client asks for
    pc,                 \* statement its request is about to run
    at,                 \* page it asks for
    total,              \* total_items of the answer
    whole,              \* list read from the database, to be sliced in memory
    page,               \* rows of the answer
    seen,               \* cells of all the answers so far, in order
    counted,            \* sum of total_transactions of their summaries
    coverage,           \* catalog and active methods of each country
    insights,           \* transaction_count of the cells the insights read
    cut,                \* a list ended before its last row
    quiet               \* nothing was written since the client began

results == <<at, total, whole, page, seen, counted, coverage, insights>>
vars == <<table, posted, aged, faults, req, pc, results, cut, quiet>>

Reading == {"count", "page", "list", "insights", "gaps", "coverage"}
PC == Reading \cup {"idle", "slice", "next", "done", "failed", "panicked"}


-----------------------------------------------------------------------------
(* ParsePagination, and the report's fixed parameters. *)

(* Mutant: a page_size above the maximum is taken as it is.                *)
SizeUnbounded == IF req.kind = "report" THEN MaxSize
                 ELSE IF req.size < 1 THEN DefaultSize ELSE req.size

Size == IF req.kind = "report" THEN MaxSize
        ELSE Min({IF req.size < 1 THEN DefaultSize ELSE req.size, MaxSize})

FirstPage == IF req.kind = "report" \/ req.page < 1 THEN 1 ELSE req.page

(* Two's complement.                                                       *)
Wrap(n) == ((n + MaxInt + 1) % (2 * (MaxInt + 1))) - (MaxInt + 1)

Offset == Wrap((at - 1) * Size)

Init == /\ table = Initial
        /\ posted = 0 /\ aged = 0 /\ faults = 0
        /\ req \in Requests
        /\ pc = "idle"
        /\ at = FirstPage
        /\ total = 0 /\ whole = <<>> /\ page = <<>>
        /\ seen = <<>> /\ counted = 0
        /\ coverage = <<>> /\ insights = <<>>
        /\ cut = FALSE /\ quiet = FALSE

-----------------------------------------------------------------------------
(* The queries, over a snapshot of the table. *)

Of(c) == {i \in DOMAIN table : table[i].cell = c}
Approved(c) == {i \in Of(c) : table[i].approved}
RecentCells == {table[i].cell : i \in {j \in DOMAIN table : table[j].recent}}

(* txn_agg: the selected cells that have a transaction.                    *)
Groups == {c \in req.select : Of(c) # {}}

Metric(c) == [cell |-> c, transaction_count |-> Cardinality(Of(c)),
              tpv_usd |-> SumFunctionOnSet([i \in DOMAIN table |-> table[i].usd], Approved(c))]

(* GROUP BY without ORDER BY, or a Go map: any order, another each time.   *)
Shuffles(S) == Bijection(1..Cardinality(S), S)

Before(r, s) == IF req.order = "asc" THEN r[req.sort] <= s[req.sort] ELSE r[req.sort] >= s[req.sort]

(* Mutant: no ORDER BY.                                                    *)
OrderingsNone == Shuffles(Groups)

(* ORDER BY: cells with the same key come in any order.                    *)
Orderings == {s \in Shuffles(Groups) : \A i, j \in DOMAIN s : i < j => Before(Metric(s[i]), Metric(s[j]))}

(* LIMIT and OFFSET.  PostgreSQL refuses a negative OFFSET while it runs   *)
(* the query, and as rows.Err() is not asked that is an empty page.        *)
Window(s) == IF Offset < 0 THEN <<>> ELSE SubSeq(s, Offset + 1, Min({Offset + Size, Len(s)}))

Gaps == {c \in (DOMAIN Catalog \cap req.select) \ RecentCells : req.essential => c \in Essential}

GapLists == {s \in Shuffles(Gaps) : \A i, j \in DOMAIN s : i < j => Catalog[s[i]] <= Catalog[s[j]]}

InCountry(S, k) == {c \in S : Country(c) = k}

(* Mutant: the join counts transactions older than 90 days.                *)
CoverageEver ==
    [k \in {Country(c) : c \in DOMAIN Catalog \cap req.select} |->
        [catalog |-> Cardinality(InCountry(DOMAIN Catalog, k)),
         active |-> Cardinality({c \in InCountry(DOMAIN Catalog, k) : Of(c) # {}})]]

Coverage ==
    [k \in {Country(c) : c \in DOMAIN Catalog \cap req.select} |->
        [catalog |-> Cardinality(InCountry(DOMAIN Catalog, k)),
         active |-> Cardinality(InCountry(DOMAIN Catalog \cap RecentCells, k))]]

(* Mutant: the insights look at the last 90 days only.                     *)
CandidatesRecent == [c \in Groups |-> Cardinality({i \in Of(c) : table[i].recent})]

(* transaction_count of the candidates of hidden gems.                     *)
Candidates == [c \in Groups |-> Cardinality(Of(c))]

-----------------------------------------------------------------------------
(* Transactions arrive, and grow old. *)

Post(rows) == /\ posted < MaxPosts
              /\ posted' = posted + 1
              /\ table' = table \o rows
              /\ quiet' = FALSE
              /\ UNCHANGED <<aged, faults, req, pc, results, cut>>

Age(i) == /\ aged < MaxAged /\ table[i].recent
          /\ aged' = aged + 1
          /\ table' = [table EXCEPT ![i].recent = FALSE]
          /\ quiet' = FALSE
          /\ UNCHANGED <<posted, faults, req, pc, results, cut>>

-----------------------------------------------------------------------------
(* The requests. *)

(* Mutant: each pair of statements the other way round.                    *)
StatementsSwapped == CASE req.kind = "metrics" -> <<"page", "count", "next">>
                       [] req.kind = "list" -> <<"list", "slice", "next">>
                       [] req.kind = "gaps" -> <<"coverage", "gaps", "slice", "done">>
                       [] req.kind = "report" -> <<"insights", "count", "page", "done">>

(* The statements a request runs, and where it stands after them.          *)
Statements == CASE req.kind = "metrics" -> <<"count", "page", "next">>
                [] req.kind = "list" -> <<"list", "slice", "next">>
                [] req.kind = "gaps" -> <<"gaps", "coverage", "slice", "done">>
                [] req.kind = "report" -> <<"count", "page", "insights", "done">>

Run(s) == /\ pc = s
          /\ \E i \in DOMAIN Statements : Statements[i] = s /\ pc' = Statements[i + 1]

(* A request begins, on whatever is in the table.                          *)
Open == /\ pc = "idle"
        /\ pc' = Head(Statements)
        /\ quiet' = TRUE
        /\ UNCHANGED <<table, posted, aged, faults, req, results, cut>>

(* All n rows of a list arrive, or the query fails after k of them: as     *)
(* rows.Err() is not asked, the request goes on with those.                *)
Arrives(k, n) ==
    \/ k = n /\ UNCHANGED <<faults, cut>>
    \/ /\ faults < MaxFaults
       /\ faults' = faults + 1
       /\ cut' = TRUE

(* GetMetrics counts the groups ...                                        *)
CountMetrics ==
    /\ Run("count")
    /\ total' = Cardinality(Groups)
    /\ UNCHANGED <<table, posted, aged, faults, req, at, whole, page, seen, counted, coverage, insights, cut, quiet>>

Show(cells) == seen' = seen \o cells

(* The summary adds up the rows of the page.                               *)
Summary(rows) == SumFunction([i \in DOMAIN rows |-> rows[i].transaction_count])

(* ... and then reads the page; the report goes on to the insights.        *)
ReadPage ==
    /\ Run("page")
    /\ \E s \in Orderings : \E n \in 0..Len(Window(s)) :
          LET cells == SubSeq(Window(s), 1, n)
          IN  /\ Arrives(n, Len(Window(s)))
              /\ page' = [i \in 1..n |-> Metric(cells[i])]
              /\ Show(cells)
    /\ counted' = counted + Summary(page')
    /\ UNCHANGED <<table, posted, aged, req, at, total, whole, coverage, insights, quiet>>

(* GetROI and GetTrends read all their rows in one statement.              *)
ReadList ==
    /\ Run("list")
    /\ \E s \in Shuffles(Groups) : \E n \in 0..Len(s) : Arrives(n, Len(s)) /\ whole' = SubSeq(s, 1, n)
    /\ UNCHANGED <<table, posted, aged, req, at, total, page, seen, counted, coverage, insights, quiet>>

(* Mutant: the end of the page is not limited to the list.                 *)
SliceListUnclamped ==
    /\ pc = "slice"
    /\ total' = Len(whole)
    /\ LET start == Min({Offset, total'})
           end == Wrap(Offset + Size)
       IN  IF 0 <= start /\ start <= end /\ end <= total'
           THEN /\ Run("slice")
                /\ page' = SubSeq(whole, start + 1, end)
                /\ Show(page')
           ELSE pc' = "panicked" /\ UNCHANGED <<page, seen>>
    /\ UNCHANGED <<table, posted, aged, faults, req, at, whole, counted, coverage, insights, cut, quiet>>

(* The handlers answer with results[start:end]; a panic is a 500.          *)
SliceList ==
    /\ pc = "slice"
    /\ total' = Len(whole)
    /\ LET start == Min({Offset, total'})
           end == Min({Wrap(Offset + Size), total'})
       IN  IF 0 <= start /\ start <= end
           THEN /\ Run("slice")
                /\ page' = SubSeq(whole, start + 1, end)
                /\ Show(page')
           ELSE pc' = "panicked" /\ UNCHANGED <<page, seen>>
    /\ UNCHANGED <<table, posted, aged, faults, req, at, whole, counted, coverage, insights, cut, quiet>>

(* Mutant: the last page, if it is not full, is not counted.               *)
TotalPagesFull == total \div Size

(* NewPagination.                                                          *)
TotalPages == (total + Size - 1) \div Size

(* The client asks for the next page while the pagination has one.         *)
NextPage ==
    /\ pc = "next"
    /\ IF at < TotalPages
       THEN pc' = Head(Statements) /\ at' = at + 1
       ELSE pc' = "done" /\ UNCHANGED at
    /\ UNCHANGED <<table, posted, aged, faults, req, total, whole, page, seen, counted, coverage, insights, cut, quiet>>

(* GenerateReport calls DetectInsights after GetMetrics.                   *)
ReadInsights ==
    /\ Run("insights")
    /\ \E S \in SUBSET Groups :
          /\ Arrives(Cardinality(S), Cardinality(Groups))
          /\ insights' = Restrict(Candidates, S)
    /\ UNCHANGED <<table, posted, aged, req, at, total, whole, page, seen, counted, coverage, quiet>>

(* GetMarketGaps reads the gaps, then the coverage.                        *)
ReadGaps ==
    /\ Run("gaps")
    /\ \E s \in GapLists : \E n \in 0..Len(s) : Arrives(n, Len(s)) /\ whole' = SubSeq(s, 1, n)
    /\ UNCHANGED <<table, posted, aged, req, at, total, page, seen, counted, coverage, insights, quiet>>

ReadCoverage ==
    /\ Run("coverage")
    /\ \E K \in SUBSET DOMAIN Coverage :
          /\ Arrives(Cardinality(K), Cardinality(DOMAIN Coverage))
          /\ coverage' = Restrict(Coverage, K)
    /\ UNCHANGED <<table, posted, aged, req, at, total, whole, page, seen, counted, insights, quiet>>

(* The count fails, or a query that cannot even be sent: 500.              *)
QueryFails ==
    /\ pc \in Reading /\ faults < MaxFaults
    /\ faults' = faults + 1
    /\ pc' = "failed"
    /\ UNCHANGED <<table, posted, aged, req, results, cut, quiet>>

Finished == pc \in {"done", "failed", "panicked"} /\ UNCHANGED vars

Next == \/ \E rows \in Posts : Post(rows)
        \/ \E i \in DOMAIN table : Age(i)
        \/ Open \/ CountMetrics \/ ReadPage \/ ReadList \/ SliceList \/ NextPage
        \/ ReadInsights \/ ReadGaps \/ ReadCoverage \/ QueryFails
        \/ Finished

Spec == Init /\ [][Next]_vars

-----------------------------------------------------------------------------
Metrics == [cell : Cells, transaction_count : Nat, tpv_usd : Nat]

TypeOK == /\ table \in Seq(Tx)
          /\ posted \in 0..MaxPosts /\ aged \in 0..MaxAged /\ faults \in 0..MaxFaults
          /\ req \in Requests
          /\ pc \in PC
          /\ at \in Nat \ {0} /\ total \in Nat /\ counted \in Nat
          /\ page \in Seq(IF req.kind \in {"metrics", "report"} THEN Metrics ELSE Cells)
          /\ Len(page) <= MaxSize
          /\ whole \in Seq(Cells) /\ seen \in Seq(Cells)
          /\ \A k \in DOMAIN coverage : coverage[k].active <= coverage[k].catalog
          /\ DOMAIN insights \subseteq Cells
          /\ cut \in BOOLEAN /\ quiet \in BOOLEAN

(* Rows before the page, and whether the page is one an int can number.    *)
Skipped == (at - 1) * Size
Countable == Skipped + Size <= MaxInt

(* What total_items promises the page keeps: though the two are read on    *)
(* different snapshots, no page is shorter than the count says, since the  *)
(* count comes first and transactions are never deleted.                   *)
NoShortPage ==
    req.kind \in {"metrics", "report"} /\ ~cut /\ pc \in {"next", "insights", "done"} =>
        Len(page) >= Min({total - Skipped, Size})

(* The lists that are sliced in memory: the answer is the page asked for,  *)
(* and there always is one (a 200, maybe with no rows) unless page times   *)
(* page_size does not fit an int.                                          *)
SliceExact ==
    /\ pc = "panicked" => ~Countable
    /\ req.kind \in {"list", "gaps"} /\ pc \in {"next", "done"} /\ Countable =>
          /\ Len(page) = Max({0, Min({Size, total - Skipped})})
          /\ \A i \in DOMAIN page : page[i] = whole[Skipped + i]

Key(c) == Metric(c)[req.sort]
Tied(c) == {d \in Groups : Key(d) = Key(c)}
Untied == \A c \in Groups : Tied(c) = {c}
Walked == ~cut /\ quiet /\ pc = "done" /\ FirstPage = 1

(* A client that follows the pages of the metrics while nothing is written *)
(* is shown every cell once, but for cells with the same sort key: as each *)
(* page is cut from an order of its own, one of these may come twice and   *)
(* another not at all, though never one with another key in their place.   *)
(* The summaries of the pages add up to all transactions if there are no   *)
(* ties, or ties in the very number that is added.                         *)
WalkComplete ==
    req.kind = "metrics" /\ Walked =>
        /\ Len(seen) = Cardinality(Groups)
        /\ \A c \in Groups :
              Cardinality({i \in DOMAIN seen : seen[i] \in Tied(c)}) = Cardinality(Tied(c))
        /\ Untied \/ req.sort = "transaction_count" =>
              counted = Cardinality(UNION {Of(c) : c \in Groups})

(* The lists without an order are shuffled anew for every page, so such a  *)
(* client may be shown a cell twice and miss another; all it can rely on   *)
(* is the number of rows, and the first page if that holds them all.       *)
WalkCounts ==
    req.kind = "list" /\ Walked =>
        /\ Len(seen) = Cardinality(Groups)
        /\ Len(seen) <= Size => {seen[i] : i \in DOMAIN seen} = Groups

Listed(k) == Cardinality({i \in DOMAIN whole : Country(whole[i]) = k})
GapCount(k) == coverage[k].catalog - coverage[k].active

(* The two queries of the market gaps agree on what a gap is: on one       *)
(* snapshot the gaps listed are those that the coverage counts.            *)
GapsAgree ==
    req.kind = "gaps" /\ ~cut /\ quiet /\ pc = "done" =>
        \A k \in DOMAIN coverage :
            IF req.essential THEN Listed(k) <= GapCount(k) ELSE Listed(k) = GapCount(k)

(* Transactions that arrive between the two can only close gaps: while     *)
(* none grows old, the coverage counts no gap that is not listed.          *)
GapsOnlyClose ==
    req.kind = "gaps" /\ ~req.essential /\ ~cut /\ pc = "done" /\ aged = 0 =>
        \A k \in DOMAIN coverage : GapCount(k) <= Listed(k)

(* The report never goes back: an insight knows every transaction that the *)
(* metrics above it count, though other requests write in between.         *)
ReportForward ==
    req.kind = "report" /\ ~cut /\ pc = "done" =>
        \A i \in DOMAIN page :
            /\ page[i].cell \in DOMAIN insights
            /\ insights[page[i].cell] >= page[i].transaction_count
=============================================================================
