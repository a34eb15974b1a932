# Payment Method Health Monitor: specifications and proofs

TLA+ models of the server in this repository, TLC runs that check them on
small instances, and TLAPS proofs that hold for every value of the constants.
`PROJECT.json` lists components, runs, mutants, findings, hazards and theorems,
and says which source lines every definition models.

## 1. The system

One Go process serves an HTTP API over one PostgreSQL database. A request is a
goroutine. It keeps no state of its own between requests: all there is to get
wrong lies in the order of its SQL statements, in the connections they take
from a pool of 25 (`internal/database/postgres.go`), in what happens when a
statement, the client or the process fails half-way, and in the arithmetic on
what the statements return.

| Component | State | Operations | Interacts with | What makes it correct |
|---|---|---|---|---|
| Ingestion: `transaction_handler.go`, `transaction_service.go`, `transaction_repo.go`, `payment_method_repo.go` | rows of `transactions`; a PostgreSQL session per insert | POST one transaction, POST a batch (bind, three EXISTS per item, rate per item, INSERTs) | pool, reference data, clients that retry | a batch is stored whole or not at all; a 201 is durable; a refused request stores nothing; rows are valid and priced right; no connection is lost; every request ends |
| Startup: `main.go`, `migrate.go`, `seeds.go` | `schema_migrations`, advisory lock, tables, seed rows | `RunMigrations`, `SeedData`, serve, stop, die, restart | other processes on the same database | one seed; a whole schema before serving; the version tells the truth; every start gets to serve in the end |
| Rollback: `migrate.go` | the same | `RollbackMigrations` | processes that start, seed and serve | nothing is left after it; a start mends what an interrupted one left |
| Insight detection: `insight_*.go` | three result slices, an errgroup, up to three connections | three detectors side by side, `Wait`, answer | pool, client's context | first error wins; nothing is left out; no deadlock on the pool |
| Metrics, market gaps, report: `metrics_*.go`, `market_gap_*.go`, `report_*.go` | none; several statements on snapshots of their own | COUNT then page; gaps then coverage; metrics then insights | ingestion, which writes in between; the 90-day window | the parts of one answer, and the pages of one walk, fit together |
| ROI, trends: `roi_*.go`, `trend_*.go` | none | one query, arithmetic and a slice in Go | ingestion; the order of Go maps | cost, ROI, break-even and recommendation agree; the trend agrees with its points; the slice is the page asked for |
| Pagination: `dto/pagination.go` | none | clamp, offset, number of pages | all lists | no parameter makes the answer anything but a page |
| Middleware, health, config, templates | none | | | I/O and layout, not modelled |

What is hard here, and listed line by line under `hazards`:

* **interleaving**: requests that compete for connections, processes that race
  for version, lock and seed, a rollback under processes that run, detectors
  that write what the handler reads, writers between the statements of one read;
* **failure in the middle**: lost connections, aborted transactions, a query
  that breaks while its rows are read, a server that dies or that `Shutdown`
  gives up on while its sessions live on in PostgreSQL, a rollback cut short;
* **retries**: of clients, who cannot know whether an unacknowledged request
  is stored, and of the container, which starts over on whatever it left behind;
* **order**: lists without ORDER BY, or with ties, that are cut into pages;
* **numbers**: rounding to cents that makes a positive amount zero, an offset
  that overflows, thresholds that jump, quotients that must agree.

## 2. Modules

| Module | Content |
|---|---|
| `AtomicIngest` | abstract specification: what the ingestion endpoints promise |
| `Ingestion`, `MCIngestion` | both ingestion endpoints, pool, sessions, faults, crash |
| `IngestionProofs` | types, atomicity, durability, soundness and whole appearance |
| `IngestionRefinement` | accounting of connections; no deadlock on them, no endless work; `Ingestion` implements `AtomicIngest` |
| `Startup`, `MCStartup`, `StartupProofs` | migrations, seed and restart of several processes |
| `Rollback`, `MCRollback`, `RollbackProofs` | extends `Startup` by `RollbackMigrations` |
| `InsightDetection`, `MCInsightDetection`, `InsightProofs` | the errgroup of detectors over the pool |
| `Reads`, `MCReads`, `ReadsProofs` | the lists and their pages over a table that grows |
| `Analytics` | pure: thresholds, cost and ROI, trend, in exact arithmetic |
| `Portfolio`, `MCPortfolio`, `PortfolioProofs` | `Analytics` over transactions that arrive and grow old |
| `SumTheorems` | lemmas about sums, products and dot products over finite sets |

Operators whose comment begins with *Mutant* are the same definition with a
plausible bug. `PROJECT.json` pairs each with a property that it breaks, which
shows that the property can fail. They are no part of any specification.

### Ingestion

A request's `pc` is the statement its handler is about to run, in the order of
the code:

| `pc` | Code | Actions |
|---|---|---|
| `idle` | not received | `Bind`: `ShouldBindJSON` and its tags |
| `exists`, `country`, `inCountry` | `validateTransaction`, item by item | `Exists`, `CountryExists`, `ExistsInCountry`, which share `Validate` and `AfterValidation` |
| `fx` | `GetFxRate` and `amountUSD`, item by item | `GetFxRate` |
| `begin` | acquire a connection for the insert | `Insert` (single), `Begin` (batch) |
| `send` | `tx.SendBatch` | `SendBatch` |
| `scan` | the loop over `br.Exec` | `SendCommit` when all have been read |
| `insert`, `commit` | waiting for the acknowledgement | `ReadAck` |
| any of the last four | the server reports an error | `ReadError`, with the deferred `Rollback` |

A single request and a batch stop at different places when an item is invalid:
a single one answers at once, a batch checks all its items and then answers.
With one item, `AfterValidation` is both. The model answers `invalid` for
what the client sees as a 400 with validation errors, and `error` for other
errors of the service; `Status` gives the number.

Reading queries take and return a connection within one step, which is enabled
while the pool has one. The insert keeps its connection, so its handler stays
in `slots` from `Insert` or `Begin` to its end. `session` is PostgreSQL's side:
it executes the INSERTs of a batch one by one, commits, fails, and, when the
connection is gone (`r \notin slots`), goes on until `Orphaned` ends it. This
is how a row can be stored after its request was answered with an error.
`QueryFails` and `ConnectionLost` also stand for a client that goes away, whose
context the handlers pass to every query; `Abort` for a database that ends a
transaction. `Crash` takes every handler and connection at once, for death and
for a `Shutdown` that exceeds its 5 seconds.

Amounts are integers (thousandths for a request, cents for a row) so that the
rounding in `USD` and `Cents` is in the model, and what the schema refuses of a
row that passed validation (`Admissible`): an amount that rounds to no cent, one
that its column cannot hold (`MaxCents`), a text too long for its own (an item
either `fits` or does not). Reference data are constants: nothing in the
repository changes them after the seed.

`AtomicIngest` has three actions: `Receive`, `Store` (all rows of a request, in
one step) and `Reply` (created only after storing, invalid only if nothing is
stored, an error or silence at any time). The refinement maps `received` to the
requests whose `pc` is not `idle`; `answer` and `table` are themselves.

### Startup and Rollback

A process goes through `version` (`m.Version`), `force` if that is dirty
(`m.Force`), `up` (`m.Up` takes the lock), then for each migration `mark`,
`apply` and `clean` as golang-migrate does it (dirty mark, file, clean mark),
then `seed` (COUNT outside the transaction), `seedTx`, `seedRest`,
`seedCommit` and `serving`. A process outside `AutoMigrate` serves at once, as
`main` lets it. `Exit` is `log.Fatal`. `Crash` is death at any `CrashPoints`;
the file or the COMMIT that the process had sent may be carried out all the
same. `Start` after `Exit`, `Stop` or `Crash` is the container's restart.
golang-migrate is not in the repository; its actions are modelled from the
calls in `migrate.go` and are marked external. One file is one statement batch
and thus one implicit transaction. The six files' REFERENCES clauses are
`Needs`. A seed is a copy of the rows in every table. The primary key of
`countries` makes a second seeder wait for, and then fail on, the first;
`payment_methods` has unique codes, too, so a seed fails on rows left there.

`Rollback` keeps these actions (`Forward`) and lets a process be started to
roll back instead (`Call`). Only tests call `RollbackMigrations`
(`migrate_test.go`, `seeds_test.go`, `transaction_handler_test.go`,
`security_test.go`), but on the database that everything else uses. `rbVersion` and `rbForce` are
the same check for a dirty version; `down` takes the lock; then each file goes
through `downMark` (version k - 1, dirty), `drop` (the file that drops table k)
and `downClean`. Below the first file golang-migrate has *no* version: clean,
that is an empty `schema_migrations`; dirty, `Up` and `Down` refuse it, while
`m.Version()` calls it clean, so that neither function forces it. The model
says version 0. `DROP TABLE` is refused while another table refers to this one
(`Referenced`), waits for a seed that holds locks on it (`MustWait`) and may
deadlock with it (`Deadlock`). `DownCrash` is death on the way down. `stale` is
history: a version was forced that by then was not the dirty version any more.

### InsightDetection

A worker is a pair of a request and a detector. It waits for a connection
(`acquire`), reads its candidates one at a time (`rows`) and has `returned`.
`ReturnError` is errgroup's rule: the first error stays and cancels the
context. A cancelled worker ends with an error if it was waiting for a
connection, but with a *short list and no error* if it was reading
(`RowsCut`), as none of the loops in `insight_repo.go` asks `rows.Err()`.

### Reads

One client asks for metrics, a plain list (ROI or trends), market gaps or the
report, with any page and page size. The request runs the statements of its
endpoint (`Statements`), each on the table as it is at that moment; `Post` adds
rows (all of a request in one step, as `RowsAppearWhole` allows) and `Age`
moves one out of the 90-day window between any two. Reads take no locks and
change nothing, so several clients would show no more than one.

* Metrics and report read their page with LIMIT and OFFSET (`Window`); ORDER BY
  leaves ties in any order (`Orderings`).
* The plain lists and the gaps are read whole and sliced in memory
  (`SliceList`), where an index out of range is a panic, which gin's recovery
  turns into a 500. ROI has a GROUP BY without ORDER BY and trends collect their
  groups in a Go map, so each request sees another order (`Shuffles`); gaps come
  by country and market share (`GapLists`).
* `Size`, `FirstPage`, `Offset` and `TotalPages` are `pagination.go`. `Wrap`
  is Go's overflow, for ints up to `MaxInt`.
* A client walks on (`NextPage`) while the pagination it was sent has another
  page. `Summary` adds up the rows of each page, as the code does.
* `Arrives` is a list that comes complete, or in part and unnoticed. `quiet`
  holds as long as nothing was written since the client began.

### Analytics and Portfolio

`Analytics` has what is computed from the transactions of a cell (a payment
method in a country): the test and severity of a zombie, a hidden gem and a
performance alert; cost, ROI, break-even and recommendation; monthly buckets,
direction, regression and overall trend. Transactions come in lots of equal
price and day; a sum over some of them is a sum over a set of their indices
(`CountIn`, `ApprovedIn`, `TPVIn`, `AmountIn`). All is exact: quotients are
compared by multiplying out, and rounded only where the code rounds and the
rounding shows. Rates and averages of the trends are rounded to parts of `Scale`:
hundredths in the code, any part in the proofs, whole units in the runs, as the
sums of squares in R squared would not fit TLC's 32-bit integers otherwise. Days
stand for timestamps and 30 days for a calendar month.

`Portfolio` puts it to work: lots arrive, dated today, in the past or, as the API
takes any date, in the future (`Post`), time passes (`Tick`), and a client asks
for the insights (`Ask`), whose three detectors answer in any order on snapshots
of their own. `touched` are the cells that sold something since the client asked;
`Meanwhile` keeps it, and forgets an answer that has been read by the time
something else happens. ROI and trends
are one statement each, so their properties are invariants of the table.

## 3. Runs

States are distinct states found by TLC.

| Run | Instance | Checks | States |
|---|---|---|---|
| `IngestionRetry` | single request, batch of two, retry of that batch, fair; 1 connection, 2 faults, 1 crash | `TypeOK`, `AllOrNothing`, `CreatedIsStored`, `SlotsAccounted`, `RowsAppearWhole`, `ImplementsAtomicIngest`, `EveryRequestEnds`, `EverySessionEnds` | 36,825 |
| `IngestionRefused` | six bodies that validation, the size limit or the schema refuse, two of them for one item of two; 2 connections, 2 faults, 1 crash | `InvalidNeverStored`, `StoredRowsSound`, `ErrorStoresNothingUnlessFault` | 2,461,752 |
| `StartupSafe` | 2 migrating processes and 1 other, fair, all 6 migrations, 2 crashes anywhere | `TypeOK`, `SeededOnce`, `ServingComplete`, `VersionTruthful`, `SeededIsStable`, `EventuallyServes` | 249,342 |
| `Rollback` | 2 processes, fair, 4 migrations, 2 rollbacks, 1 crash or deadlock | `RTypeOK`, `SeedWhole`, `RolledBackClean`, `ServesAgain` | 539,247 |
| `InsightSafe` | requests of 3, 1 and 0 detectors, fair; 2 connections, 2 faults | `TypeOK`, `RootCause`, `OkIsComplete`, `EveryRequestReplies` | 76,028 |
| `Reads` | 16 requests: walks, pages out of range, offsets that overflow, gaps, report; 4 cells, 2 posts, 1 row aged, 1 fault | `TypeOK`, `NoShortPage`, `SliceExact`, `WalkComplete`, `WalkCounts`, `GapsAgree`, `GapsOnlyClose`, `ReportForward` | 561,587 |
| `Portfolio` | 3 methods in 2 histories, 3 kinds of lots, today, 100 days ago or in 30 days, 2 posts, 90 days in steps of 45 | `TypeOK`, `NeverPraisedAndBlamed`, `StatusesAgree`, `ROIConsistent`, `TrendSound`, `SilenceOnlyWorsens`, `TrafficNeverKills` | 380,735 |
| `IngestionBadRequest`, `StartupSkipped`, `InsightSwallowed`, `ZombieFloor`, `TrendGaps` | see findings | one property each, violated | |

What the instances contain, and why they are large enough:

* **Ingestion.** One connection is the smallest pool that makes handlers wait
  for each other; the proofs cover the rest. A batch of two is the smallest
  with a proper part. Two faults let one strike the request and one its retry
  or its session. `RefusedItems` holds a country that does not exist, a
  text and an amount too large for their columns, and a batch above `MaxBatch` (3
  here, 500 in the code); and two batches of one bad item and one good: a method
  not offered in the country first, which validation finds, and a row of 0.00 USD
  last, which only its INSERT does, when the good one has been executed.
* **Startup.** `M` is the real 6 with the real references. Two migrating
  processes give every race for lock, version and seed; two crashes
  let one strike the recovery from the other. The third process shows what the
  others may not rely on.
* **Rollback.** Four files, one of each shape of REFERENCES clause: the two
  tables nothing is needed for, one that refers to both, one that refers to
  countries only. Files 3, 4 and 5 of the repository refer to the same two
  tables. Two rollbacks meet each other, or one meets the start after the other.
* **Insights.** Three detectors on two connections force one to wait inside its
  own request, while the others' requests compete.
* **Reads.** Three cells with transactions make two pages of two; a post brings
  a new cell or a tie, and two cells are tied in their count from the start; the
  catalog has a gap from the start, one that only old transactions hide, and two
  cells of the same market share. ints up to 7 with pages of up to 3 rows let
  the offset, its end, both or neither overflow. The report's 100 rows are 3
  here, so that the cut-off happens.
* **Portfolio.** One history has a method whose best days are long over, which
  lives on both sides of the three months and of 10 % of its baseline; the other
  has three methods, two of them peers, on both sides of the thresholds for gems
  and alerts. Lots are dated inside and outside the 90 days and ahead of them,
  and the steps of 45 days leave months without transactions.

`MaxFaults`, `MaxCrashes`, `MaxRollbacks`, `MaxPosts`, `MaxAged` and `MaxToday`
bound the environment and nothing else. In the runs with liveness they say that
failures come to an end, without which nothing can be promised. Deadlock is
checked in every run.

### Fairness

`Ingestion!Fairness`: the scheduler runs every handler and PostgreSQL every
session (`WF` on `Handle`, `Work`), PostgreSQL notices dead connections
(`Orphaned`), Docker restarts the container (`restart: unless-stopped`). Weak
fairness is enough for the pool: all connections are in the hands of waiting
inserts, which finish by themselves. Clients owe nothing, and faults are
never fair. `Startup!Fairness`: a process runs on and is restarted; nobody has
to stop a server. `Rollback!RFairness` is the same with the steps of a rollback
that has begun; nobody has to call one. `InsightDetection!Fairness`: goroutines
run, the pool serves its waiters, and `Wait` returns.

`EventuallyServes` and `ServesAgain` promise that a process which starts gets
to serve, *or* that the database ends, for good (`<>[]`), in one of the states
from which the code knows no way back: `FileSkipped` (a version recorded without
its table, finding 2), and with rollbacks also `NilDirty` (no version, but
dirty) and `HalfSeeded` (countries empty, other seed rows still there). Every
other failure, anywhere, is mended by restarts, and passing through one of these
states excuses nothing.

### What the runs show

*Ingestion.* A request's rows appear at once or never, in spite of lost
acknowledgements, aborted sessions, crashes and retries. After `invalid` nothing
can follow; after `error` rows may be there, or still come, and a retry may
store them again: there is no idempotency key, and the code promises no more.
Without a fault an error means that nothing was stored.

*Startup.* Several processes may start together: the seed goes in once and is
never touched again, unless somebody rolls back.

*Rollback.* With two processes, a rollback that returns has left nothing. With a
third one between reading a dirty version and forcing it, `m.Force` puts back a
version that is not dirty any more, and a rollback after it may return nil
("all migrations rolled back", `migrate.go:64`) with a table left;
`RolledBackClean` therefore asks for `~stale`. A rollback that is interrupted
leaves tables that come back empty: `SeedData` counts countries only, so a
server starts over full countries and empty payment methods without an error.
That takes an interrupted rollback, or one misled by a forced version: otherwise
the seed is in all tables or in none, whoever starts in the middle (`SeedWhole`).

*Insights.* The errgroup reports the cause, and without a failure nothing is left
out.

*Lists.* Requests take several snapshots, but in an order that keeps some
promises: COUNT before page, so no page is short; gaps before coverage, so an
arrival in between cannot make a gap that is not listed; metrics before
insights, so an insight never knows less. With equal keys a walk over the
metrics may miss a method and show another twice even if nothing is written, as
the sort has no tie-breaker; `WalkComplete` says that it happens among equals
only: the walk shows as many rows of each key as there are methods with it. In
the run it does happen, by either key. ROI and trends have no order
at all: a walk is sure of the number of rows and of nothing else (`WalkCounts`).
A slice is the page asked for as long as page times page size fits an int;
beyond that the handler may panic (a 500), and the metrics are an empty page.

*Portfolio.* No method is both a hidden gem and an alert of one answer, which is
not obvious: a gem needs 90 % approved and an alert only a gap of ten points to
the average of its peers, which therefore cannot be; and the two are judged on
two snapshots, between which the peers may have sold anything, so that only a
method that sold something itself can be both. Silence only worsens a
zombie. A new transaction can make a zombie in one way: by stretching the
history to three months, where the minimum jumps from 5 to 10. A method may be
ACTIVE in the metrics and a HIGH zombie at once, if its traffic collapsed.
Break-even, cost and recommendation agree, except that a method which costs
nothing is UNPROFITABLE. A constant series is DECLINING, and it is the only
DECLINING series without a fall.

### Findings

1. `IngestionBadRequest`: the single endpoint answers 400, which `swagger.json`
   calls a validation error, to every error, a lost connection included: in the
   counterexample the row is stored (`transaction_handler.go:31`).
2. `StartupSkipped`: a process that dies after golang-migrate recorded a
   version as dirty and before its file ran leaves a version that the next start
   forces clean (`migrate.go:27`). `RunMigrations` then succeeds without the
   table, against `migrate_test.go:55`; the seed fails at every start.
   `ServingComplete` still holds, thanks to the seed's transaction.
3. `InsightSwallowed`: a query that breaks while its rows are read gives a 200
   with a part of the insights (`insight_repo.go:66`), against the README's
   "proper error propagation".
4. `ZombieFloor`: the README says established methods are flagged "if dropped
   below 10% of historical baseline" (`README.md:98`); the baseline is at least
   10 transactions, so a method that sells few, as it always did, is flagged,
   too (`insight_service.go:110`).
5. `TrendGaps`: `swagger.json:120` promises a month-over-month analysis; a month
   without transactions has no bucket, so a point is compared with whatever
   month came before it (`trend_service.go:70`).

## 4. Proofs

TLAPS checks 43 theorems, listed in `PROJECT.json`, from six named assumptions
(`IngestAssumption`, `StartupAssumption`, `RollbackAssumption`,
`InsightAssumption`, `ReadsAssumption`, `PortfolioAssumption`), which say what
the constants are (a pool of at least one connection, rates for all countries,
references that point to earlier migrations, finitely many cells) and which TLC
evaluates in the runs. The sets of requests, processes, detectors and cells are
arbitrary, as are all bounds. Every invariant and every action property of the
runs that pass is proved, and so is the refinement.

**Sums.** `SumFunctionOnSet` adds up a function over a finite set in an order
that its definition leaves open. The library's induction theorems, which take a
predicate, are no help here; `SumTheorems` does induction with a set in its
place: a set of subsets of a finite set has a minimal element (`Minimal`), so a
set of subsets that contains {} and is closed under adding an element contains
the whole (`SubsetInduction`). From this follow existence and uniqueness of the
recursion (`FoldsExists`, `FoldsUnique`), that the order does not matter
(`SumRemove`), and the algebra the other modules use: linearity, monotony,
unions, renaming of indices (`SumRenamed`), concatenation (`SumContinued`), and
that a sum of cardinalities is that of the union (`SumOfSizes`). Products have
what the common denominator of the peers' rates needs (`FactorsDivide`), dot
products what the regression needs.

**Ingestion.** `TypeOK` needs `Bound`: a handler that is working has a body that
passed the binding, so its index is in range. `AllOrNothing` is not inductive,
as nothing in it relates the table to sessions and handlers. `AllWhole` does, request by
request: nothing is stored, and no session open, while the request is being
validated or after it was refused; nothing is stored while the session is in
flight or failed; a session that commits has executed every INSERT; a session
that has committed, or an answer `created`, means that all is stored. Atomicity,
durability, refusal and clean errors are conjuncts of it. `Sound` follows the checks: an
item before the current one has passed them, a priced one has its country's
rate, an executed one was admissible. `StoredRowsSound` and `RowsAppearWhole`
follow from the conjunction of all (`IInv`).

**Connections and refinement.** `Slots` adds to `SlotsAccounted` that `slots` is
finite, which arithmetic on its cardinality needs. `Refinement` shows that every
step is `Receive` (`Bind`), `Store` (`Commit`, or `Execute` of a single request),
`Reply` (the answers, and `Crash` for several requests at once) or a stutter,
with `IInv` supplying the guards: a session that commits has an answer that still
allows it, and what it commits is `RowsOf`.

Of liveness, which is out of the prover's reach, the safety half is proved for
every size of the pool. `Coupling` says that a waiting handler's session is in
one of the states that the handler waits for. Hence whoever holds a connection
can go on without another (`HoldersFinish`), and while anybody has work left,
somebody can do some (`NeverStuck`): either a connection is held, or all are
free. `Ready` and `Finishes` repeat the guards of `Handle`, `Work` and
`Orphaned`, conjunct by conjunct, where one would like to write ENABLED. `Left`
counts the steps that a handler and its session can still take; `WorkShrinks`
says that every one of them lowers it, a fault as well, and that none raises
that of another request, nor does a crash. Fairness is needed only for what is
left between the two: that those who can go on do.

**Startup.** `Holding` says that the processes between `mark` and `clean` are
exactly the lock's holder, which bounds the version. `SeedInv` says that there
is no copy of the seed, or one and every table; that a process which has
inserted is the `seeder` and finds no committed copy; and that migrating
processes serve over one. It holds for any number of crashes. `TruthInv` is about
executions without a crash: a migration that is recorded, or remembered by a
process about to force it, has its table or has its file running under the lock.
`ForceVersion` waits for that lock, so what it writes back has become true.

**Rollback.** `RTyped` extends `Holding` to both directions: whoever moves the
version, up or down, holds the lock, so the version tested is the version moved.
`SeedInv` is no longer true, as tables are dropped one by one. `RSeedInv` is what
is left of it: rows are only in tables that are there; rows in a table that
refers to countries mean rows in countries, because DROP is refused in between;
and a process about to commit the seed has all tables, empty (`FreshSeed`),
because DROP waits for it. Hence nothing is seeded twice (`RTypeOK`).
`RolledBackClean` is `TruthInv` for the way down. `AboveInv` says that, without a
crash and without a version forced under another process, no table is above the
recorded version, except the next one while a process is at `drop`. Hence no
DROP is refused (`NotRefused`): what refers to the table was above it. A rollback
returns below the first file, where nothing is left (`ReturnsEmpty`).
`SeedWhole` needs to know the tables exactly. Under the same conditions they are
those up to the recorded version, but for the one in hand (`Exact`), so no file is
refused in either direction and whoever has the lock goes through to an end: when
nobody has it, all tables are there or none (`AtTheEnds`). On the way up the
tables are therefore empty until the last is there (`EmptyOnTheWayUp`), on the way
down they go from the top, and the seed commits only over all of them, empty
(`Filled`).

**Insights.** `Groups` ties error, cancellation and phases of a group: it is
cancelled only by an error or by `Wait`, an error that is an echo needs a client
that left, an answered request has all workers returned, only a reading worker
holds a connection, and without a failure a returned worker has all its rows.
`NeverStuck` and `WorkShrinks` are here what they are for ingestion. They need
`Together` as well, that a group starts all its detectors at once: otherwise `Wait` could wait
for one that nobody starts.

**Reads.** The properties compare numbers read on different snapshots; what
makes them inductive is that the table only grows, so that what was counted or
shown stays a lower bound. `RInv` says so statement by statement: before the
page is read, `total` is at most the number of groups now (`CountSound`); the
rows shown are groups, with counts no larger than those now (`RowsKnown`).
`Stages` limits each kind of request to its own statements. `Wrapping` and
`PageLength` do the arithmetic of the pages in ints that wrap around.
`GapsKnown` does the same for the gaps, while none grows old: every gap now is
listed. That the coverage then counts no more than the list has is a comparison
of cardinalities, catalog minus active on one side and positions of the list on
the other, by way of a surjection (`CountedIsListed`).

`GapsAgree` is about a table that nobody writes to. Then the list is still
what the table says when the coverage is read (`GapsSame`), and the same
cardinalities are equal (`CountedAsListed`).

`TypeOK` is inductive with `RInv`, once the sums in it are numbers: `Measured` (the
TPV of a cell) and `Summed` (the summary of a page). `WalkInv` is what a walk
knows at every statement while nothing is written: as many rows as full pages
precede this one have been seen (`Placed`), the summaries so far are those of the
cells seen (`Adding`), and the keys of the cells seen are the beginning of the keys
of any order (`InOrder`). That all orders have the same keys in the same places
(`SameKeys`), ties or not, is a pigeonhole: if one had a later key at place i than
another, the i first cells of the latter would have to come before place i in the
former (`NotLater`). The rest
is arithmetic: a walk that ends has seen all (`PagesLeft`), and one that goes on
has not overflowed, as `Placed` bounds the offset by the number of groups
(`Overflowing`, `WalkSliced`). `WalkComplete` then follows, as an order
enumerates the groups without repetition; its sum of summaries is a `SumOfSizes`,
because no transaction belongs to two cells.

**Portfolio.** The lemma `HistoryInvariant` (no more approved transactions than
transactions) makes counts natural numbers and approvals at most counts.

* *Zombies.* `FewerIsWorse` and `MoreIsBetter` are the arithmetic of the
  thresholds, for all counts and spans. `SilenceOnlyWorsens` adds that time only
  takes transactions out of the 90 days (`LaterIsWorse`); `TrafficNeverKills`
  that one more lot adds as much to the count as to the recent ones, and only
  lengthens the history (`Appended`, `Longer`). `StatusesAgree` compares the two
  sets of thresholds.
* *Gems and alerts.* A rate of 90 % cannot be ten points below the average of
  rates of at most 100 % (`GoodRate`), here over a common denominator of the
  peers' counts. `RatesKnown` carries that from one snapshot to the other: a gem
  that has sold nothing since the client asked has its 90 % still, an alert has
  less, whatever its peers did meanwhile.
* *ROI.* `RoundDivBounds` and `CeilDivBounds` say what rounding may add. The total
  cost is known to half a cent (`CostsTyped`), which is what decides between cost
  and break-even (`BreakEvenSound`) and between cost and recommendation
  (`UnprofitableEarnsLess`). Percentages are not bounded by 100, nor are they
  in the schema.
* *Trends.* `TrendOfAnySeries` is about any sequence of at least two integers,
  whatever it measures. Its regression is written in deviations from the means,
  n times each to stay with integers: they add up to nothing, and the dot
  products among them are slope, spread and variance (`Moments`,
  `DeviationsOfPoints`). From there `SSResIs` and `SSTotIs` give that R squared, as
  the code computes it from residuals, is the square of the correlation. The
  months before the middle of a series count against the slope, those after it
  for it (`RunSigns`), so that a series which only rises has a slope above zero.
  `SeriesTyped` shows that what is shown are such series: the months in order are
  all the months (`InOrderIs`), and none is empty, so no rate divides by zero.

**Only model-checked.** Liveness (`EveryRequestEnds`, `EverySessionEnds`,
`EventuallyServes`, `ServesAgain`, `EveryRequestReplies`), which needs fairness
and ENABLED, out of the prover's reach. The five violations, which are
counterexamples and need no proof.

## 5. Not modelled

* Trends by week (WOW), which differ from months in the length of a bucket.
* The date filters, and with them the comparison of dates as strings.
* Sort keys other than TPV and count, and the rates and averages shown beside
  them; the opportunity score of a gap and the two cost ratios of the ROI, each a
  formula over one row.
* The filter by severity and the slice of the insights, which are those of the
  other lists.
* float64: the arithmetic is exact. A value within a rounding error of a
  threshold may fall to the other side in the code.
* Reference data that change while requests run: nothing in the repository
  does it.
* HTTP timeouts, `MinConns` and connection lifetimes; HTML, logging, config,
  health check and middleware.

PostgreSQL is taken at its word: READ COMMITTED statements, atomic commits,
unique keys that make a second inserter wait, locks that DROP TABLE waits for.

## 6. Plan

Done, in this order: ingestion and its abstraction; startup; insight detection;
the reading endpoints; rollback; pages and overflow; thresholds, ROI and trends;
proofs for all of them.

Left, for the model: the date filters, with a date as a string in one of the
formats the handler passes on; weeks; the page and the severity filter of the
insights. For the proofs: that the states from which `ServesAgain` knows no way
back are the only ones.
