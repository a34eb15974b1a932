------------------------------ MODULE Ingestion ------------------------------
(***************************************************************************)
(* POST /api/v1/transactions and POST /api/v1/transactions/batch: one      *)
(* goroutine per request walks handler, service and repositories; every    *)
(* query takes a connection of the pgx pool and can fail; the INSERTs run  *)
(* in a PostgreSQL session that can outlive the handler waiting for it.    *)
(*                                                                         *)
(* Amounts are integers: a request's in thousandths of its currency (JSON  *)
(* numbers may have more decimals than the DECIMAL(15,2) columns), a       *)
(* rate's in thousandths of a dollar, a row's in cents.  Of its other      *)
(* texts, an item says whether they fit their VARCHAR columns.             *)
(***************************************************************************)
EXTENDS Naturals, Sequences, FiniteSets

CONSTANTS
    Request,            \* HTTP requests
    Batch,              \* those sent to /transactions/batch
    Items,              \* the sequence of transactions in a request's body
    RetryOf,            \* the request a client repeats, or the request itself
    PaymentMethods,     \* codes in payment_methods
    Countries,          \* codes in countries
    Offered,            \* payment_method_countries, pairs <<pm, country>>
    Fx,                 \* countries.fx_rate_to_usd
    MaxBatch,           \* 500 in the code
    MaxCents,           \* what DECIMAL(15,2) holds: 10^15 - 1
    PoolSize,           \* pgxpool MaxConns, 25 in the code
    MaxFaults,          \* bound: connections or statements that fail
    MaxCrashes          \* bound: times the server process dies

ASSUME IngestAssumption ==
    /\ Batch \subseteq Request
    /\ PoolSize \in Nat \ {0}
    /\ MaxBatch \in Nat \ {0} /\ MaxCents \in Nat
    /\ MaxFaults \in Nat /\ MaxCrashes \in Nat
    /\ Offered \subseteq PaymentMethods \X Countries
    /\ Fx \in [Countries -> Nat]
    /\ RetryOf \in [Request -> Request]
    /\ Items \in [Request -> Seq([pm : STRING, country : STRING, amount : Nat, fits : BOOLEAN])]
    /\ \A r \in Request \ Batch : Len(Items[r]) = 1

VARIABLES
    pc,         \* where the handler of each request is
    item,       \* index of the transaction it works on
    bad,        \* indices a batch has found invalid (validationErrors)
    priced,     \* amounts in USD computed so far, in cents
    slots,      \* requests whose handler holds a connection across steps
    session,    \* state of the database session that inserts a request's rows
    executed,   \* INSERTs that session has executed in its transaction
    table,      \* committed rows of transactions
    answer,     \* outcome of each request
    up,         \* the server process runs
    faults, crashes

server == <<pc, item, bad, priced, slots>>
database == <<session, executed, table>>
vars == <<pc, item, bad, priced, slots, session, executed, table, answer, up,
          faults, crashes>>

Outcome == {"none", "created", "invalid", "error", "lost"}
Querying == {"exists", "country", "inCountry", "fx", "begin"}
Waiting == {"insert", "send", "scan", "commit"}
PC == {"idle", "done"} \cup Querying \cup Waiting
\* A session is open in a transaction, runs statements, has executed them all,
\* commits, has committed or has failed; it is closed before and after.
InFlight == {"open", "running", "executed", "committing"}
SessionState == InFlight \cup {"closed", "committed", "failed"}

N(r) == Len(Items[r])
Current(r) == Items[r][item[r]]

(* The binding tags of the request DTOs. *)
Bindable(r) == /\ N(r) \in 1..MaxBatch
               /\ \A i \in 1..N(r) : Items[r][i].amount > 0

(* math.Round(amount * fx * 100) / 100, and the rounding of DECIMAL(15,2). *)
USD(amount, rate) == (amount * rate + 5000) \div 10000
Cents(amount) == (amount + 5) \div 10

(* The row that the i-th INSERT of a request stores. *)
Row(r, i) == [req |-> r, idx |-> i, pm |-> Items[r][i].pm,
              country |-> Items[r][i].country,
              amount |-> Cents(Items[r][i].amount), usd |-> priced[r][i],
              fits |-> Items[r][i].fits]

(* Foreign keys, CHECK constraints and column types of transactions. *)
Admissible(row) == /\ row.pm \in PaymentMethods
                   /\ row.country \in Countries
                   /\ row.amount \in 1..MaxCents
                   /\ row.usd \in 1..MaxCents
                   /\ row.fits

Init == /\ pc = [r \in Request |-> "idle"]
        /\ item = [r \in Request |-> 1]
        /\ bad = [r \in Request |-> {}]
        /\ priced = [r \in Request |-> <<>>]
        /\ slots = {}
        /\ session = [r \in Request |-> "closed"]
        /\ executed = [r \in Request |-> 0]
        /\ table = {}
        /\ answer = [r \in Request |-> "none"]
        /\ up = TRUE
        /\ faults = 0 /\ crashes = 0

-----------------------------------------------------------------------------
(* The handler's side. *)

Goto(r, where) == pc' = [pc EXCEPT ![r] = where]
Reply(r, how) == /\ Goto(r, "done")
                 /\ answer' = [answer EXCEPT ![r] = how]
Release(r) == slots' = slots \ {r}
FreeConn == Cardinality(slots) < PoolSize

(* The HTTP status the handler writes for an outcome. *)
Status(r) == CASE answer[r] = "created" -> 201
               [] answer[r] = "invalid" -> 400
               [] answer[r] = "error" -> IF r \in Batch THEN 500 ELSE 400
               [] OTHER -> 0

(* A client sends a request, or repeats one that got no answer or a 500. *)
MaySend(r) == /\ up /\ pc[r] = "idle"
              /\ \/ RetryOf[r] = r
                 \/ answer[RetryOf[r]] \in {"error", "lost"}

Bind(r) == /\ MaySend(r)
           /\ IF Bindable(r) THEN Goto(r, "exists") /\ UNCHANGED answer
                             ELSE Reply(r, "invalid")
           /\ UNCHANGED <<item, bad, priced, slots, database, up, faults, crashes>>

(* Mutant: the index runs past the end of the batch.                       *)
AfterValidationPastEnd(r, invalid) ==
    /\ bad' = [bad EXCEPT ![r] = invalid]
    /\ IF item[r] <= N(r)
       THEN item' = [item EXCEPT ![r] = @ + 1] /\ Goto(r, "exists") /\ UNCHANGED answer
       ELSE item' = [item EXCEPT ![r] = 1] /\ Goto(r, "fx") /\ UNCHANGED answer

(* Mutant: the handler answers 400 and forgets to return.                  *)
AfterValidationNoReturn(r, invalid) ==
    /\ bad' = [bad EXCEPT ![r] = invalid]
    /\ IF item[r] < N(r)
       THEN item' = [item EXCEPT ![r] = @ + 1] /\ Goto(r, "exists") /\ UNCHANGED answer
       ELSE /\ item' = [item EXCEPT ![r] = 1] /\ Goto(r, "fx")
            /\ answer' = IF invalid # {} THEN [answer EXCEPT ![r] = "invalid"] ELSE answer

(* Mutant: one bad item does not refuse the batch.                         *)
AfterValidationOneBad(r, invalid) ==
    /\ bad' = [bad EXCEPT ![r] = invalid]
    /\ IF item[r] < N(r)
       THEN item' = [item EXCEPT ![r] = @ + 1] /\ Goto(r, "exists") /\ UNCHANGED answer
       ELSE /\ item' = [item EXCEPT ![r] = 1]
            /\ IF item[r] \in invalid \/ Cardinality(invalid) > 1
               THEN Reply(r, "invalid") ELSE Goto(r, "fx") /\ UNCHANGED answer

(* The step after the transaction at item[r] has been validated, given the *)
(* indices found invalid so far: the next one, the answer, or the rates.   *)
AfterValidation(r, invalid) ==
    /\ bad' = [bad EXCEPT ![r] = invalid]
    /\ IF item[r] < N(r)
       THEN /\ item' = [item EXCEPT ![r] = @ + 1]
            /\ Goto(r, "exists") /\ UNCHANGED answer
       ELSE /\ item' = [item EXCEPT ![r] = 1]
            /\ IF invalid # {} THEN Reply(r, "invalid")
                               ELSE Goto(r, "fx") /\ UNCHANGED answer

(* One EXISTS query of validateTransaction: go on if it finds its row.     *)
Validate(r, at, found, next) ==
    /\ pc[r] = at /\ FreeConn
    /\ IF found /\ next # "valid"
       THEN Goto(r, next) /\ UNCHANGED <<item, bad, answer>>
       ELSE AfterValidation(r, IF found THEN bad[r] ELSE bad[r] \cup {item[r]})
    /\ UNCHANGED <<priced, slots, database, up, faults, crashes>>

Exists(r) == Validate(r, "exists", Current(r).pm \in PaymentMethods, "country")
CountryExists(r) == Validate(r, "country", Current(r).country \in Countries, "inCountry")

ExistsInCountry(r) ==
    Validate(r, "inCountry", <<Current(r).pm, Current(r).country>> \in Offered, "valid")

(* The rate of the country, and amountUSD from it.                         *)
GetFxRate(r) ==
    /\ pc[r] = "fx" /\ FreeConn
    /\ Current(r).country \in Countries
    /\ priced' = [priced EXCEPT ![r] = Append(@, USD(Current(r).amount, Fx[Current(r).country]))]
    /\ IF item[r] < N(r)
       THEN item' = [item EXCEPT ![r] = @ + 1] /\ UNCHANGED pc
       ELSE UNCHANGED item /\ Goto(r, "begin")
    /\ UNCHANGED <<bad, slots, database, answer, up, faults, crashes>>

(* Insert sends one INSERT that commits by itself. *)
Insert(r) ==
    /\ pc[r] = "begin" /\ r \notin Batch /\ FreeConn
    /\ Goto(r, "insert")
    /\ slots' = slots \cup {r}
    /\ session' = [session EXCEPT ![r] = "running"]
    /\ UNCHANGED <<item, bad, priced, executed, table, answer, up, faults, crashes>>

(* InsertBatch opens a transaction ... *)
Begin(r) ==
    /\ pc[r] = "begin" /\ r \in Batch /\ FreeConn
    /\ Goto(r, "send")
    /\ slots' = slots \cup {r}
    /\ session' = [session EXCEPT ![r] = "open"]
    /\ UNCHANGED <<item, bad, priced, executed, table, answer, up, faults, crashes>>

(* ... sends all its INSERTs in one round trip ... *)
SendBatch(r) ==
    /\ pc[r] = "send" /\ session[r] = "open"
    /\ Goto(r, "scan")
    /\ session' = [session EXCEPT ![r] = "running"]
    /\ UNCHANGED <<item, bad, priced, slots, executed, table, answer, up, faults, crashes>>

(* Mutant: commits without reading the results.                            *)
SendCommitUnread(r) ==
    /\ pc[r] = "scan" /\ session[r] \in {"running", "executed"}
    /\ Goto(r, "commit")
    /\ session' = [session EXCEPT ![r] = "committing"]
    /\ UNCHANGED <<item, bad, priced, slots, executed, table, answer, up, faults, crashes>>

(* ... reads every result and commits ... *)
SendCommit(r) ==
    /\ pc[r] = "scan" /\ session[r] = "executed"
    /\ Goto(r, "commit")
    /\ session' = [session EXCEPT ![r] = "committing"]
    /\ UNCHANGED <<item, bad, priced, slots, executed, table, answer, up, faults, crashes>>

(* Mutant: answers before the acknowledgement.                             *)
ReadAckEarly(r) ==
    /\ pc[r] \in {"insert", "commit"} /\ session[r] \in {"committing", "committed"}
    /\ Release(r) /\ Reply(r, "created")
    /\ UNCHANGED <<item, bad, priced, session, executed, table, up, faults, crashes>>

(* ... and the last acknowledgement gives the connection back. *)
ReadAck(r) ==
    /\ pc[r] \in {"insert", "commit"} /\ session[r] = "committed"
    /\ session' = [session EXCEPT ![r] = "closed"]
    /\ Release(r) /\ Reply(r, "created")
    /\ UNCHANGED <<item, bad, priced, executed, table, up, faults, crashes>>

(* Mutant: the error of Commit is dropped.                                 *)
ReadErrorIgnored(r) ==
    /\ pc[r] \in Waiting /\ session[r] = "failed"
    /\ session' = [session EXCEPT ![r] = "closed"]
    /\ Release(r) /\ Reply(r, IF pc[r] = "commit" THEN "created" ELSE "error")
    /\ UNCHANGED <<item, bad, priced, executed, table, up, faults, crashes>>

(* Mutant: no deferred Rollback, the connection never comes back.          *)
ReadErrorNoRollback(r) ==
    /\ pc[r] \in Waiting /\ session[r] = "failed"
    /\ Reply(r, "error")
    /\ UNCHANGED <<item, bad, priced, slots, database, up, faults, crashes>>

(* The database refused: the deferred Rollback closes the transaction. *)
ReadError(r) ==
    /\ pc[r] \in Waiting /\ session[r] = "failed"
    /\ session' = [session EXCEPT ![r] = "closed"]
    /\ Release(r) /\ Reply(r, "error")
    /\ UNCHANGED <<item, bad, priced, executed, table, up, faults, crashes>>

(* A query fails, or the client goes away and its context is cancelled:    *)
(* every error that is not a validationErr ends the request.               *)
QueryFails(r) ==
    /\ pc[r] \in Querying /\ faults < MaxFaults
    /\ faults' = faults + 1
    /\ Reply(r, "error")
    /\ UNCHANGED <<item, bad, priced, slots, database, up, crashes>>

(* The same while the handler waits for an insert: the pool drops the      *)
(* connection, and the session may still carry out what it was sent.       *)
ConnectionLost(r) ==
    /\ pc[r] \in Waiting /\ faults < MaxFaults
    /\ faults' = faults + 1
    /\ Release(r) /\ Reply(r, "error")
    /\ UNCHANGED <<item, bad, priced, database, up, crashes>>

-----------------------------------------------------------------------------
(* PostgreSQL's side. *)

(* Mutant: the batch goes to the pool and not to the transaction.          *)
ExecuteOutsideTx(r) ==
    /\ session[r] = "running"
    /\ IF ~Admissible(Row(r, executed[r] + 1))
       THEN /\ session' = [session EXCEPT ![r] = "failed"]
            /\ UNCHANGED <<executed, table>>
       ELSE /\ executed' = [executed EXCEPT ![r] = @ + 1]
            /\ table' = table \cup {Row(r, executed[r] + 1)}
            /\ session' = [session EXCEPT ![r] = IF r \notin Batch THEN "committed"
                          ELSE IF executed[r] + 1 = N(r) THEN "executed" ELSE "running"]
    /\ UNCHANGED <<server, answer, up, faults, crashes>>

(* The next INSERT of a session.  One that is refused ends the session's   *)
(* transaction; the one of a single request commits at once.               *)
Execute(r) ==
    /\ session[r] = "running"
    /\ IF ~Admissible(Row(r, executed[r] + 1))
       THEN /\ session' = [session EXCEPT ![r] = "failed"]
            /\ UNCHANGED <<executed, table>>
       ELSE /\ executed' = [executed EXCEPT ![r] = @ + 1]
            /\ IF r \in Batch
               THEN /\ session' = [session EXCEPT ![r] =
                          IF executed[r] + 1 = N(r) THEN "executed" ELSE "running"]
                    /\ UNCHANGED table
               ELSE /\ session' = [session EXCEPT ![r] = "committed"]
                    /\ table' = table \cup {Row(r, 1)}
    /\ UNCHANGED <<server, answer, up, faults, crashes>>

Commit(r) ==
    /\ session[r] = "committing"
    /\ session' = [session EXCEPT ![r] = "committed"]
    /\ table' = table \cup {Row(r, i) : i \in 1..executed[r]}
    /\ UNCHANGED <<server, executed, answer, up, faults, crashes>>

(* The database ends a transaction: a restart, a lock or disk failure.     *)
Abort(r) ==
    /\ session[r] \in InFlight /\ faults < MaxFaults
    /\ faults' = faults + 1
    /\ session' = [session EXCEPT ![r] = "failed"]
    /\ UNCHANGED <<server, executed, table, answer, up, crashes>>

(* A session whose connection has been given up ends; what it had not      *)
(* begun to execute, and what it had not committed, is gone.               *)
Orphaned(r) ==
    /\ session[r] # "closed" /\ r \notin slots
    /\ session' = [session EXCEPT ![r] = "closed"]
    /\ UNCHANGED <<server, executed, table, answer, up, faults, crashes>>

-----------------------------------------------------------------------------
(* The process dies, or exits when Shutdown times out, and is restarted.   *)
Crash ==
    /\ up /\ crashes < MaxCrashes
    /\ up' = FALSE
    /\ crashes' = crashes + 1
    /\ LET cut == {r \in Request : pc[r] \in Querying \cup Waiting}
       IN  /\ pc' = [r \in Request |-> IF r \in cut THEN "done" ELSE pc[r]]
           /\ answer' = [r \in Request |-> IF r \in cut THEN "lost" ELSE answer[r]]
    /\ slots' = {}
    /\ UNCHANGED <<item, bad, priced, database, faults>>

Restart == /\ ~up
           /\ up' = TRUE
           /\ UNCHANGED <<server, database, answer, faults, crashes>>

(* Nobody sends anything any more and every session has ended.             *)
Quiescent == /\ up
             /\ \A r \in Request : pc[r] \in {"idle", "done"} /\ session[r] = "closed"
             /\ UNCHANGED vars

Handle(r) == \/ Exists(r) \/ CountryExists(r) \/ ExistsInCountry(r) \/ GetFxRate(r)
             \/ Insert(r) \/ Begin(r) \/ SendBatch(r) \/ SendCommit(r)
             \/ ReadAck(r) \/ ReadError(r)

Work(r) == Execute(r) \/ Commit(r)

Fail(r) == QueryFails(r) \/ ConnectionLost(r) \/ Abort(r)

Next == \/ \E r \in Request : Bind(r) \/ Handle(r) \/ Work(r) \/ Orphaned(r) \/ Fail(r)
        \/ Crash \/ Restart \/ Quiescent

Spec == Init /\ [][Next]_vars

(* The Go scheduler runs every handler, PostgreSQL every session, the pool *)
(* serves waiters in turn, and Docker restarts the container.  Clients owe *)
(* nothing: Bind has no fairness.                                          *)
Fairness == /\ \A r \in Request : /\ WF_vars(Handle(r))
                                  /\ WF_vars(Work(r))
                                  /\ WF_vars(Orphaned(r))
            /\ WF_vars(Restart)

FairSpec == Spec /\ Fairness

-----------------------------------------------------------------------------
TypeOK == /\ pc \in [Request -> PC]
          /\ item \in [Request -> Nat \ {0}]
          /\ \A r \in Request : item[r] = 1 \/ item[r] <= N(r)
          /\ bad \in [Request -> SUBSET (Nat \ {0})]
          /\ priced \in [Request -> Seq(Nat)]
          /\ slots \subseteq Request
          /\ session \in [Request -> SessionState]
          /\ executed \in [Request -> Nat]
          /\ answer \in [Request -> Outcome]
          /\ up \in BOOLEAN
          /\ faults \in 0..MaxFaults /\ crashes \in 0..MaxCrashes

StoredOf(r) == {row.idx : row \in {x \in table : x.req = r}}

(* swagger.json: a batch is inserted atomically, all or nothing.  Whatever *)
(* is interrupted, lost or aborted, no reader ever finds a part of it.     *)
AllOrNothing == \A r \in Request : StoredOf(r) \in {{}, DOMAIN Items[r]}

(* A 201 is durable: the rows are in the table, and stay there through     *)
(* crashes, lost connections and the other requests.                       *)
CreatedIsStored == \A r \in Request : answer[r] = "created" => StoredOf(r) = DOMAIN Items[r]

(* After a validation answer no session is left that could still insert:   *)
(* the client may send the corrected request without fear of duplicates.   *)
InvalidNeverStored ==
    \A r \in Request : answer[r] = "invalid" => StoredOf(r) = {} /\ session[r] = "closed"

(* Every stored row is one the checks of validateTransaction and the rate  *)
(* of its own country explain, though the schema asks for less: it has no  *)
(* foreign key to payment_method_countries and takes any positive USD.     *)
StoredRowsSound ==
    \A row \in table :
        /\ <<row.pm, row.country>> \in Offered
        /\ row.usd = USD(Items[row.req][row.idx].amount, Fx[row.country])
        /\ row.usd > 0

(* Without a failure an error answer means that nothing was or will be     *)
(* stored.  (With one, the rows may be there, or come later.)              *)
ErrorStoresNothingUnlessFault ==
    \A r \in Request :
        answer[r] = "error" /\ faults = 0 => StoredOf(r) = {} /\ session[r] \notin InFlight

(* The pool: never more connections than MaxConns, each held by a handler  *)
(* that is waiting for its insert, so none is lost when a request fails.   *)
SlotsAccounted == /\ Cardinality(slots) <= PoolSize
                  /\ slots = {r \in Request : pc[r] \in Waiting}

(* swagger.json says that a 400 of the single endpoint is a validation     *)
(* error, so nothing is stored; the handler answers 400 to every error of  *)
(* the service, a lost acknowledgement of the INSERT included.             *)
BadRequestIsValidation ==
    \A r \in Request \ Batch : Status(r) = 400 => StoredOf(r) = {}

(* A step of any actor publishes rows of one request only, all of them at  *)
(* once, and never takes back what readers have seen.                      *)
RowsAppearWhole ==
    [][/\ table \subseteq table'
       /\ \A a, b \in table' \ table : a.req = b.req
       /\ \A a \in table' \ table : StoredOf(a.req)' = DOMAIN Items[a.req]]_vars

(* Every request the server takes is answered, or lost with the process:   *)
(* the pool never keeps a handler waiting for ever.                        *)
EveryRequestEnds == \A r \in Request : (pc[r] # "idle") ~> (answer[r] # "none")

(* No session stays open: locks and connections of the database come back. *)
EverySessionEnds == \A r \in Request : (session[r] # "closed") ~> (session[r] = "closed")

(* The rows a request stands for, from its body alone.                     *)
RowFor(r, i) == [req |-> r, idx |-> i, pm |-> Items[r][i].pm,
                 country |-> Items[r][i].country, amount |-> Cents(Items[r][i].amount),
                 usd |-> USD(Items[r][i].amount, Fx[Items[r][i].country]),
                 fits |-> Items[r][i].fits]

RowsOf == [r \in Request |-> {RowFor(r, i) : i \in DOMAIN Items[r]}]

Abstract == INSTANCE AtomicIngest WITH received <- {r \in Request : pc[r] # "idle"}

(* The handlers, the pool and the sessions implement AtomicIngest.         *)
ImplementsAtomicIngest == Abstract!Spec
=============================================================================
