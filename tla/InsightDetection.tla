-------------------------- MODULE InsightDetection --------------------------
(***************************************************************************)
(* GET /api/v1/insights: DetectInsights runs up to three detectors in an   *)
(* errgroup.  Each borrows a connection of the shared pool, reads the rows *)
(* of its candidates query one by one, and returns; the first error        *)
(* cancels the group's context, and Wait joins them all.  A row stands for *)
(* a candidate, whose thresholds do not matter here.                       *)
(***************************************************************************)
EXTENDS Naturals, FiniteSets

CONSTANTS Request,       \* HTTP requests
          Detector,      \* "zombie", "hidden_gem", "performance_alert"
          Selected,      \* detectors that each request's insight_type selects
          Candidates,    \* rows that the query of each detector yields
          PoolSize,      \* connections of the pool
          MaxFaults      \* bound: queries that fail and clients that go away

Worker == Request \X Detector

ASSUME InsightAssumption ==
    /\ Selected \in [Request -> SUBSET Detector]
    /\ Candidates \in [Detector -> Nat]
    /\ PoolSize \in Nat \ {0}
    /\ MaxFaults \in Nat

VARIABLES phase,         \* where each detector goroutine is
          got,           \* rows it has read
          held,          \* detectors that hold a connection
          cut,           \* detectors whose rows ended before the last one
          err,           \* error of each errgroup: the first one it was given
          cancelled,     \* groups whose context is cancelled
          gone,          \* requests whose client went away
          reply,         \* HTTP status of each request, 0 before the answer
          faults

vars == <<phase, got, held, cut, err, cancelled, gone, reply, faults>>

Init == /\ phase = [w \in Worker |-> "off"]
        /\ got = [w \in Worker |-> 0]
        /\ held = {} /\ cut = {}
        /\ err = [q \in Request |-> "none"]
        /\ cancelled = {} /\ gone = {}
        /\ reply = [q \in Request |-> 0]
        /\ faults = 0

Of(q) == {w \in Worker : w[1] = q /\ w[2] \in Selected[q]}
Started(q) == {w \in Of(q) : phase[w] # "off"} # {}
Cancelled(q) == q \in cancelled \cup gone

(* DetectInsights starts a goroutine per selected detector.                *)
Start(q) == /\ \A w \in Of(q) : phase[w] = "off"
            /\ reply[q] = 0 /\ Of(q) # {}
            /\ phase' = [w \in Worker |-> IF w \in Of(q) THEN "acquire" ELSE phase[w]]
            /\ UNCHANGED <<got, held, cut, err, cancelled, gone, reply, faults>>

(* Mutant: detectors do not go through the pool.                           *)
AcquireUnpooled(w) ==
    /\ phase[w] = "acquire" /\ ~Cancelled(w[1])
    /\ phase' = [phase EXCEPT ![w] = "rows"]
    /\ held' = held \cup {w}
    /\ UNCHANGED <<got, cut, err, cancelled, gone, reply, faults>>

(* pool.Query: wait for a connection and send the query.                   *)
Acquire(w) ==
    /\ phase[w] = "acquire" /\ ~Cancelled(w[1])
    /\ Cardinality(held) < PoolSize
    /\ phase' = [phase EXCEPT ![w] = "rows"]
    /\ held' = held \cup {w}
    /\ UNCHANGED <<got, cut, err, cancelled, gone, reply, faults>>

ReadRow(w) ==
    /\ phase[w] = "rows" /\ got[w] < Candidates[w[2]]
    /\ got' = [got EXCEPT ![w] = @ + 1]
    /\ UNCHANGED <<phase, held, cut, err, cancelled, gone, reply, faults>>

(* rows.Next() says there are no more, after the last row ...              *)
LastRow(w) ==
    /\ phase[w] = "rows" /\ got[w] = Candidates[w[2]]
    /\ phase' = [phase EXCEPT ![w] = "returned"]
    /\ held' = held \ {w}
    /\ UNCHANGED <<got, cut, err, cancelled, gone, reply, faults>>

(* ... or because the query failed while it ran, the connection broke or   *)
(* the context was cancelled: rows.Err() knows, and nobody asks it.        *)
RowsCut(w) ==
    /\ phase[w] = "rows"
    /\ \/ Cancelled(w[1]) /\ UNCHANGED faults
       \/ faults < MaxFaults /\ faults' = faults + 1
    /\ phase' = [phase EXCEPT ![w] = "returned"]
    /\ held' = held \ {w}
    /\ cut' = cut \cup {w}
    /\ UNCHANGED <<got, err, cancelled, gone, reply>>

(* Mutant: a later error replaces the first.                               *)
ReturnLastError(w, e) ==
    /\ phase' = [phase EXCEPT ![w] = "returned"]
    /\ err' = [err EXCEPT ![w[1]] = e]
    /\ cancelled' = cancelled \cup {w[1]}

(* errgroup.Go: the first error is kept and cancels the others.            *)
ReturnError(w, e) ==
    /\ phase' = [phase EXCEPT ![w] = "returned"]
    /\ err' = [err EXCEPT ![w[1]] = IF @ = "none" THEN e ELSE @]
    /\ cancelled' = cancelled \cup {w[1]}

(* Mutant: no deferred rows.Close().                                       *)
QueryFailsNoClose(w) ==
    /\ phase[w] \in {"acquire", "rows"} /\ faults < MaxFaults
    /\ faults' = faults + 1
    /\ ReturnError(w, "query")
    /\ UNCHANGED <<got, held, cut, gone, reply>>

(* Query returns an error, or Scan does.                                   *)
QueryFails(w) ==
    /\ phase[w] \in {"acquire", "rows"} /\ faults < MaxFaults
    /\ faults' = faults + 1
    /\ ReturnError(w, "query")
    /\ held' = held \ {w}
    /\ UNCHANGED <<got, cut, gone, reply>>

(* The wait for a connection ends with the context's error.                *)
AcquireCancelled(w) ==
    /\ phase[w] = "acquire" /\ Cancelled(w[1])
    /\ ReturnError(w, "cancelled")
    /\ UNCHANGED <<got, held, cut, gone, reply, faults>>

ClientGoes(q) ==
    /\ reply[q] = 0 /\ q \notin gone /\ faults < MaxFaults
    /\ Started(q)
    /\ faults' = faults + 1
    /\ gone' = gone \cup {q}
    /\ UNCHANGED <<phase, got, held, cut, err, cancelled, reply>>

(* Mutant: answers on the first error or result.                           *)
WaitFirst(q) ==
    /\ reply[q] = 0 /\ \E w \in Of(q) : phase[w] = "returned"
    /\ reply' = [reply EXCEPT ![q] = IF err[q] = "none" THEN 200 ELSE 500]
    /\ UNCHANGED <<phase, got, held, cut, err, cancelled, gone, faults>>

(* g.Wait(), and the handler's answer.                                     *)
Wait(q) ==
    /\ reply[q] = 0 /\ Of(q) # {} /\ \A w \in Of(q) : phase[w] = "returned"
    /\ reply' = [reply EXCEPT ![q] = IF err[q] = "none" THEN 200 ELSE 500]
    /\ cancelled' = cancelled \cup {q}
    /\ UNCHANGED <<phase, got, held, cut, err, gone, faults>>

(* An insight_type that names no detector: an empty group.                 *)
WaitEmpty(q) ==
    /\ reply[q] = 0 /\ Of(q) = {}
    /\ reply' = [reply EXCEPT ![q] = 200]
    /\ UNCHANGED <<phase, got, held, cut, err, cancelled, gone, faults>>

Answered == \A q \in Request : reply[q] # 0

Quiescent == Answered /\ UNCHANGED vars

Run(w) == \/ Acquire(w) \/ ReadRow(w) \/ LastRow(w) \/ AcquireCancelled(w)

Next == \/ \E q \in Request : Start(q) \/ ClientGoes(q) \/ Wait(q) \/ WaitEmpty(q)
        \/ \E w \in Worker : Run(w) \/ RowsCut(w) \/ QueryFails(w)
        \/ Quiescent

Spec == Init /\ [][Next]_vars

(* Goroutines run, and so does PostgreSQL; the pool serves its waiters.    *)
Fairness == /\ \A w \in Worker : WF_vars(Run(w))
            /\ \A q \in Request : WF_vars(Wait(q) \/ WaitEmpty(q))

FairSpec == Spec /\ Fairness

-----------------------------------------------------------------------------
(* Types, and never more connections than the pool has.                    *)
TypeOK == /\ phase \in [Worker -> {"off", "acquire", "rows", "returned"}]
          /\ got \in [Worker -> Nat]
          /\ \A w \in Worker : got[w] <= Candidates[w[2]]
          /\ held \subseteq Worker /\ cut \subseteq Worker
          /\ Cardinality(held) <= PoolSize
          /\ err \in [Request -> {"none", "query", "cancelled"}]
          /\ cancelled \subseteq Request /\ gone \subseteq Request
          /\ reply \in [Request -> {0, 200, 500}]
          /\ faults \in 0..MaxFaults

(* The answer names the failure and not its echo: a detector that ends     *)
(* because another failed never gives the group its error.                 *)
RootCause == \A q \in Request : err[q] = "cancelled" => q \in gone

(* Without a failure a 200 carries every candidate of every detector.      *)
OkIsComplete ==
    \A q \in Request : reply[q] = 200 /\ faults = 0 =>
        \A w \in Of(q) : got[w] = Candidates[w[2]]

(* Requests that share a pool smaller than their detectors still end.      *)
EveryRequestReplies ==
    \A q \in Request : Started(q) ~> (reply[q] # 0)

(* README: the detectors run concurrently "with proper error propagation". *)
NoErrorSwallowed == \A q \in Request : reply[q] = 200 => cut \cap Of(q) = {}
=============================================================================
