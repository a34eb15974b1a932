------------------------- MODULE IngestionRefinement -------------------------
(***************************************************************************)
(* The theorems about Ingestion that rest on those of IngestionProofs: no  *)
(* connection of the pool is lost, nobody waits for ever for one, no       *)
(* request works for ever, and the handlers, the pool and the sessions     *)
(* implement AtomicIngest.                                                 *)
(***************************************************************************)
EXTENDS IngestionProofs, FiniteSetTheorems

USE DEF Outcome, Querying, Waiting, PC, InFlight, SessionState

(***************************************************************************)
(* The connections.  slots is finite because it starts empty and grows by  *)
(* one, which Request, that may be infinite, does not tell.                *)
(***************************************************************************)
Slots == IsFiniteSet(slots) /\ SlotsAccounted

LEMMA SlotTaken ==
    ASSUME Slots, TypeOK, NEW r \in Request, FreeConn, NEW w \in Waiting,
           slots' = slots \cup {r}, pc' = [pc EXCEPT ![r] = w]
    PROVE  Slots'
<1>c. IsFiniteSet(slots) /\ Cardinality(slots) \in Nat
  BY FS_CardinalityType DEF Slots
<1>1. IsFiniteSet(slots') /\ Cardinality(slots') <= Cardinality(slots) + 1
  <2>1. /\ IsFiniteSet(slots \cup {r})
        /\ Cardinality(slots \cup {r}) = IF r \in slots THEN Cardinality(slots)
                                                       ELSE Cardinality(slots) + 1
    BY <1>c, FS_AddElement
  <2> QED
    BY <1>c, <2>1
<1>2. Cardinality(slots') <= PoolSize
  BY <1>1, FS_CardinalityType, IngestAssumption DEF Slots, FreeConn, IngestAssumption
<1>3. slots' = {q \in Request : pc'[q] \in Waiting}
  BY DEF Slots, SlotsAccounted, TypeOK
<1> QED
  BY <1>1, <1>2, <1>3 DEF Slots, SlotsAccounted

LEMMA SlotReturned ==
    ASSUME Slots, TypeOK, NEW r \in Request,
           slots' = slots \ {r}, pc' = [pc EXCEPT ![r] = "done"]
    PROVE  Slots'
<1>c. IsFiniteSet(slots) /\ Cardinality(slots) \in Nat
  BY FS_CardinalityType DEF Slots
<1>1. IsFiniteSet(slots') /\ Cardinality(slots') <= Cardinality(slots)
  <2>1. /\ IsFiniteSet(slots \ {r})
        /\ Cardinality(slots \ {r}) = IF r \in slots THEN Cardinality(slots) - 1
                                                     ELSE Cardinality(slots)
    BY <1>c, FS_RemoveElement
  <2> QED
    BY <1>c, <2>1
<1>2. Cardinality(slots') <= PoolSize
  BY <1>1, FS_CardinalityType, IngestAssumption DEF Slots, SlotsAccounted, IngestAssumption
<1>3. slots' = {q \in Request : pc'[q] \in Waiting}
  BY DEF Slots, SlotsAccounted, TypeOK
<1> QED
  BY <1>1, <1>2, <1>3 DEF Slots, SlotsAccounted

LEMMA SlotKept ==
    ASSUME Slots, UNCHANGED slots,
           \A q \in Request : pc'[q] \in Waiting <=> pc[q] \in Waiting
    PROVE  Slots'
  BY DEF Slots, SlotsAccounted

LEMMA SlotsStep == Typed /\ Slots /\ [Next]_vars => Slots'
<1> SUFFICES ASSUME TypeOK, Slots, [Next]_vars PROVE Slots'
  BY DEF Typed
<1> USE DEF Goto, Reply, Release, server, database
<1>1. ASSUME NEW r \in Request,
             Exists(r) \/ CountryExists(r) \/ ExistsInCountry(r)
      PROVE  Slots'
  <2>1. ASSUME NEW at \in {"exists", "country", "inCountry"}, NEW found,
               NEW next \in {"country", "inCountry", "valid"}, Validate(r, at, found, next)
        PROVE  UNCHANGED slots /\ \A q \in Request : pc'[q] \in Waiting <=> pc[q] \in Waiting
    <3>1. pc[r] = at /\ UNCHANGED slots /\ \E w \in {"country", "inCountry", "exists", "fx", "done"} : Goto(r, w)
      <4>1. CASE found /\ next # "valid"
        BY <2>1, <4>1 DEF Validate
      <4>2. CASE ~(found /\ next # "valid")
        BY <2>1, <4>2 DEF Validate, AfterValidation
      <4> QED
        BY <4>1, <4>2
    <3> QED
      BY <3>1 DEF TypeOK, Waiting
  <2>2. CASE Exists(r)
    BY ONLY <2>1, <2>2, SlotKept, Slots DEF Exists
  <2>3. CASE CountryExists(r)
    BY ONLY <2>1, <2>3, SlotKept, Slots DEF CountryExists
  <2>4. CASE ExistsInCountry(r)
    BY ONLY <2>1, <2>4, SlotKept, Slots DEF ExistsInCountry
  <2> QED
    BY <1>1, <2>2, <2>3, <2>4
<1>2. ASSUME NEW r \in Request, Bind(r) \/ GetFxRate(r) \/ QueryFails(r) PROVE Slots'
  BY <1>2, SlotKept DEF Bind, MaySend, GetFxRate, QueryFails, TypeOK
<1>3. ASSUME NEW r \in Request, Insert(r) \/ Begin(r) PROVE Slots'
  BY <1>3, SlotTaken DEF Insert, Begin
<1>4. ASSUME NEW r \in Request, SendBatch(r) \/ SendCommit(r) PROVE Slots'
  BY <1>4, SlotKept DEF SendBatch, SendCommit, TypeOK
<1>5. ASSUME NEW r \in Request, ReadAck(r) \/ ReadError(r) \/ ConnectionLost(r) PROVE Slots'
  BY <1>5, SlotReturned DEF ReadAck, ReadError, ConnectionLost
<1>6. ASSUME NEW r \in Request, Execute(r) \/ Commit(r) \/ Orphaned(r) \/ Abort(r) PROVE Slots'
  BY <1>6, SlotKept DEF Execute, Commit, Orphaned, Abort
<1>7. ASSUME Crash PROVE Slots'
  <2>1. slots' = {} /\ \A q \in Request : pc'[q] \notin Waiting
    BY <1>7 DEF Crash, TypeOK
  <2> QED
    BY <2>1, FS_EmptySet, IngestAssumption DEF Slots, SlotsAccounted, IngestAssumption
<1>8. ASSUME Restart \/ UNCHANGED vars PROVE Slots'
  BY <1>8, SlotKept DEF Restart, vars
<1> QED
  BY <1>1, <1>2, <1>3, <1>4, <1>5, <1>6, <1>7, <1>8 DEF Next, Handle, Work, Fail, Quiescent

(***************************************************************************)
(* Every connection in use belongs to a handler that waits for its insert, *)
(* and there are at most PoolSize: InsertBatch gives its connection back   *)
(* on each of its paths.                                                   *)
(***************************************************************************)
THEOREM NoConnectionLost == Spec => []SlotsAccounted
<1>1. Init => Slots
  BY FS_EmptySet, IngestAssumption DEF IngestAssumption, Init, Slots, SlotsAccounted
<1>2. Slots => SlotsAccounted
  BY DEF Slots
<1> QED
  BY <1>1, <1>2, SlotsStep, Invariant, PTL DEF Spec, IInv

-----------------------------------------------------------------------------
(***************************************************************************)
(* No deadlock on the pool.  Whoever holds a connection finishes without   *)
(* another: its session has something to do or its handler something to    *)
(* read, whatever failed.  Finishes and Ready are the guards of Handle,    *)
(* Work and Orphaned.                                                      *)
(***************************************************************************)
Finishes(r) == \/ session[r] \in {"committing", "failed"}
               \/ session[r] = "running" /\ executed[r] < N(r)
               \/ pc[r] = "send" /\ session[r] = "open"
               \/ pc[r] = "scan" /\ session[r] = "executed"
               \/ pc[r] \in {"insert", "commit"} /\ session[r] = "committed"

Ready(r) == \/ pc[r] \in Querying /\ FreeConn /\ (pc[r] = "fx" => Current(r).country \in Countries)
            \/ r \in slots /\ Finishes(r)
            \/ r \notin slots /\ session[r] # "closed"

HoldersFinish == \A r \in slots : Finishes(r)

NeverStuck == \A r \in Request : pc[r] \notin {"idle", "done"} \/ session[r] # "closed" =>
                  \E q \in Request : Ready(q)

(* Where the handler waits, the session is at a state that it waits for.   *)
Coupled(r) == /\ pc[r] = "insert" => r \notin Batch /\ session[r] \in {"running", "committed", "failed"}
              /\ pc[r] = "send" => r \in Batch /\ session[r] \in {"open", "failed"}
              /\ pc[r] = "scan" => r \in Batch /\ session[r] \in {"running", "executed", "failed"}
              /\ pc[r] = "commit" => session[r] \in {"committing", "committed", "failed"}

Coupling == \A r \in Request : Coupled(r)

LEMMA CouplingStep == Typed /\ Slots /\ Coupling /\ [Next]_vars => Coupling'
<1> SUFFICES ASSUME TypeOK, SlotsAccounted, Coupling, [Next]_vars, NEW q \in Request PROVE Coupled(q)'
  BY DEF Typed, Slots, Coupling
<1>q. Coupled(q) /\ (pc[q] \in Waiting => q \in slots)
  BY DEF Coupling, SlotsAccounted
<1>b. ASSUME pc'[q] = pc[q], session'[q] = session[q] PROVE Coupled(q)'
  BY <1>q, <1>b DEF Coupled
<1>e. ASSUME pc'[q] \notin Waiting PROVE Coupled(q)'
  BY <1>e DEF Coupled
<1>1. ASSUME NEW r \in Request, NEW at, NEW found, NEW next \in {"country", "inCountry", "valid"},
             Validate(r, at, found, next)
      PROVE  Coupled(q)'
  <2>1. session' = session /\ \E w \in {"country", "inCountry", "exists", "fx", "done"} : Goto(r, w)
    <3>1. CASE found /\ next # "valid"
      BY <1>1, <3>1 DEF Validate, database
    <3>2. CASE ~(found /\ next # "valid")
      BY <1>1, <3>2 DEF Validate, AfterValidation, Reply, database
    <3> QED
      BY <3>1, <3>2
  <2> QED
    BY <1>b, <1>e, <2>1 DEF Goto, TypeOK
<1>2. ASSUME NEW r \in Request, Exists(r) \/ CountryExists(r) \/ ExistsInCountry(r) PROVE Coupled(q)'
  <2>1. \E at, found, next : next \in {"country", "inCountry", "valid"} /\ Validate(r, at, found, next)
    BY <1>2 DEF Exists, CountryExists, ExistsInCountry
  <2> QED
    BY <1>1, <2>1
<1>3. ASSUME NEW r \in Request, Bind(r) \/ GetFxRate(r) \/ QueryFails(r) PROVE Coupled(q)'
  <2>1. session' = session /\ (pc' = pc \/ \E w \in {"exists", "begin", "done"} : Goto(r, w))
    BY <1>3 DEF Bind, GetFxRate, QueryFails, Reply, database
  <2> QED
    BY <1>b, <1>e, <2>1 DEF Goto, TypeOK
<1>4. ASSUME NEW r \in Request, Insert(r) \/ Begin(r) \/ SendBatch(r) \/ SendCommit(r) PROVE Coupled(q)'
  <2>1. CASE q = r
    BY <1>4, <1>q, <2>1 DEF Insert, Begin, SendBatch, SendCommit, Goto, Coupled, TypeOK
  <2>2. CASE q # r
    BY <1>4, <1>b, <2>2 DEF Insert, Begin, SendBatch, SendCommit, Goto, TypeOK
  <2> QED
    BY <2>1, <2>2
<1>5. ASSUME NEW r \in Request, ReadAck(r) \/ ReadError(r) \/ ConnectionLost(r) PROVE Coupled(q)'
  <2>1. CASE q = r
    BY <1>5, <1>e, <2>1 DEF ReadAck, ReadError, ConnectionLost, Reply, Goto, TypeOK
  <2>2. CASE q # r
    BY <1>5, <1>b, <2>2 DEF ReadAck, ReadError, ConnectionLost, Reply, Goto, database, TypeOK
  <2> QED
    BY <2>1, <2>2
<1>6. ASSUME NEW r \in Request, Execute(r) \/ Commit(r) \/ Orphaned(r) \/ Abort(r) PROVE Coupled(q)'
  <2>0. pc' = pc
    BY <1>6 DEF Execute, Commit, Orphaned, Abort, server
  <2>1. CASE q = r
    <3>1. CASE Execute(r)
      BY <1>q, <2>0, <2>1, <3>1 DEF Execute, Coupled, TypeOK
    <3>2. CASE Commit(r) \/ Abort(r)
      BY <1>q, <2>0, <2>1, <3>2 DEF Commit, Abort, Coupled, TypeOK
    <3>3. CASE Orphaned(r)
      BY <1>q, <1>e, <2>0, <2>1, <3>3 DEF Orphaned
    <3> QED
      BY <1>6, <3>1, <3>2, <3>3
  <2>2. CASE q # r
    <3>1. session'[q] = session[q]
      BY <1>6, <2>2 DEF Execute, Commit, Orphaned, Abort, TypeOK
    <3> QED
      BY <1>b, <2>0, <3>1
  <2> QED
    BY <2>1, <2>2
<1>7. ASSUME Crash PROVE Coupled(q)'
  BY <1>7, <1>e DEF Crash, TypeOK
<1>8. ASSUME Restart \/ UNCHANGED vars PROVE Coupled(q)'
  BY <1>8, <1>b DEF Restart, server, database, vars
<1> QED
  BY <1>2, <1>3, <1>4, <1>5, <1>6, <1>7, <1>8 DEF Next, Handle, Work, Fail, Quiescent

LEMMA PoolInvariant == Spec => [](IInv /\ Slots /\ Coupling)
<1>1. Init => Slots /\ Coupling
  BY FS_EmptySet, IngestAssumption DEF IngestAssumption, Init, Slots, SlotsAccounted, Coupling, Coupled
<1>2. IInv => Typed
  BY DEF IInv
<1> QED
  BY <1>1, <1>2, SlotsStep, CouplingStep, Invariant, PTL DEF Spec

(***************************************************************************)
(* A handler that holds a connection needs no other to give it back.       *)
(***************************************************************************)
THEOREM ConnectionsComeBack == Spec => []HoldersFinish
<1>1. IInv /\ Slots /\ Coupling => HoldersFinish
  BY DEF IInv, Sound, Admitted, Slots, SlotsAccounted, Coupling, Coupled, HoldersFinish, Finishes
<1> QED
  BY <1>1, PoolInvariant, PTL

(***************************************************************************)
(* As long as a request is unanswered or a session is open there is a      *)
(* handler, or a session, that can take its next step, though the pool is  *)
(* exhausted and handlers wait for each other's connections.               *)
(***************************************************************************)
THEOREM NoDeadlock == Spec => []NeverStuck
<1>1. ASSUME IInv, Slots, HoldersFinish, NEW r \in Request,
             pc[r] \notin {"idle", "done"} \/ session[r] # "closed"
      PROVE  \E q \in Request : Ready(q)
  <2>0. /\ TypeOK /\ Bound /\ Checked(r)
        /\ slots = {q \in Request : pc[q] \in Waiting} /\ Cardinality(slots) <= PoolSize
    BY <1>1 DEF IInv, Typed, Sound, Slots, SlotsAccounted
  <2>1. CASE slots # {}
    BY <1>1, <2>0, <2>1 DEF HoldersFinish, Ready
  <2>2. CASE slots = {} /\ session[r] # "closed"
    BY <2>2 DEF Ready
  <2>3. CASE slots = {} /\ session[r] = "closed"
    <3>1. pc[r] \in Querying
      BY <1>1, <2>0, <2>3 DEF TypeOK
    <3>2. FreeConn
      BY <2>3, FS_EmptySet, IngestAssumption DEF FreeConn, IngestAssumption
    <3>3. ASSUME pc[r] = "fx" PROVE Current(r).country \in Countries
      <4>1. item[r] \in 1..N(r)
        BY <2>0, <3>3, ItemInRange
      <4>2. Validated(r, item[r])
        BY <2>0, <3>3, <4>1 DEF Checked
      <4> QED
        BY <4>2, IngestAssumption DEF Validated, Current, IngestAssumption
    <3> QED
      BY <3>1, <3>2, <3>3 DEF Ready
  <2> QED
    BY <2>1, <2>2, <2>3
<1>2. IInv /\ Slots /\ HoldersFinish => NeverStuck
  BY <1>1 DEF NeverStuck
<1> QED
  BY <1>2, ConnectionsComeBack, PoolInvariant, PTL

-----------------------------------------------------------------------------
(***************************************************************************)
(* No endless work.  How many steps a handler has left at most, at its     *)
(* i-th item of n, and a session that has executed k INSERTs of n.         *)
(***************************************************************************)
HandlerLeft(at, n, i) == CASE at = "idle" -> 5 * n + 11
                           [] at = "exists" -> 2 * n + 3 * (n - i) + 13
                           [] at = "country" -> 2 * n + 3 * (n - i) + 12
                           [] at = "inCountry" -> 2 * n + 3 * (n - i) + 11
                           [] at = "fx" -> n + (n - i) + 10
                           [] at = "begin" -> n + 9
                           [] at = "send" -> 3
                           [] at = "scan" -> 2
                           [] at \in {"insert", "commit"} -> 1
                           [] at = "done" -> 0

SessionLeft(at, n, k) == CASE at = "open" -> n + 5
                           [] at = "running" -> (n - k) + 4
                           [] at = "executed" -> 3
                           [] at = "committing" -> 2
                           [] at \in {"committed", "failed"} -> 1
                           [] at = "closed" -> 0

Left(r) == HandlerLeft(pc[r], N(r), item[r]) + SessionLeft(session[r], N(r), executed[r])

(* The steps of a request: of its handler, its session, or a fault of its. *)
Acts(r) == Bind(r) \/ Handle(r) \/ Work(r) \/ Orphaned(r) \/ Fail(r)

LessLeft == \A r \in Request : Left(r)' \in 0..Left(r) /\ (Acts(r) => Left(r)' < Left(r))
WorkShrinks == [][LessLeft]_vars

(***************************************************************************)
(* The counts are natural numbers as long as no index is past the end, and *)
(* each move of a handler or of a session makes its count smaller.         *)
(***************************************************************************)
LEMMA HandlerLeftNat ==
    ASSUME NEW at \in PC, NEW n \in Nat, NEW i \in Nat, at \notin {"idle", "done"} => i <= n
    PROVE  HandlerLeft(at, n, i) \in Nat /\ (at # "done" => HandlerLeft(at, n, i) > 0)
  BY DEF HandlerLeft, PC, Querying, Waiting

LEMMA SessionLeftNat ==
    ASSUME NEW at \in SessionState, NEW n \in Nat, NEW k \in Nat, at = "running" => k <= n
    PROVE  SessionLeft(at, n, k) \in Nat /\ (at # "closed" => SessionLeft(at, n, k) > 0)
  BY DEF SessionLeft, SessionState, InFlight

HandlerMoves(at, to, n, i, j) ==
    \/ at = "idle" /\ to = "exists" /\ i = 1 /\ j = 1
    \/ at = "exists" /\ to = "country" /\ j = i
    \/ at = "country" /\ to = "inCountry" /\ j = i
    \/ at \in {"exists", "country", "inCountry"} /\ to = "exists" /\ i < n /\ j = i + 1
    \/ at \in {"exists", "country", "inCountry"} /\ to = "fx" /\ j = 1
    \/ at = "fx" /\ to = "fx" /\ i < n /\ j = i + 1
    \/ at = "fx" /\ to = "begin" /\ j = i

LEMMA HandlerForward ==
    ASSUME NEW at, NEW to, NEW n \in Nat, NEW i \in 1..n, NEW j, HandlerMoves(at, to, n, i, j)
    PROVE  HandlerLeft(to, n, j) \in Nat /\ HandlerLeft(to, n, j) < HandlerLeft(at, n, i)
<1>1. CASE at = "idle" /\ to = "exists" /\ i = 1 /\ j = 1
  BY <1>1 DEF HandlerLeft
<1>2. CASE at \in {"exists", "country"} /\ j = i /\ to = IF at = "exists" THEN "country" ELSE "inCountry"
  BY <1>2 DEF HandlerLeft
<1>3. CASE at \in {"exists", "country", "inCountry"} /\ to = "exists" /\ i < n /\ j = i + 1
  BY <1>3 DEF HandlerLeft
<1>4. CASE at \in {"exists", "country", "inCountry"} /\ to = "fx" /\ j = 1
  BY <1>4 DEF HandlerLeft
<1>5. CASE at = "fx" /\ to = "fx" /\ i < n /\ j = i + 1
  BY <1>5 DEF HandlerLeft
<1>6. CASE at = "fx" /\ to = "begin" /\ j = i
  BY <1>6 DEF HandlerLeft
<1> QED
  BY <1>1, <1>2, <1>3, <1>4, <1>5, <1>6 DEF HandlerMoves

SessionMoves(at, to, n, k, l) ==
    \/ at = "running" /\ k < n /\ l = k + 1 /\ to \in {"running", "executed", "committed"}
    \/ at = "committing" /\ to = "committed" /\ l = k
    \/ at \in InFlight /\ to = "failed" /\ l = k
    \/ at # "closed" /\ to = "closed" /\ l = k

LEMMA SessionForward ==
    ASSUME NEW at \in SessionState, NEW to, NEW n \in Nat, NEW k \in Nat, NEW l, at = "running" => k < n,
           SessionMoves(at, to, n, k, l)
    PROVE  SessionLeft(to, n, l) \in Nat /\ SessionLeft(to, n, l) < SessionLeft(at, n, k)
<1>1. CASE at = "running" /\ k < n /\ l = k + 1 /\ to \in {"running", "executed", "committed"}
  BY <1>1 DEF SessionLeft
<1>2. CASE at = "committing" /\ to = "committed" /\ l = k
  BY <1>2 DEF SessionLeft
<1>3. CASE at \in InFlight /\ to = "failed" /\ l = k
  BY <1>3 DEF SessionLeft, InFlight
<1>4. CASE at # "closed" /\ to = "closed" /\ l = k
  BY <1>4 DEF SessionLeft, SessionState, InFlight
<1> QED
  BY <1>1, <1>2, <1>3, <1>4 DEF SessionMoves

(***************************************************************************)
(* The index and the count of every request stay within its items.         *)
(***************************************************************************)
LEMMA LeftTyped ==
    ASSUME IInv, NEW r \in Request
    PROVE  /\ HandlerLeft(pc[r], N(r), item[r]) \in Nat
           /\ pc[r] # "done" => HandlerLeft(pc[r], N(r), item[r]) > 0
           /\ SessionLeft(session[r], N(r), executed[r]) \in Nat
           /\ session[r] # "closed" => SessionLeft(session[r], N(r), executed[r]) > 0
           /\ N(r) \in Nat /\ item[r] \in Nat /\ executed[r] \in Nat
           /\ pc[r] \notin {"idle", "done"} => item[r] \in 1..N(r)
           /\ session[r] = "running" => executed[r] < N(r)
           /\ pc[r] \in {"idle"} \cup Querying \/ session[r] = "open" => executed[r] = 0
           /\ pc[r] \in {"idle"} \cup Querying => session[r] = "closed"
<1>1. /\ TypeOK /\ Bound /\ Admitted(r) /\ Whole(r)
  BY DEF IInv, Typed, Sound, AllWhole
<1>2. N(r) \in Nat /\ item[r] \in Nat /\ executed[r] \in Nat /\ pc[r] \in PC /\ session[r] \in SessionState
  BY <1>1, BodyFacts DEF TypeOK
<1>3. pc[r] \notin {"idle", "done"} => item[r] \in 1..N(r)
  BY <1>1, ItemInRange
<1>4. /\ session[r] = "running" => executed[r] < N(r)
      /\ pc[r] \in {"idle"} \cup Querying \/ session[r] = "open" => executed[r] = 0
      /\ pc[r] \in {"idle"} \cup Querying => session[r] = "closed"
  BY <1>1, <1>2 DEF Admitted, Whole, Quiet
<1>5. /\ HandlerLeft(pc[r], N(r), item[r]) \in Nat
      /\ pc[r] # "done" => HandlerLeft(pc[r], N(r), item[r]) > 0
  <2>1. pc[r] \notin {"idle", "done"} => item[r] <= N(r)
    BY <1>2, <1>3
  <2> QED
    BY ONLY <1>2, <2>1, HandlerLeftNat
<1>6. /\ SessionLeft(session[r], N(r), executed[r]) \in Nat
      /\ session[r] # "closed" => SessionLeft(session[r], N(r), executed[r]) > 0
  <2>1. session[r] = "running" => executed[r] <= N(r)
    BY <1>2, <1>4
  <2> QED
    BY ONLY <1>2, <2>1, SessionLeftNat
<1> QED
  BY <1>2, <1>3, <1>4, <1>5, <1>6

(***************************************************************************)
(* What a step does to a request is told by where it leaves the handler,   *)
(* its index, the session and its count.                                   *)
(***************************************************************************)
LeftAfter(r) == HandlerLeft(pc'[r], N(r), item'[r]) + SessionLeft(session'[r], N(r), executed'[r])

Shrinks(r) == LeftAfter(r) \in Nat /\ LeftAfter(r) < Left(r)

SameHandler(r) == pc'[r] = pc[r] /\ item'[r] = item[r]
SameSession(r) == session'[r] = session[r] /\ executed'[r] = executed[r]

LEMMA LeftPrimed == ASSUME NEW r PROVE Left(r)' = LeftAfter(r)
  BY DEF Left, LeftAfter, N

LEMMA LeftSame ==
    ASSUME NEW r, SameHandler(r), SameSession(r)
    PROVE  LeftAfter(r) = Left(r)
  BY DEF Left, LeftAfter, SameHandler, SameSession

LEMMA HandlerShrinks ==
    ASSUME IInv, NEW r \in Request, SameSession(r), item[r] \in 1..N(r),
           HandlerMoves(pc[r], pc'[r], N(r), item[r], item'[r])
    PROVE  Shrinks(r)
<1>1. /\ HandlerLeft(pc[r], N(r), item[r]) \in Nat /\ N(r) \in Nat
      /\ SessionLeft(session[r], N(r), executed[r]) \in Nat
  BY LeftTyped
<1>2. /\ HandlerLeft(pc'[r], N(r), item'[r]) \in Nat
      /\ HandlerLeft(pc'[r], N(r), item'[r]) < HandlerLeft(pc[r], N(r), item[r])
  BY <1>1, HandlerForward
<1> QED
  BY <1>1, <1>2 DEF Shrinks, Left, LeftAfter, SameSession

LEMMA SessionShrinks ==
    ASSUME IInv, NEW r \in Request, SameHandler(r),
           SessionMoves(session[r], session'[r], N(r), executed[r], executed'[r])
    PROVE  Shrinks(r)
<1>1. /\ HandlerLeft(pc[r], N(r), item[r]) \in Nat
      /\ SessionLeft(session[r], N(r), executed[r]) \in Nat
      /\ N(r) \in Nat /\ executed[r] \in Nat /\ (session[r] = "running" => executed[r] < N(r))
  BY LeftTyped
<1>2. session[r] \in SessionState
  BY DEF IInv, Typed, TypeOK
<1>3. /\ SessionLeft(session'[r], N(r), executed'[r]) \in Nat
      /\ SessionLeft(session'[r], N(r), executed'[r]) < SessionLeft(session[r], N(r), executed[r])
  BY <1>1, <1>2, SessionForward
<1> QED
  BY <1>1, <1>3 DEF Shrinks, Left, LeftAfter, SameHandler

(***************************************************************************)
(* The steps that hand over between a handler and its session.             *)
(***************************************************************************)
LEMMA HandOver ==
    ASSUME NEW n \in Nat, NEW i \in 1..n, NEW k \in Nat
    PROVE  /\ HandlerLeft("insert", n, i) + SessionLeft("running", n, 0) = n + 5
           /\ HandlerLeft("send", n, i) + SessionLeft("open", n, 0) = n + 8
           /\ HandlerLeft("begin", n, i) + SessionLeft("closed", n, 0) = n + 9
           /\ HandlerLeft("scan", n, i) + SessionLeft("running", n, 0) = n + 6
           /\ HandlerLeft("scan", n, i) + SessionLeft("executed", n, k) = 5
           /\ HandlerLeft("commit", n, i) + SessionLeft("committing", n, k) = 3
  BY DEF HandlerLeft, SessionLeft

LEMMA DoneLeft ==
    ASSUME NEW n, NEW i PROVE HandlerLeft("done", n, i) = 0
  BY DEF HandlerLeft

LEMMA ClosedLeft ==
    ASSUME NEW n, NEW k PROVE SessionLeft("closed", n, k) = 0
  BY DEF SessionLeft

LEMMA EndShrinks ==
    ASSUME IInv, NEW r \in Request, pc[r] # "done", pc'[r] = "done", executed'[r] = executed[r],
           session'[r] \in {session[r], "closed"}
    PROVE  Shrinks(r)
<1>1. /\ HandlerLeft(pc[r], N(r), item[r]) \in Nat
      /\ HandlerLeft(pc[r], N(r), item[r]) > 0
      /\ SessionLeft(session[r], N(r), executed[r]) \in Nat
  BY LeftTyped
<1>2. /\ HandlerLeft(pc'[r], N(r), item'[r]) = 0
      /\ \/ SessionLeft(session'[r], N(r), executed'[r]) = 0
         \/ SessionLeft(session'[r], N(r), executed'[r]) = SessionLeft(session[r], N(r), executed[r])
  BY DoneLeft, ClosedLeft
<1> QED
  BY <1>1, <1>2 DEF Shrinks, Left, LeftAfter

LEMMA ValidateShrinks ==
    ASSUME IInv, NEW r \in Request, NEW at, NEW found, NEW next, Validate(r, at, found, next),
           <<at, next>> \in {<<"exists", "country">>, <<"country", "inCountry">>, <<"inCountry", "valid">>}
    PROVE  Shrinks(r)
<1>1. pc[r] = at /\ session' = session /\ executed' = executed
  BY DEF Validate, database
<1>2. TypeOK /\ item[r] \in 1..N(r)
  BY <1>1, LeftTyped DEF IInv, Typed
<1>3. SameSession(r)
  BY <1>1 DEF SameSession
<1>4. CASE found /\ next # "valid"
  <2>1. pc'[r] = next /\ item'[r] = item[r]
    BY <1>2, <1>4 DEF Validate, Goto, TypeOK
  <2>2. HandlerMoves(pc[r], pc'[r], N(r), item[r], item'[r])
    BY <1>1, <1>4, <2>1 DEF HandlerMoves
  <2> QED
    BY <1>2, <1>3, <2>2, HandlerShrinks
<1>5. CASE ~(found /\ next # "valid")
  <2>1. \/ pc'[r] = "exists" /\ item[r] < N(r) /\ item'[r] = item[r] + 1
        \/ pc'[r] \in {"fx", "done"} /\ item'[r] = 1
    BY <1>2, <1>5 DEF Validate, AfterValidation, Reply, Goto, TypeOK
  <2>2. CASE pc'[r] = "done"
    BY <1>1, <2>2, EndShrinks
  <2>3. CASE pc'[r] # "done"
    <3>1. HandlerMoves(pc[r], pc'[r], N(r), item[r], item'[r])
      BY <1>1, <2>1, <2>3 DEF HandlerMoves
    <3> QED
      BY <1>2, <1>3, <3>1, HandlerShrinks
  <2> QED
    BY <2>2, <2>3
<1> QED
  BY <1>4, <1>5

LEMMA ActsShrink ==
    ASSUME IInv, NEW r \in Request, Acts(r)
    PROVE  Shrinks(r)
<1>t. /\ TypeOK /\ N(r) \in Nat /\ item[r] \in Nat /\ executed[r] \in Nat
  BY LeftTyped DEF IInv, Typed
<1>1. CASE Bind(r)
  <2>1. pc[r] = "idle" /\ session' = session /\ executed' = executed /\ item' = item /\ item[r] = 1
    BY <1>1 DEF IInv, Sound, Checked, Bind, MaySend, database
  <2>2. CASE Bindable(r)
    <3>1. 1 \in 1..N(r)
      BY <1>t, <2>2, IngestAssumption DEF Bindable, IngestAssumption
    <3>2. pc'[r] = "exists"
      BY <1>1, <1>t, <2>2 DEF Bind, Goto, TypeOK
    <3>3. HandlerMoves(pc[r], pc'[r], N(r), item[r], item'[r])
      BY <2>1, <3>2 DEF HandlerMoves
    <3> QED
      BY <2>1, <3>1, <3>3, HandlerShrinks DEF SameSession
  <2>3. CASE ~Bindable(r)
    BY <1>1, <1>t, <2>1, <2>3, EndShrinks DEF Bind, Reply, Goto, TypeOK
  <2> QED
    BY <2>2, <2>3
<1>2. CASE Exists(r)
  BY <1>2, ValidateShrinks DEF Exists
<1>3. CASE CountryExists(r)
  BY <1>3, ValidateShrinks DEF CountryExists
<1>4. CASE ExistsInCountry(r)
  BY <1>4, ValidateShrinks DEF ExistsInCountry
<1>5. CASE GetFxRate(r)
  <2>1. pc[r] = "fx" /\ session' = session /\ executed' = executed
    BY <1>5 DEF GetFxRate, database
  <2>2. item[r] \in 1..N(r)
    BY <2>1, LeftTyped
  <2>3. \/ pc'[r] = "fx" /\ item[r] < N(r) /\ item'[r] = item[r] + 1
        \/ pc'[r] = "begin" /\ item'[r] = item[r]
    BY <1>5, <1>t, <2>1 DEF GetFxRate, Goto, TypeOK
  <2>4. HandlerMoves(pc[r], pc'[r], N(r), item[r], item'[r])
    BY <2>1, <2>3 DEF HandlerMoves
  <2> QED
    BY <2>1, <2>2, <2>4, HandlerShrinks DEF SameSession
<1>6. CASE Insert(r) \/ Begin(r)
  <2>1. pc[r] = "begin" /\ item' = item /\ executed' = executed
    BY <1>6 DEF Insert, Begin
  <2>2. executed[r] = 0 /\ session[r] = "closed" /\ item[r] \in 1..N(r)
    BY <2>1, LeftTyped DEF Querying
  <2>3. \/ pc'[r] = "insert" /\ session'[r] = "running"
        \/ pc'[r] = "send" /\ session'[r] = "open"
    BY <1>6, <1>t DEF Insert, Begin, Goto, TypeOK
  <2>4. Left(r) = N(r) + 9
    BY <1>t, <2>1, <2>2, HandOver DEF Left
  <2>5. CASE pc'[r] = "insert" /\ session'[r] = "running"
    <3>1. LeftAfter(r) = N(r) + 5
      BY <1>t, <2>1, <2>2, <2>5, HandOver DEF LeftAfter
    <3> QED
      BY <1>t, <2>4, <3>1 DEF Shrinks
  <2>6. CASE pc'[r] = "send" /\ session'[r] = "open"
    <3>1. LeftAfter(r) = N(r) + 8
      BY <1>t, <2>1, <2>2, <2>6, HandOver DEF LeftAfter
    <3> QED
      BY <1>t, <2>4, <3>1 DEF Shrinks
  <2> QED
    BY <2>3, <2>5, <2>6
<1>7. CASE SendBatch(r)
  <2>1. pc[r] = "send" /\ session[r] = "open" /\ item' = item /\ executed' = executed
    BY <1>7 DEF SendBatch
  <2>2. executed[r] = 0 /\ item[r] \in 1..N(r)
    BY <2>1, LeftTyped
  <2>3. pc'[r] = "scan" /\ session'[r] = "running"
    BY <1>7, <1>t DEF SendBatch, Goto, TypeOK
  <2>4. Left(r) = N(r) + 8 /\ LeftAfter(r) = N(r) + 6
    BY <1>t, <2>1, <2>2, <2>3, HandOver DEF Left, LeftAfter
  <2> QED
    BY <1>t, <2>4 DEF Shrinks
<1>8. CASE SendCommit(r)
  <2>1. pc[r] = "scan" /\ session[r] = "executed" /\ item' = item /\ executed' = executed
    BY <1>8 DEF SendCommit
  <2>2. item[r] \in 1..N(r)
    BY <2>1, LeftTyped
  <2>3. pc'[r] = "commit" /\ session'[r] = "committing"
    BY <1>8, <1>t DEF SendCommit, Goto, TypeOK
  <2>4. Left(r) = 5 /\ LeftAfter(r) = 3
    BY <1>t, <2>1, <2>2, <2>3, HandOver DEF Left, LeftAfter
  <2> QED
    BY <2>4 DEF Shrinks
<1>9. CASE ReadAck(r) \/ ReadError(r)
  <2>1. pc[r] # "done" /\ pc'[r] = "done" /\ executed' = executed /\ session'[r] = "closed"
    BY <1>9, <1>t DEF ReadAck, ReadError, Reply, Goto, Waiting, TypeOK
  <2> QED
    BY <2>1, EndShrinks
<1>10. CASE QueryFails(r) \/ ConnectionLost(r)
  <2>1. pc[r] # "done" /\ pc'[r] = "done" /\ executed' = executed /\ session' = session
    BY <1>10, <1>t DEF QueryFails, ConnectionLost, Reply, Goto, Querying, Waiting, database, TypeOK
  <2> QED
    BY <2>1, EndShrinks
<1>11. CASE Execute(r) \/ Commit(r) \/ Abort(r) \/ Orphaned(r)
  <2>1. SameHandler(r)
    BY <1>11 DEF Execute, Commit, Abort, Orphaned, server, SameHandler
  <2>2. session[r] = "running" => executed[r] < N(r)
    BY LeftTyped
  <2>3. SUFFICES SessionMoves(session[r], session'[r], N(r), executed[r], executed'[r])
    BY <2>1, SessionShrinks
  <2>4. CASE Execute(r)
    BY <1>t, <2>2, <2>4 DEF Execute, SessionMoves, InFlight, TypeOK
  <2>5. CASE Commit(r) \/ Abort(r) \/ Orphaned(r)
    BY <1>t, <2>5 DEF Commit, Abort, Orphaned, SessionMoves, TypeOK
  <2> QED
    BY <1>11, <2>4, <2>5
<1> QED
  BY <1>1, <1>2, <1>3, <1>4, <1>5, <1>6, <1>7, <1>8, <1>9, <1>10, <1>11 DEF Acts, Handle, Work, Fail

LEMMA OthersKept ==
    ASSUME TypeOK, NEW r \in Request, Acts(r), NEW q \in Request, q # r
    PROVE  SameHandler(q) /\ SameSession(q)
<1> DEFINE same == SameHandler(q) /\ SameSession(q)
<1> USE DEF SameHandler, SameSession
<1>1. CASE Bind(r) \/ QueryFails(r) \/ ConnectionLost(r)
  BY <1>1 DEF Bind, QueryFails, ConnectionLost, Reply, Goto, database, TypeOK
<1>2. CASE GetFxRate(r)
  BY <1>2 DEF GetFxRate, Goto, database, TypeOK
<1>3. ASSUME NEW at, NEW found, NEW next, Validate(r, at, found, next) PROVE same
  <2>1. session' = session /\ executed' = executed
    BY <1>3 DEF Validate, database
  <2>2. CASE found /\ next # "valid"
    BY <1>3, <2>1, <2>2 DEF Validate, Goto, TypeOK
  <2>3. CASE ~(found /\ next # "valid")
    BY <1>3, <2>1, <2>3 DEF Validate, AfterValidation, Reply, Goto, TypeOK
  <2> QED
    BY <2>2, <2>3
<1>4. CASE Exists(r)
  BY ONLY <1>3, <1>4 DEF Exists
<1>5. CASE CountryExists(r)
  BY ONLY <1>3, <1>5 DEF CountryExists
<1>6. CASE ExistsInCountry(r)
  BY ONLY <1>3, <1>6 DEF ExistsInCountry
<1>7. CASE Insert(r) \/ Begin(r) \/ SendBatch(r) \/ SendCommit(r)
  BY <1>7 DEF Insert, Begin, SendBatch, SendCommit, Goto, TypeOK
<1>8. CASE ReadAck(r) \/ ReadError(r)
  BY <1>8 DEF ReadAck, ReadError, Reply, Goto, TypeOK
<1>9. CASE Execute(r) \/ Commit(r) \/ Abort(r) \/ Orphaned(r)
  BY <1>9 DEF Execute, Commit, Abort, Orphaned, server, TypeOK
<1> QED
  BY <1>1, <1>2, <1>4, <1>5, <1>6, <1>7, <1>8, <1>9 DEF Acts, Handle, Work, Fail

(***************************************************************************)
(* Each step of a request, of its session or of a fault that strikes it    *)
(* leaves less to do for it and no more for the others; a crash leaves no  *)
(* more for anybody.  So a request of n items is done after 5 n + 11 steps *)
(* at the latest, and with NoDeadlock a fair scheduler brings all to their *)
(* end.                                                                    *)
(***************************************************************************)
THEOREM NoEndlessWork == Spec => WorkShrinks
<1>1. ASSUME IInv, [Next]_vars, NEW q \in Request
      PROVE  LeftAfter(q) \in 0..Left(q) /\ (Acts(q) => LeftAfter(q) < Left(q))
  <2>0. TypeOK /\ Left(q) \in Nat
    BY <1>1, LeftTyped DEF IInv, Typed, Left
  <2>1. CASE Acts(q)
    BY <1>1, <2>0, <2>1, ActsShrink DEF Shrinks
  <2>2. CASE SameHandler(q) /\ SameSession(q) /\ ~Acts(q)
    BY <2>0, <2>2, LeftSame
  <2>3. CASE Crash /\ ~Acts(q)
    <3>1. item' = item /\ session' = session /\ executed' = executed /\ pc'[q] \in {pc[q], "done"}
      BY <2>0, <2>3 DEF Crash, database, TypeOK
    <3>2. CASE pc'[q] = pc[q]
      BY <2>2, <2>3, <3>1, <3>2 DEF SameHandler, SameSession
    <3>3. CASE pc'[q] # pc[q]
      <4>1. Shrinks(q)
        BY <1>1, <3>1, <3>3, EndShrinks
      <4> QED
        BY <2>0, <2>3, <4>1 DEF Shrinks
    <3> QED
      BY <3>2, <3>3
  <2>4. ASSUME NEW r \in Request, Acts(r), r # q PROVE SameHandler(q) /\ SameSession(q)
    BY <2>0, <2>4, OthersKept
  <2>5. ASSUME Restart \/ UNCHANGED vars PROVE SameHandler(q) /\ SameSession(q)
    BY <2>5 DEF Restart, server, database, vars, SameHandler, SameSession
  <2>6. Acts(q) \/ Crash \/ (Restart \/ UNCHANGED vars) \/ \E r \in Request : Acts(r) /\ r # q
    BY <1>1 DEF Next, Acts, Quiescent
  <2> QED
    BY <2>1, <2>2, <2>3, <2>4, <2>5, <2>6
<1>2. IInv /\ [Next]_vars => LessLeft
  BY <1>1, LeftPrimed DEF LessLeft
<1> QED
  BY <1>2, Invariant, PTL DEF Spec, WorkShrinks

-----------------------------------------------------------------------------
(***************************************************************************)
(* The refinement: each step of a handler or of a session is a step of     *)
(* AtomicIngest or none of its business.                                   *)
(***************************************************************************)
received == {r \in Request : pc[r] # "idle"}

LEMMA SilentStep ==
    ASSUME UNCHANGED <<answer, table>>,
           \A q \in Request : pc[q] = "idle" <=> pc'[q] = "idle"
    PROVE  UNCHANGED Abstract!vars
  BY DEF Abstract!vars

LEMMA ReplyStep ==
    ASSUME IInv, NEW r \in Request, pc[r] \notin {"idle", "done"},
           NEW how \in Outcome \ {"none"}, Reply(r, how), UNCHANGED table,
           how = "created" => StoredOf(r) = DOMAIN Items[r],
           how = "invalid" => StoredOf(r) = {}
    PROVE  Abstract!Next
<1>1. pc \in [Request -> PC] /\ answer \in [Request -> Outcome] /\ answer[r] = "none"
  BY DEF IInv, Typed, TypeOK, AllWhole, Whole
<1>2. answer' = [q \in Request |-> IF q \in {r} THEN how ELSE answer[q]]
  BY <1>1 DEF Reply
<1>3. received' = received
  BY <1>1 DEF Reply, Goto, received
<1>4. {r} \subseteq {q \in received : answer[q] = "none"}
  BY <1>1 DEF received
<1>5. /\ how = "created" => RowsOf[r] \subseteq table
      /\ how = "invalid" => RowsOf[r] \cap table = {}
  BY StoredIsRows
<1>6. Abstract!Reply({r}, how)
  BY <1>2, <1>3, <1>4, <1>5 DEF Abstract!Reply, received
<1> QED
  BY <1>6 DEF Abstract!Next, Abstract!Outcome

LEMMA StoreStep ==
    ASSUME IInv, NEW r \in Request, Published(r)
    PROVE  Abstract!Next \/ UNCHANGED Abstract!vars
<1>1. CASE RowsOf[r] = {}
  BY <1>1, SilentStep DEF Published
<1>2. CASE RowsOf[r] # {}
  <2>1. DOMAIN Items[r] # {}
    BY <1>2 DEF RowsOf
  <2>2. pc[r] # "idle" /\ answer[r] \in {"none", "error", "lost"}
    BY <2>1 DEF Published, IInv, Typed, TypeOK, AllWhole, Whole, Quiet
  <2>3. RowsOf[r] \cap table = {}
    BY StoredIsRows DEF Published
  <2>4. Abstract!Store(r)
    BY <2>2, <2>3 DEF Published, Abstract!Store
  <2> QED
    BY <2>4 DEF Abstract!Next
<1> QED
  BY <1>1, <1>2

LEMMA ValidateStep ==
    ASSUME IInv, NEW r \in Request, NEW at \in {"exists", "country", "inCountry"},
           NEW found, NEW next \in {"country", "inCountry", "valid"},
           Validate(r, at, found, next)
    PROVE  Abstract!Next \/ UNCHANGED Abstract!vars
<1>1. pc[r] \notin {"idle", "done"} /\ pc \in [Request -> PC] /\ UNCHANGED table
  BY DEF Validate, IInv, Typed, TypeOK, database
<1>2. StoredOf(r) = {}
  BY DEF Validate, IInv, AllWhole, Whole, Quiet
<1>3. \/ Reply(r, "invalid")
      \/ \E w \in PC \ {"idle"} : Goto(r, w) /\ UNCHANGED answer
  BY DEF Validate, AfterValidation
<1>4. CASE Reply(r, "invalid")
  BY <1>1, <1>2, <1>4, ReplyStep
<1>5. ASSUME NEW w \in PC \ {"idle"}, Goto(r, w), UNCHANGED answer
      PROVE  UNCHANGED Abstract!vars
  BY <1>1, <1>5, SilentStep DEF Goto
<1> QED
  BY <1>3, <1>4, <1>5

LEMMA CrashStep == ASSUME IInv, Crash PROVE Abstract!Next
<1> DEFINE cut == {r \in Request : pc[r] \in Querying \cup Waiting}
<1>1. /\ answer' = [r \in Request |-> IF r \in cut THEN "lost" ELSE answer[r]]
      /\ pc' = [r \in Request |-> IF r \in cut THEN "done" ELSE pc[r]]
      /\ UNCHANGED table
  BY DEF Crash, database
<1>2. cut \subseteq {r \in received : answer[r] = "none"}
  BY DEF IInv, AllWhole, Whole, received
<1>3. received' = received
  BY <1>1 DEF received
<1>4. Abstract!Reply(cut, "lost")
  BY <1>1, <1>2, <1>3 DEF Abstract!Reply, received
<1>5. cut \in SUBSET Request /\ "lost" \in Abstract!Outcome \ {"none"}
  BY DEF Abstract!Outcome
<1> QED
  BY <1>4, <1>5 DEF Abstract!Next

LEMMA RefinementStep == IInv /\ [Next]_vars => [Abstract!Next]_(Abstract!vars)
<1> SUFFICES ASSUME IInv, [Next]_vars PROVE Abstract!Next \/ UNCHANGED Abstract!vars
  OBVIOUS
<1>t. pc \in [Request -> PC] /\ answer \in [Request -> Outcome]
  BY DEF IInv, Typed, TypeOK
<1>w. \A r \in Request : Whole(r)
  BY DEF IInv, AllWhole
<1>1. ASSUME NEW r \in Request, Bind(r) PROVE Abstract!Next
  <2>1. r \notin received /\ received' = received \cup {r}
    BY <1>1, <1>t DEF Bind, MaySend, Goto, Reply, received
  <2>2. /\ answer' = answer \/ answer' = [answer EXCEPT ![r] = "invalid"]
        /\ UNCHANGED table
    BY <1>1 DEF Bind, Reply, database
  <2>3. Abstract!Receive(r)
    BY <2>1, <2>2 DEF Abstract!Receive, received
  <2> QED
    BY <2>3 DEF Abstract!Next
<1>2. ASSUME NEW r \in Request, Exists(r) \/ CountryExists(r) \/ ExistsInCountry(r)
      PROVE  Abstract!Next \/ UNCHANGED Abstract!vars
  BY <1>2, ValidateStep DEF Exists, CountryExists, ExistsInCountry
<1>3. ASSUME NEW r \in Request,
             GetFxRate(r) \/ Insert(r) \/ Begin(r) \/ SendBatch(r) \/ SendCommit(r)
      PROVE  UNCHANGED Abstract!vars
  BY <1>3, <1>t, SilentStep DEF GetFxRate, Insert, Begin, SendBatch, SendCommit, Goto, database
<1>4. ASSUME NEW r \in Request, ReadAck(r) PROVE Abstract!Next
  <2>1. /\ pc[r] \notin {"idle", "done"} /\ session[r] = "committed"
        /\ Reply(r, "created") /\ UNCHANGED table
    BY <1>4 DEF ReadAck
  <2>2. StoredOf(r) = DOMAIN Items[r]
    BY <1>w, <2>1 DEF Whole
  <2> QED
    BY <2>1, <2>2, ReplyStep
<1>5. ASSUME NEW r \in Request, ReadError(r) \/ QueryFails(r) \/ ConnectionLost(r)
      PROVE  Abstract!Next
  <2>1. pc[r] \notin {"idle", "done"} /\ Reply(r, "error") /\ UNCHANGED table
    BY <1>5 DEF ReadError, QueryFails, ConnectionLost, database
  <2> QED
    BY <2>1, ReplyStep
<1>6. ASSUME NEW r \in Request, Execute(r) \/ Commit(r)
      PROVE  Abstract!Next \/ UNCHANGED Abstract!vars
  <2>1. UNCHANGED <<pc, answer>>
    BY <1>6 DEF Execute, Commit, server
  <2>2. UNCHANGED table \/ Published(r)
    BY <1>6, ExecutePublishes, CommitPublishes
  <2> QED
    BY <2>1, <2>2, SilentStep, StoreStep
<1>7. ASSUME NEW r \in Request, Orphaned(r) \/ Abort(r) PROVE UNCHANGED Abstract!vars
  BY <1>7, SilentStep DEF Orphaned, Abort, server
<1>8. ASSUME Restart \/ UNCHANGED vars PROVE UNCHANGED Abstract!vars
  BY <1>8, SilentStep DEF Restart, vars, server, database
<1> QED
  BY <1>1, <1>2, <1>3, <1>4, <1>5, <1>6, <1>7, <1>8, CrashStep
     DEF Next, Handle, Work, Fail, Quiescent

(***************************************************************************)
(* The handlers, the pool and PostgreSQL's sessions, with their faults and *)
(* crashes, do nothing that AtomicIngest does not allow.                   *)
(***************************************************************************)
THEOREM Refinement == Spec => ImplementsAtomicIngest
<1>1. Init => Abstract!Init
  BY DEF Init, Abstract!Init
<1>2. IInv /\ [Next]_vars => [Abstract!Next]_(Abstract!vars)
  BY RefinementStep
<1> QED
  BY <1>1, <1>2, Invariant, PTL DEF Spec, ImplementsAtomicIngest, Abstract!Spec
=============================================================================
