---------------------------- MODULE InsightProofs ----------------------------
(***************************************************************************)
(* Theorems about InsightDetection, for any requests, detectors, numbers   *)
(* of candidates, pool size and number of failures.                        *)
(***************************************************************************)
EXTENDS InsightDetection, FiniteSetTheorems, TLAPS

(***************************************************************************)
(* Types and the pool.  held is finite because it starts empty and grows   *)
(* by one.                                                                 *)
(***************************************************************************)
Typed == TypeOK /\ IsFiniteSet(held)

LEMMA InitTyped == Init => Typed
<1> SUFFICES ASSUME Init PROVE Typed
  OBVIOUS
<1>1. \A w \in Worker : w[2] \in Detector
  BY DEF Worker
<1>2. Cardinality(held) = 0 /\ IsFiniteSet(held)
  BY FS_EmptySet DEF Init
<1>3. 0 <= PoolSize /\ 0 \in 0..MaxFaults /\ \A d \in Detector : 0 <= Candidates[d]
  BY InsightAssumption DEF InsightAssumption
<1> QED
  BY <1>1, <1>2, <1>3 DEF Init, Typed, TypeOK

LEMMA HeldLess ==
    ASSUME Typed, NEW w, held' = held \ {w}
    PROVE  /\ held' \subseteq Worker /\ IsFiniteSet(held')
           /\ Cardinality(held') <= PoolSize
<1>1. IsFiniteSet(held \ {w}) /\ Cardinality(held \ {w}) <= Cardinality(held)
  <2>1. IsFiniteSet(held)
    BY DEF Typed
  <2> QED
    BY <2>1, FS_RemoveElement, FS_CardinalityType
<1> QED
  BY <1>1, FS_CardinalityType, InsightAssumption DEF Typed, TypeOK, InsightAssumption

LEMMA TypedStep == Typed /\ [Next]_vars => Typed'
<1> SUFFICES ASSUME Typed, [Next]_vars PROVE Typed'
  OBVIOUS
<1> USE InsightAssumption DEF InsightAssumption, Worker
<1>t. TypeOK /\ IsFiniteSet(held)
  BY DEF Typed
<1>1. ASSUME NEW q \in Request, Start(q) PROVE Typed'
  BY <1>1, <1>t DEF Start, Typed, TypeOK
<1>2. ASSUME NEW q \in Request, ClientGoes(q) PROVE Typed'
  BY <1>2, <1>t DEF ClientGoes, Typed, TypeOK
<1>3. ASSUME NEW q \in Request, Wait(q) \/ WaitEmpty(q) PROVE Typed'
  BY <1>3, <1>t DEF Wait, WaitEmpty, Typed, TypeOK
<1>4. ASSUME NEW w \in Worker, Acquire(w) PROVE Typed'
  <2>1. IsFiniteSet(held \cup {w}) /\ Cardinality(held \cup {w}) <= Cardinality(held) + 1
    <3>1. Cardinality(held) \in Nat
      BY <1>t, FS_CardinalityType
    <3>2. /\ IsFiniteSet(held \cup {w})
          /\ Cardinality(held \cup {w}) = IF w \in held THEN Cardinality(held)
                                                       ELSE Cardinality(held) + 1
      BY <1>t, FS_AddElement
    <3> QED
      BY <3>1, <3>2
  <2>2. Cardinality(held') <= PoolSize /\ IsFiniteSet(held')
    BY <1>4, <1>t, <2>1, FS_CardinalityType DEF Acquire
  <2> QED
    BY <1>4, <1>t, <2>2 DEF Acquire, Typed, TypeOK
<1>5. ASSUME NEW w \in Worker, ReadRow(w) PROVE Typed'
  BY <1>5, <1>t DEF ReadRow, Typed, TypeOK
<1>6. ASSUME NEW w \in Worker, LastRow(w) PROVE Typed'
  BY <1>6, <1>t, HeldLess DEF LastRow, Typed, TypeOK
<1>7. ASSUME NEW w \in Worker, RowsCut(w) PROVE Typed'
  <2>1. held' \subseteq Worker /\ IsFiniteSet(held') /\ Cardinality(held') <= PoolSize
    BY <1>7, HeldLess DEF RowsCut
  <2>2. faults' \in 0..MaxFaults
    BY <1>7, <1>t DEF RowsCut, TypeOK
  <2>3. phase' \in [Worker -> {"off", "acquire", "rows", "returned"}] /\ cut' \subseteq Worker
    BY <1>7, <1>t DEF RowsCut, TypeOK
  <2> QED
    BY <1>7, <1>t, <2>1, <2>2, <2>3 DEF RowsCut, Typed, TypeOK
<1>8. ASSUME NEW w \in Worker, QueryFails(w) PROVE Typed'
  <2>1. held' \subseteq Worker /\ IsFiniteSet(held') /\ Cardinality(held') <= PoolSize
    BY <1>8, HeldLess DEF QueryFails
  <2>2. faults' \in 0..MaxFaults
    BY <1>8, <1>t DEF QueryFails, TypeOK
  <2>3. /\ phase' \in [Worker -> {"off", "acquire", "rows", "returned"}]
        /\ err' \in [Request -> {"none", "query", "cancelled"}] /\ cancelled' \subseteq Request
    BY <1>8, <1>t DEF QueryFails, ReturnError, TypeOK
  <2> QED
    BY <1>8, <1>t, <2>1, <2>2, <2>3 DEF QueryFails, Typed, TypeOK
<1>9. ASSUME NEW w \in Worker, AcquireCancelled(w) PROVE Typed'
  BY <1>9, <1>t DEF AcquireCancelled, ReturnError, Typed, TypeOK
<1>10. ASSUME UNCHANGED vars PROVE Typed'
  BY <1>10, <1>t DEF vars, Typed, TypeOK
<1> QED
  BY <1>1, <1>2, <1>3, <1>4, <1>5, <1>6, <1>7, <1>8, <1>9, <1>10 DEF Next, Run, Quiescent

(***************************************************************************)
(* The types, and the bound of the pool.                                   *)
(***************************************************************************)
THEOREM TypeInvariant == Spec => []TypeOK
<1>1. Typed => TypeOK
  BY DEF Typed
<1> QED
  BY <1>1, InitTyped, TypedStep, PTL DEF Spec

-----------------------------------------------------------------------------
(***************************************************************************)
(* The groups.  A group is cancelled only by its first error or by the end *)
(* of Wait, and a detector holds a connection only while it reads rows; so *)
(* one that is told to stop finds the reason already recorded, unless the  *)
(* client went away.                                                       *)
(***************************************************************************)
Joined(q) == \A w \in Of(q) : phase[w] = "returned"

Group(q) == /\ q \in cancelled => err[q] # "none" \/ Joined(q)
            /\ err[q] = "cancelled" => q \in gone
            /\ reply[q] # 0 => Joined(q)
            /\ faults = 0 => err[q] = "none" /\ q \notin gone

Member(w) == /\ phase[w] # "off" => w \in Of(w[1])
             /\ w \in held => phase[w] = "rows"
             /\ faults = 0 /\ phase[w] = "returned" => got[w] = Candidates[w[2]]

Groups == (\A q \in Request : Group(q)) /\ (\A w \in Worker : Member(w))

LEMMA InitGroups == Init => Groups
  BY DEF Init, Groups, Group, Member

LEMMA OfFacts ==
    ASSUME NEW q \in Request
    PROVE  /\ \A w \in Worker : w[1] \in Request
           /\ \A w \in Of(q) : w \in Worker /\ w[1] = q
  BY DEF Of, Worker

LEMMA GroupsStep == Typed /\ Groups /\ [Next]_vars => Groups'
<1> SUFFICES ASSUME TypeOK, Groups, [Next]_vars PROVE Groups'
  BY DEF Typed
<1>o. \A q : Of(q)' = Of(q)
  BY DEF Of
<1> USE <1>o, OfFacts, InsightAssumption DEF InsightAssumption, TypeOK, Groups, Group, Member, Joined
<1>1. ASSUME NEW q \in Request, Start(q) PROVE Groups'
  BY <1>1 DEF Start
<1>2. ASSUME NEW q \in Request, ClientGoes(q) PROVE Groups'
  BY <1>2 DEF ClientGoes
<1>3. ASSUME NEW q \in Request, Wait(q) PROVE Groups'
  BY <1>3 DEF Wait
<1>4. ASSUME NEW q \in Request, WaitEmpty(q) PROVE Groups'
  BY <1>4 DEF WaitEmpty
<1>5. ASSUME NEW w \in Worker, Acquire(w) PROVE Groups'
  BY <1>5 DEF Acquire
<1>6. ASSUME NEW w \in Worker, ReadRow(w) PROVE Groups'
  BY <1>6 DEF ReadRow
<1>7. ASSUME NEW w \in Worker, LastRow(w) PROVE Groups'
  BY <1>7 DEF LastRow
<1>8. ASSUME NEW w \in Worker, RowsCut(w) PROVE Groups'
  BY <1>8 DEF RowsCut, Cancelled
<1>9. ASSUME NEW w \in Worker, QueryFails(w) PROVE Groups'
  BY <1>9 DEF QueryFails, ReturnError
<1>10. ASSUME NEW w \in Worker, AcquireCancelled(w) PROVE Groups'
  BY <1>10 DEF AcquireCancelled, ReturnError, Cancelled
<1>11. ASSUME UNCHANGED vars PROVE Groups'
  BY <1>11 DEF vars
<1> QED
  BY <1>1, <1>2, <1>3, <1>4, <1>5, <1>6, <1>7, <1>8, <1>9, <1>10, <1>11
     DEF Next, Run, Quiescent

LEMMA Invariant == Spec => [](Typed /\ Groups)
<1>1. Init => Typed /\ Groups
  BY InitTyped, InitGroups
<1>2. (Typed /\ Groups) /\ [Next]_vars => (Typed /\ Groups)'
  BY TypedStep, GroupsStep
<1> QED
  BY <1>1, <1>2, PTL DEF Spec

(***************************************************************************)
(* The error of a group is the failure that stopped it, not its echo.      *)
(***************************************************************************)
THEOREM FirstError == Spec => []RootCause
<1>1. Groups => RootCause
  BY DEF Groups, Group, RootCause
<1> QED
  BY <1>1, Invariant, PTL

(***************************************************************************)
(* Without a failure a 200 carries every candidate.                        *)
(***************************************************************************)
THEOREM NothingMissing == Spec => []OkIsComplete
<1>1. Groups => OkIsComplete
  BY OfFacts DEF Groups, Group, Member, Joined, OkIsComplete
<1> QED
  BY <1>1, Invariant, PTL

-----------------------------------------------------------------------------
(***************************************************************************)
(* No deadlock on the pool.  CanRun and CanWait are the guards of Run and  *)
(* of Wait and WaitEmpty.  A detector that holds a connection reads rows,  *)
(* which needs no second one, and a group starts all its detectors at once *)
(* (Together), so that Wait waits for none that has yet to start.          *)
(***************************************************************************)
CanRun(w) == \/ phase[w] = "acquire" /\ (Cancelled(w[1]) \/ Cardinality(held) < PoolSize)
             \/ phase[w] = "rows" /\ got[w] <= Candidates[w[2]]

CanWait(q) == reply[q] = 0 /\ Joined(q)

NeverStuck == \A q \in Request : Started(q) /\ reply[q] = 0 =>
                  CanWait(q) \/ \E w \in Worker : CanRun(w)

Together == \A q \in Request : \A v, w \in Of(q) : phase[v] = "off" => phase[w] = "off"

LEMMA TogetherStep == Typed /\ Together /\ [Next]_vars => Together'
<1> SUFFICES ASSUME TypeOK, Together, [Next]_vars,
                    NEW q \in Request, NEW v \in Of(q), NEW w \in Of(q), phase'[v] = "off"
             PROVE  phase'[w] = "off"
  BY DEF Typed, Together, Of
<1>t. v \in Worker /\ w \in Worker /\ v[1] = q /\ w[1] = q /\ (phase[v] = "off" => phase[w] = "off")
  BY OfFacts DEF Together
<1>1. ASSUME NEW p \in Request, Start(p) PROVE phase'[w] = "off"
  <2>1. v \notin Of(p)
    BY <1>1, <1>t DEF Start, TypeOK
  <2>2. w \notin Of(p)
    BY <2>1, <1>t, OfFacts
  <2> QED
    BY <1>1, <1>t, <2>1, <2>2 DEF Start, TypeOK
<1>2. ASSUME NEW p \in Request, ClientGoes(p) \/ Wait(p) \/ WaitEmpty(p) PROVE phase'[w] = "off"
  BY <1>2, <1>t DEF ClientGoes, Wait, WaitEmpty
<1>3. ASSUME NEW u \in Worker, Run(u) \/ RowsCut(u) \/ QueryFails(u) PROVE phase'[w] = "off"
  <2>1. phase[u] # "off" /\ phase'[u] # "off" /\ \A x \in Worker \ {u} : phase'[x] = phase[x]
    BY <1>3 DEF Run, Acquire, ReadRow, LastRow, AcquireCancelled, RowsCut, QueryFails, ReturnError, TypeOK
  <2> QED
    BY <1>t, <2>1
<1>4. ASSUME UNCHANGED vars PROVE phase'[w] = "off"
  BY <1>4, <1>t DEF vars
<1> QED
  BY <1>1, <1>2, <1>3, <1>4 DEF Next, Quiescent

(***************************************************************************)
(* As long as a request that has started is unanswered, its group can be   *)
(* joined or some detector, of any request, can take its next step, though *)
(* the pool is smaller than the number of detectors.                       *)
(***************************************************************************)
THEOREM NoDeadlock == Spec => []NeverStuck
<1>1. ASSUME Typed, Groups, Together, NEW q \in Request, Started(q), reply[q] = 0, ~Joined(q)
      PROVE  \E w \in Worker : CanRun(w)
  <2>1. PICK v \in Of(q) : v \in Worker /\ phase[v] \in {"acquire", "rows"}
    <3>1. PICK v \in Of(q) : v \in Worker /\ phase[v] # "returned"
      BY <1>1, OfFacts DEF Joined
    <3>2. phase[v] # "off"
      BY <1>1, <3>1 DEF Together, Started
    <3> QED
      BY <1>1, <3>1, <3>2 DEF Typed, TypeOK
  <2>2. CASE phase[v] = "rows"
    BY <1>1, <2>1, <2>2 DEF CanRun, Typed, TypeOK
  <2>3. CASE phase[v] = "acquire" /\ held = {}
    <3>1. Cardinality(held) < PoolSize
      BY <2>3, FS_EmptySet, InsightAssumption DEF InsightAssumption
    <3> QED
      BY <2>1, <2>3, <3>1 DEF CanRun
  <2>4. ASSUME NEW w \in held PROVE CanRun(w) /\ w \in Worker
    BY <1>1, <2>4 DEF CanRun, Groups, Member, Typed, TypeOK
  <2> QED
    BY <2>1, <2>2, <2>3, <2>4
<1>2. Typed /\ Groups /\ Together => NeverStuck
  BY <1>1 DEF NeverStuck, CanWait
<1>3. Init => Together
  BY OfFacts DEF Init, Together
<1> QED
  BY <1>2, <1>3, TogetherStep, Invariant, PTL DEF Spec

(***************************************************************************)
(* No endless work: how many steps a detector has left at most.            *)
(***************************************************************************)
WorkerLeft(w) == CASE phase[w] = "off" -> Candidates[w[2]] + 3
                   [] phase[w] = "acquire" -> Candidates[w[2]] + 2
                   [] phase[w] = "rows" -> (Candidates[w[2]] - got[w]) + 1
                   [] phase[w] = "returned" -> 0

Acts(w) == Run(w) \/ RowsCut(w) \/ QueryFails(w)

LessLeft == \A w \in Worker : WorkerLeft(w)' \in 0..WorkerLeft(w) /\ (Acts(w) => WorkerLeft(w)' < WorkerLeft(w))
WorkShrinks == [][LessLeft]_vars

(***************************************************************************)
(* Each step of a detector, a failure included, leaves less to do for it,  *)
(* and no step leaves more for another: every detector returns after as    *)
(* many steps as its query has rows, and three.                            *)
(***************************************************************************)
THEOREM NoEndlessWork == Spec => WorkShrinks
<1>1. ASSUME Typed, [Next]_vars, NEW w \in Worker
      PROVE  WorkerLeft(w)' \in 0..WorkerLeft(w) /\ (Acts(w) => WorkerLeft(w)' < WorkerLeft(w))
  <2> DEFINE c == Candidates[w[2]]
  <2>t. /\ TypeOK /\ w[2] \in Detector /\ c \in Nat /\ got[w] \in 0..c
        /\ phase[w] \in {"off", "acquire", "rows", "returned"}
    BY <1>1, InsightAssumption DEF InsightAssumption, Typed, TypeOK, Worker
  <2>0. WorkerLeft(w) \in Nat
    BY <2>t DEF WorkerLeft
  <2>s. ASSUME phase'[w] = phase[w], got'[w] = got[w] PROVE WorkerLeft(w)' = WorkerLeft(w)
    BY <2>s DEF WorkerLeft
  <2>1. CASE Acts(w)
    <3>1. \/ phase[w] = "acquire" /\ phase'[w] = "rows" /\ got'[w] = got[w]
          \/ phase[w] = "rows" /\ phase'[w] = "rows" /\ got'[w] = got[w] + 1 /\ got[w] < c
          \/ phase[w] \in {"acquire", "rows"} /\ phase'[w] = "returned"
      BY <2>1, <2>t DEF Acts, Run, Acquire, ReadRow, LastRow, AcquireCancelled, RowsCut, QueryFails,
                        ReturnError, TypeOK
    <3>2. WorkerLeft(w)' = CASE phase'[w] = "off" -> c + 3
                             [] phase'[w] = "acquire" -> c + 2
                             [] phase'[w] = "rows" -> (c - got'[w]) + 1
                             [] phase'[w] = "returned" -> 0
      BY DEF WorkerLeft
    <3>3. WorkerLeft(w)' \in Nat /\ WorkerLeft(w)' < WorkerLeft(w)
      <4>1. CASE phase[w] = "acquire" /\ phase'[w] = "rows" /\ got'[w] = got[w]
        BY <2>t, <3>2, <4>1 DEF WorkerLeft
      <4>2. CASE phase[w] = "rows" /\ phase'[w] = "rows" /\ got'[w] = got[w] + 1 /\ got[w] < c
        BY <2>t, <3>2, <4>2 DEF WorkerLeft
      <4>3. CASE phase[w] \in {"acquire", "rows"} /\ phase'[w] = "returned"
        BY <2>t, <3>2, <4>3 DEF WorkerLeft
      <4> QED
        BY <3>1, <4>1, <4>2, <4>3
    <3> QED
      BY <2>0, <3>3
  <2>2. CASE ~Acts(w) /\ \E v \in Worker : Acts(v)
    <3>1. phase'[w] = phase[w] /\ got'[w] = got[w]
      BY <2>2, <2>t DEF Acts, Run, Acquire, ReadRow, LastRow, AcquireCancelled, RowsCut, QueryFails,
                        ReturnError, TypeOK
    <3> QED
      BY <2>0, <2>2, <2>s, <3>1
  <2>3. ASSUME ~Acts(w), NEW q \in Request, Start(q) PROVE WorkerLeft(w)' \in 0..WorkerLeft(w)
    <3>1. CASE w \in Of(q)
      <4>1. phase[w] = "off" /\ phase'[w] = "acquire"
        BY <2>3, <2>t, <3>1 DEF Start
      <4>2. WorkerLeft(w)' = c + 2 /\ WorkerLeft(w) = c + 3
        BY <4>1 DEF WorkerLeft
      <4> QED
        BY <2>t, <4>2
    <3>2. CASE w \notin Of(q)
      BY <2>0, <2>3, <2>s, <3>2 DEF Start
    <3> QED
      BY <3>1, <3>2
  <2>4. ASSUME NEW q \in Request, ClientGoes(q) \/ Wait(q) \/ WaitEmpty(q) PROVE WorkerLeft(w)' = WorkerLeft(w)
    BY <2>4, <2>s DEF ClientGoes, Wait, WaitEmpty
  <2>5. ASSUME UNCHANGED vars PROVE WorkerLeft(w)' = WorkerLeft(w)
    BY <2>5, <2>s DEF vars
  <2>6. \/ \E v \in Worker : Acts(v)
        \/ \E q \in Request : Start(q) \/ ClientGoes(q) \/ Wait(q) \/ WaitEmpty(q)
        \/ UNCHANGED vars
    BY <1>1 DEF Next, Acts, Quiescent
  <2> QED
    BY <2>0, <2>1, <2>2, <2>3, <2>4, <2>5, <2>6
<1>2. Typed /\ [Next]_vars => LessLeft
  BY <1>1 DEF LessLeft
<1> QED
  BY <1>2, Invariant, PTL DEF Spec, WorkShrinks
=============================================================================
