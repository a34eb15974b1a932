--------------------------- MODULE IngestionProofs ---------------------------
(***************************************************************************)
(* Theorems about Ingestion, for any requests, bodies, reference data,     *)
(* pool size and numbers of faults and crashes.                            *)
(***************************************************************************)
EXTENDS Ingestion, SequenceTheorems, TLAPS

USE DEF Outcome, Querying, Waiting, PC, InFlight, SessionState

(***************************************************************************)
(* A body is a sequence of records, whose amounts are numbers.             *)
(***************************************************************************)
LEMMA BodyFacts ==
    ASSUME NEW r \in Request
    PROVE  /\ N(r) \in Nat
           /\ DOMAIN Items[r] = 1..N(r)
           /\ r \notin Batch => N(r) = 1
           /\ \A i \in 1..N(r) : Items[r][i].amount \in Nat
<1>1. Items[r] \in Seq([pm : STRING, country : STRING, amount : Nat, fits : BOOLEAN])
  BY IngestAssumption DEF IngestAssumption
<1>2. N(r) \in Nat /\ DOMAIN Items[r] = 1..N(r)
  BY <1>1 DEF N
<1>3. ASSUME NEW i \in 1..N(r) PROVE Items[r][i].amount \in Nat
  <2>1. Items[r][i] \in [pm : STRING, country : STRING, amount : Nat, fits : BOOLEAN]
    BY <1>1, ElementOfSeq DEF N
  <2> QED
    BY <2>1
<1> QED
  BY <1>2, <1>3, IngestAssumption DEF IngestAssumption, N

LEMMA USDTyped == ASSUME NEW a \in Nat, NEW b \in Nat PROVE USD(a, b) \in Nat
<1>1. a * b \in Nat
  OBVIOUS
<1>2. \A c \in Nat : (c + 5000) \div 10000 \in Nat
  OBVIOUS
<1> QED
  BY <1>1, <1>2 DEF USD

(***************************************************************************)
(* TypeOK is not inductive: an amount is a number only if there is one, so *)
(* the handler must be past the binding of a body it accepted.             *)
(***************************************************************************)
Bound == \A r \in Request : pc[r] \in {"idle", "done"} \/ Bindable(r)

Typed == TypeOK /\ Bound

LEMMA InitTyped == Init => Typed
  BY IngestAssumption DEF IngestAssumption, Init, TypeOK, Typed, Bound

LEMMA ItemInRange ==
    ASSUME TypeOK, Bound, NEW r \in Request, pc[r] \notin {"idle", "done"}
    PROVE  item[r] \in 1..N(r) /\ N(r) \in Nat
<1>1. N(r) \in 1..MaxBatch
  BY DEF Bound, Bindable
<1>2. N(r) >= 1
  BY <1>1, IngestAssumption DEF IngestAssumption
<1> QED
  BY <1>2, BodyFacts DEF TypeOK

(***************************************************************************)
(* One query of validateTransaction, whichever it is and whatever it finds.*)
(***************************************************************************)
LEMMA ValidateTyped ==
    ASSUME TypeOK, NEW r \in Request, NEW at, NEW found,
           NEW next \in {"country", "inCountry", "valid"}, Validate(r, at, found, next)
    PROVE  TypeOK'
<1> USE BodyFacts DEF TypeOK
<1>1. /\ UNCHANGED <<priced, slots, session, executed, table, up, faults, crashes>>
      /\ pc' \in [Request -> PC] /\ answer' \in [Request -> Outcome]
  BY DEF Validate, AfterValidation, Goto, Reply, database
<1>2. bad' \in [Request -> SUBSET (Nat \ {0})]
  <2>1. \E invalid \in SUBSET (Nat \ {0}) : UNCHANGED bad \/ bad' = [bad EXCEPT ![r] = invalid]
    <3>1. {bad[r], bad[r] \cup {item[r]}} \subseteq SUBSET (Nat \ {0})
      OBVIOUS
    <3> QED
      BY <3>1 DEF Validate, AfterValidation
  <2> QED
    BY <2>1
<1>3. /\ item' \in [Request -> Nat \ {0}]
      /\ \A q \in Request : item'[q] = 1 \/ item'[q] <= N(q)
  <2>1. CASE UNCHANGED item
    BY <2>1
  <2>2. CASE item' = [item EXCEPT ![r] = 1]
    BY <2>2
  <2>3. CASE item[r] < N(r) /\ item' = [item EXCEPT ![r] = @ + 1]
    BY <2>3
  <2> QED
    BY <2>1, <2>2, <2>3 DEF Validate, AfterValidation
<1> QED
  BY <1>1, <1>2, <1>3

LEMMA TypeStep == Typed /\ [Next]_vars => TypeOK'
<1> SUFFICES ASSUME TypeOK, Bound, [Next]_vars PROVE TypeOK'
  BY DEF Typed
<1> USE IngestAssumption, BodyFacts DEF TypeOK, Goto, Reply, Release, server, database
<1>1. ASSUME NEW r \in Request, Bind(r) PROVE TypeOK'
  BY <1>1 DEF Bind
<1>2. ASSUME NEW r \in Request, Exists(r) PROVE TypeOK'
  BY <1>2, ValidateTyped DEF Exists
<1>3. ASSUME NEW r \in Request, CountryExists(r) PROVE TypeOK'
  BY <1>3, ValidateTyped DEF CountryExists
<1>4. ASSUME NEW r \in Request, ExistsInCountry(r) PROVE TypeOK'
  BY <1>4, ValidateTyped DEF ExistsInCountry
<1>5. ASSUME NEW r \in Request, GetFxRate(r) PROVE TypeOK'
  <2>1. item[r] \in 1..N(r)
    BY <1>5, ItemInRange DEF GetFxRate
  <2>2. Current(r).amount \in Nat /\ Fx[Current(r).country] \in Nat
    BY <1>5, <2>1 DEF GetFxRate, Current, IngestAssumption
  <2>3. USD(Current(r).amount, Fx[Current(r).country]) \in Nat
    BY <2>2, USDTyped
  <2>4. priced' \in [Request -> Seq(Nat)]
    BY <1>5, <2>3 DEF GetFxRate
  <2>5. /\ item' \in [Request -> Nat \ {0}]
        /\ \A q \in Request : item'[q] = 1 \/ item'[q] <= N(q)
    <3>1. UNCHANGED item \/ (item[r] < N(r) /\ item' = [item EXCEPT ![r] = @ + 1])
      BY <1>5 DEF GetFxRate
    <3>2. CASE UNCHANGED item
      BY <3>2
    <3>3. CASE item[r] < N(r) /\ item' = [item EXCEPT ![r] = @ + 1]
      BY <3>3
    <3> QED
      BY <3>1, <3>2, <3>3
  <2>6. pc' \in [Request -> PC]
    <3>1. UNCHANGED pc \/ pc' = [pc EXCEPT ![r] = "begin"]
      BY <1>5, ZenonT(30) DEF GetFxRate
    <3> QED
      BY <3>1
  <2>7. UNCHANGED <<bad, slots, session, executed, table, answer, up, faults, crashes>>
    BY <1>5, ZenonT(30) DEF GetFxRate
  <2> QED
    BY <2>4, <2>5, <2>6, <2>7
<1>6. ASSUME NEW r \in Request, Insert(r) PROVE TypeOK'
  BY <1>6 DEF Insert
<1>7. ASSUME NEW r \in Request, Begin(r) PROVE TypeOK'
  BY <1>7 DEF Begin
<1>8. ASSUME NEW r \in Request, SendBatch(r) PROVE TypeOK'
  BY <1>8 DEF SendBatch
<1>9. ASSUME NEW r \in Request, SendCommit(r) PROVE TypeOK'
  BY <1>9 DEF SendCommit
<1>10. ASSUME NEW r \in Request, ReadAck(r) PROVE TypeOK'
  BY <1>10 DEF ReadAck
<1>11. ASSUME NEW r \in Request, ReadError(r) PROVE TypeOK'
  BY <1>11 DEF ReadError
<1>12. ASSUME NEW r \in Request, Execute(r) PROVE TypeOK'
  <2>1. UNCHANGED <<pc, item, bad, priced, slots, answer, up, faults, crashes>>
    BY <1>12 DEF Execute
  <2>2. session' \in [Request -> SessionState] /\ executed' \in [Request -> Nat]
    <3>1. CASE ~Admissible(Row(r, executed[r] + 1))
      BY <1>12, <3>1 DEF Execute
    <3>2. ASSUME NEW s \in SessionState, session' = [session EXCEPT ![r] = s],
                 executed' = [executed EXCEPT ![r] = @ + 1]
          PROVE  session' \in [Request -> SessionState] /\ executed' \in [Request -> Nat]
      BY <3>2
    <3>3. CASE Admissible(Row(r, executed[r] + 1))
      <4>1. /\ executed' = [executed EXCEPT ![r] = @ + 1]
            /\ \E s \in {"executed", "running", "committed"} : session' = [session EXCEPT ![r] = s]
        BY <1>12, <3>3 DEF Execute
      <4> QED
        BY <4>1, <3>2
    <3> QED
      BY <3>1, <3>3
  <2> QED
    BY <2>1, <2>2
<1>13. ASSUME NEW r \in Request, Commit(r) PROVE TypeOK'
  BY <1>13 DEF Commit
<1>14. ASSUME NEW r \in Request, Orphaned(r) PROVE TypeOK'
  BY <1>14 DEF Orphaned
<1>15. ASSUME NEW r \in Request, QueryFails(r) PROVE TypeOK'
  BY <1>15 DEF QueryFails, IngestAssumption
<1>16. ASSUME NEW r \in Request, ConnectionLost(r) PROVE TypeOK'
  BY <1>16 DEF ConnectionLost, IngestAssumption
<1>17. ASSUME NEW r \in Request, Abort(r) PROVE TypeOK'
  BY <1>17 DEF Abort, IngestAssumption
<1>18. ASSUME Crash PROVE TypeOK'
  <2>1. pc' \in [Request -> PC] /\ answer' \in [Request -> Outcome]
    BY <1>18 DEF Crash
  <2>2. UNCHANGED <<item, bad, priced, session, executed, faults>>
    BY <1>18 DEF Crash
  <2>3. crashes' \in 0..MaxCrashes /\ slots' = {} /\ up' = FALSE
    BY <1>18 DEF Crash, IngestAssumption
  <2> QED
    BY <2>1, <2>2, <2>3
<1>19. ASSUME Restart PROVE TypeOK'
  BY <1>19 DEF Restart
<1>20. ASSUME UNCHANGED vars PROVE TypeOK'
  BY <1>20 DEF vars
<1> QED
  BY <1>1, <1>2, <1>3, <1>4, <1>5, <1>6, <1>7, <1>8, <1>9, <1>10, <1>11, <1>12, <1>13,
     <1>14, <1>15, <1>16, <1>17, <1>18, <1>19, <1>20
     DEF Next, Handle, Work, Fail, Quiescent

LEMMA BoundStep == Typed /\ [Next]_vars => Bound'
<1> SUFFICES ASSUME TypeOK, Bound, [Next]_vars,
                    NEW q \in Request, pc'[q] \notin {"idle", "done"}
             PROVE  Bindable(q)
  BY DEF Typed, Bound, Bindable, N
<1> USE DEF TypeOK, Goto, Reply
<1>1. ASSUME NEW r \in Request,
             Exists(r) \/ CountryExists(r) \/ ExistsInCountry(r) \/ GetFxRate(r)
      PROVE  pc[q] \notin {"idle", "done"}
  BY <1>1 DEF Exists, CountryExists, ExistsInCountry, Validate, AfterValidation, GetFxRate
<1>3. ASSUME NEW r \in Request,
             \/ Insert(r) \/ Begin(r) \/ SendBatch(r) \/ SendCommit(r) \/ ReadAck(r)
             \/ ReadError(r) \/ QueryFails(r) \/ ConnectionLost(r)
      PROVE  pc[q] \notin {"idle", "done"}
  BY <1>3 DEF Insert, Begin, SendBatch, SendCommit, ReadAck, ReadError, QueryFails, ConnectionLost
<1>4. ASSUME NEW r \in Request, Work(r) \/ Orphaned(r) \/ Abort(r)
      PROVE  pc[q] \notin {"idle", "done"}
  BY <1>4 DEF Work, Execute, Commit, Orphaned, Abort, server
<1>5. ASSUME Crash \/ Restart \/ UNCHANGED vars PROVE pc[q] \notin {"idle", "done"}
  BY <1>5 DEF Crash, Restart, server, vars
<1>2. ASSUME NEW r \in Request, Bind(r) PROVE Bindable(q)
  BY <1>2 DEF Bind, TypeOK, Bound, Goto, Reply
<1> QED
  BY <1>1, <1>2, <1>3, <1>4, <1>5 DEF Bound, Next, Handle, Work, Fail, Quiescent

(***************************************************************************)
(* The handlers, sessions and counters keep to their types.                *)
(***************************************************************************)
THEOREM TypeInvariant == Spec => []TypeOK
<1>1. Typed /\ [Next]_vars => Typed'
  BY TypeStep, BoundStep DEF Typed
<1>2. Typed => TypeOK
  BY DEF Typed
<1> QED
  BY InitTyped, <1>1, <1>2, PTL DEF Spec

-----------------------------------------------------------------------------
(***************************************************************************)
(* Atomicity.  What ties the rows of a request in the table to the state   *)
(* of its handler and of its session: nothing is stored before the session *)
(* is opened or while it can still fail, a session that has committed has  *)
(* stored every row, and a validation answer closes the matter.            *)
(***************************************************************************)
Quiet(r) == session[r] = "closed" /\ StoredOf(r) = {}

Whole(r) ==
    /\ answer[r] = "none" <=> pc[r] # "done"
    /\ pc[r] \in {"idle"} \cup Querying => Quiet(r)
    /\ answer[r] = "invalid" => Quiet(r)
    /\ answer[r] = "error" /\ faults = 0 => Quiet(r)
    /\ session[r] \in InFlight \cup {"failed"} => StoredOf(r) = {}
    /\ session[r] \in {"executed", "committing"} => executed[r] = N(r)
    /\ session[r] = "committed" \/ answer[r] = "created" => StoredOf(r) = DOMAIN Items[r]
    /\ StoredOf(r) \in {{}, DOMAIN Items[r]}

AllWhole == \A r \in Request : Whole(r)

LEMMA StoredSame == ASSUME UNCHANGED table, NEW r PROVE StoredOf(r)' = StoredOf(r)
  BY DEF StoredOf

LEMMA StoredMore ==
    ASSUME NEW q, NEW S, table' = table \cup {Row(q, i) : i \in S}
    PROVE  /\ StoredOf(q)' = StoredOf(q) \cup S
           /\ \A r : r # q => StoredOf(r)' = StoredOf(r)
<1>1. \A i : Row(q, i).req = q /\ Row(q, i).idx = i
  BY DEF Row
<1>2. \A r : StoredOf(r)' = StoredOf(r) \cup {i \in S : r = q}
  BY <1>1 DEF StoredOf
<1> QED
  BY <1>2

LEMMA InitWhole == Init => AllWhole
  BY DEF Init, AllWhole, Whole, Quiet, StoredOf

LEMMA WholeStep == Typed /\ AllWhole /\ [Next]_vars => AllWhole'
<1> SUFFICES ASSUME TypeOK, AllWhole, [Next]_vars, NEW q \in Request
             PROVE  Whole(q)'
  BY DEF Typed, AllWhole
<1>q. Whole(q)
  BY DEF AllWhole
<1>b. UNCHANGED <<answer, pc, session, executed, table, faults>> => Whole(q)'
  BY <1>q, StoredSame DEF Whole, Quiet, N
<1> USE BodyFacts, <1>q DEF TypeOK, Goto, Reply, Release, server, database, Whole, Quiet, N
<1>1. ASSUME NEW r \in Request, Bind(r) PROVE Whole(q)'
  BY <1>1, StoredSame DEF Bind, MaySend
<1>v. ASSUME NEW r \in Request, NEW at \in {"exists", "country", "inCountry"}, NEW found,
             NEW next \in {"country", "inCountry", "valid"}, Validate(r, at, found, next)
      PROVE  Whole(q)'
  <2>1. pc[r] = at /\ UNCHANGED <<session, executed, table, faults>>
    BY <1>v DEF Validate
  <2>2. \/ UNCHANGED answer /\ \E w \in {"exists", "country", "inCountry", "fx"} : Goto(r, w)
        \/ Reply(r, "invalid")
    <3>1. CASE found /\ next # "valid"
      BY <1>v, <3>1 DEF Validate
    <3>2. CASE ~(found /\ next # "valid")
      BY <1>v, <3>2 DEF Validate, AfterValidation
    <3> QED
      BY <3>1, <3>2
  <2>3. CASE q = r
    BY <2>1, <2>2, <2>3, StoredSame
  <2>4. CASE q # r
    BY <2>1, <2>2, <2>4, StoredSame
  <2> QED
    BY <2>3, <2>4
<1>2. ASSUME NEW r \in Request, Exists(r) PROVE Whole(q)'
  BY ONLY <1>2, <1>v DEF Exists
<1>3. ASSUME NEW r \in Request, CountryExists(r) PROVE Whole(q)'
  BY ONLY <1>3, <1>v DEF CountryExists
<1>4. ASSUME NEW r \in Request, ExistsInCountry(r) PROVE Whole(q)'
  BY ONLY <1>4, <1>v DEF ExistsInCountry
<1>5. ASSUME NEW r \in Request, GetFxRate(r) PROVE Whole(q)'
  BY <1>5, StoredSame DEF GetFxRate
<1>6. ASSUME NEW r \in Request, Insert(r) PROVE Whole(q)'
  BY <1>6, StoredSame DEF Insert
<1>7. ASSUME NEW r \in Request, Begin(r) PROVE Whole(q)'
  BY <1>7, StoredSame DEF Begin
<1>8. ASSUME NEW r \in Request, SendBatch(r) PROVE Whole(q)'
  BY <1>8, StoredSame DEF SendBatch
<1>9. ASSUME NEW r \in Request, SendCommit(r) PROVE Whole(q)'
  BY <1>9, StoredSame DEF SendCommit
<1>10. ASSUME NEW r \in Request, ReadAck(r) PROVE Whole(q)'
  BY <1>10, StoredSame DEF ReadAck
<1>11. ASSUME NEW r \in Request, ReadError(r) PROVE Whole(q)'
  BY <1>11, StoredSame DEF ReadError
<1>12. ASSUME NEW r \in Request, Execute(r) PROVE Whole(q)'
  <2>1. CASE ~Admissible(Row(r, executed[r] + 1))
    BY <1>12, <2>1, StoredSame DEF Execute
  <2>2. CASE Admissible(Row(r, executed[r] + 1)) /\ r \in Batch
    BY <1>12, <2>2, StoredSame DEF Execute
  <2>3. CASE Admissible(Row(r, executed[r] + 1)) /\ r \notin Batch
    <3>1. PICK S : S = {1}
      OBVIOUS
    <3>2. table' = table \cup {Row(r, i) : i \in S}
      BY <1>12, <2>3, <3>1 DEF Execute
    <3>3. StoredOf(r)' = StoredOf(r) \cup S /\ (r # q => StoredOf(q)' = StoredOf(q))
      <4> HIDE DEF N, Whole
      <4> QED
        BY <3>2, StoredMore
    <3>4. DOMAIN Items[r] = S
      BY <2>3, <3>1
    <3>5. /\ session[r] = "running" /\ session' = [session EXCEPT ![r] = "committed"]
          /\ UNCHANGED <<server, answer, faults>>
          /\ executed' = [executed EXCEPT ![r] = @ + 1]
      BY <1>12, <2>3 DEF Execute
    <3>6. CASE q = r
      BY <3>3, <3>4, <3>5, <3>6
    <3>7. CASE q # r
      BY <3>3, <3>5, <3>7
    <3> QED
      BY <3>6, <3>7
  <2> QED
    BY <2>1, <2>2, <2>3
<1>13. ASSUME NEW r \in Request, Commit(r) PROVE Whole(q)'
  <2>1. StoredOf(r)' = StoredOf(r) \cup 1..executed[r] /\ (r # q => StoredOf(q)' = StoredOf(q))
    BY <1>13, StoredMore DEF Commit
  <2>2. r = q => StoredOf(q)' = DOMAIN Items[q]
    BY <1>13, <2>1 DEF Commit
  <2> QED
    BY <1>13, <2>1, <2>2 DEF Commit
<1>14. ASSUME NEW r \in Request, Orphaned(r) PROVE Whole(q)'
  BY <1>14, StoredSame DEF Orphaned
<1>15. ASSUME NEW r \in Request, QueryFails(r) PROVE Whole(q)'
  BY <1>15, StoredSame DEF QueryFails
<1>16. ASSUME NEW r \in Request, ConnectionLost(r) PROVE Whole(q)'
  BY <1>16, StoredSame DEF ConnectionLost
<1>17. ASSUME NEW r \in Request, Abort(r) PROVE Whole(q)'
  BY <1>17, StoredSame DEF Abort
<1>18. ASSUME Crash PROVE Whole(q)'
  BY <1>18, StoredSame DEF Crash
<1>19. ASSUME Restart \/ UNCHANGED vars PROVE Whole(q)'
  BY <1>19, <1>b DEF Restart, vars
<1> QED
  BY <1>1, <1>2, <1>3, <1>4, <1>5, <1>6, <1>7, <1>8, <1>9, <1>10, <1>11, <1>12, <1>13,
     <1>14, <1>15, <1>16, <1>17, <1>18, <1>19
     DEF Next, Handle, Work, Fail, Quiescent

LEMMA WholeInvariant == Spec => [](Typed /\ AllWhole)
<1>1. Init => Typed /\ AllWhole
  BY InitTyped, InitWhole
<1>2. (Typed /\ AllWhole) /\ [Next]_vars => (Typed /\ AllWhole)'
  BY TypeStep, BoundStep, WholeStep DEF Typed
<1> QED
  BY <1>1, <1>2, PTL DEF Spec

(***************************************************************************)
(* A batch is stored whole or not at all, in every reachable state.        *)
(***************************************************************************)
THEOREM Atomicity == Spec => []AllOrNothing
<1>1. Typed /\ AllWhole => AllOrNothing
  BY DEF AllWhole, Whole, AllOrNothing
<1> QED
  BY <1>1, WholeInvariant, PTL

(***************************************************************************)
(* The rows of a request answered with 201 are in the table, for ever.     *)
(***************************************************************************)
THEOREM Durability == Spec => []CreatedIsStored
<1>1. Typed /\ AllWhole => CreatedIsStored
  BY DEF AllWhole, Whole, CreatedIsStored
<1> QED
  BY <1>1, WholeInvariant, PTL

(***************************************************************************)
(* A validation answer is final: nothing is stored, nothing is under way.  *)
(***************************************************************************)
THEOREM RefusalIsFinal == Spec => []InvalidNeverStored
<1>1. Typed /\ AllWhole => InvalidNeverStored
  BY DEF AllWhole, Whole, Quiet, InvalidNeverStored
<1> QED
  BY <1>1, WholeInvariant, PTL

(***************************************************************************)
(* Unless something fails, an error answer means that nothing is stored.   *)
(***************************************************************************)
THEOREM ErrorIsClean == Spec => []ErrorStoresNothingUnlessFault
<1>1. Typed /\ AllWhole => ErrorStoresNothingUnlessFault
  BY DEF AllWhole, Whole, Quiet, InFlight, ErrorStoresNothingUnlessFault
<1> QED
  BY <1>1, WholeInvariant, PTL

-----------------------------------------------------------------------------
(***************************************************************************)
(* Soundness.  What a handler knows of its items at each place: the        *)
(* earlier ones are valid or listed as bad, then all are valid, the rates  *)
(* of the earlier ones are in, then all are in; and what the session has   *)
(* executed is what the schema admits.                                     *)
(***************************************************************************)
Validated(r, i) == <<Items[r][i].pm, Items[r][i].country>> \in Offered

Validating == {"exists", "country", "inCountry"}
Past(r) == pc[r] \in {"begin"} \cup Waiting \/ session[r] # "closed"

Checked(r) ==
    /\ pc[r] = "idle" => item[r] = 1
    /\ pc[r] \in Validating => \A i \in 1..(item[r] - 1) : i \in bad[r] \/ Validated(r, i)
    /\ pc[r] = "fx" \/ Past(r) => \A i \in 1..N(r) : Validated(r, i)

Rated(r) ==
    /\ \A i \in 1..Len(priced[r]) : priced[r][i] = RowFor(r, i).usd
    /\ pc[r] \in {"idle"} \cup Validating => Len(priced[r]) = 0
    /\ pc[r] = "fx" => Len(priced[r]) = item[r] - 1
    /\ Past(r) => Len(priced[r]) = N(r)

Admitted(r) ==
    /\ pc[r] \in {"idle"} \cup Querying \/ session[r] = "open" => executed[r] = 0
    /\ session[r] = "running" => executed[r] < N(r)
    /\ session[r] \in InFlight => \A i \in 1..executed[r] : RowFor(r, i).usd > 0

Sound == /\ \A r \in Request : Checked(r) /\ Rated(r) /\ Admitted(r)
         /\ \A row \in table : \E r \in Request, i \in Nat :
               i \in 1..N(r) /\ row = RowFor(r, i) /\ Validated(r, i) /\ row.usd > 0

LEMMA InitSound == Init => Sound
  BY DEF Init, Sound, Checked, Rated, Admitted, Past, Validating

LEMMA RowIsRowFor ==
    ASSUME TypeOK, NEW r \in Request, Rated(r), Past(r), NEW i \in 1..N(r)
    PROVE  Row(r, i) = RowFor(r, i)
  BY DEF Rated, Row, RowFor

(***************************************************************************)
(* A step that leaves the request alone leaves what is known of it.        *)
(***************************************************************************)
LEMMA SoundFrame ==
    ASSUME NEW q, Checked(q), Rated(q), Admitted(q),
           pc'[q] = pc[q], item'[q] = item[q], bad'[q] = bad[q], priced'[q] = priced[q],
           session'[q] = session[q], executed'[q] = executed[q]
    PROVE  Checked(q)' /\ Rated(q)' /\ Admitted(q)'
  BY DEF Checked, Rated, Admitted, Past, N, Validated, RowFor

(***************************************************************************)
(* One query of validateTransaction.  valid stands for what is known once  *)
(* the last query has found its row.                                       *)
(***************************************************************************)
LEMMA ValidateSound ==
    ASSUME TypeOK, Bound, NEW q \in Request, Checked(q), Rated(q), Admitted(q), session[q] = "closed",
           NEW at \in Validating, NEW found,
           NEW next \in {"country", "inCountry", "valid"}, Validate(q, at, found, next),
           next = "valid" /\ found => Validated(q, item[q])
    PROVE  Checked(q)' /\ Rated(q)' /\ Admitted(q)'
<1>1. /\ pc[q] = at /\ priced'[q] = priced[q] /\ Len(priced[q]) = 0
      /\ session'[q] = "closed" /\ executed'[q] = executed[q] /\ executed[q] = 0
  BY DEF Validate, database, Rated, Admitted, TypeOK, Validating
<1>2. item[q] \in 1..N(q) /\ N(q) \in Nat
  BY <1>1, ItemInRange DEF Validating
<1>3. CASE found /\ next # "valid"
  BY <1>1, <1>3 DEF Validate, Goto, Checked, Rated, Admitted, Past, Validating, N, Validated,
                    RowFor, TypeOK
<1>4. CASE ~(found /\ next # "valid")
  <2> DEFINE invalid == IF found THEN bad[q] ELSE bad[q] \cup {item[q]}
  <2>1. AfterValidation(q, invalid)
    BY <1>4 DEF Validate
  <2>2. \A i \in 1..item[q] : i \in invalid \/ Validated(q, i)
    BY <1>1, <1>2, <1>4 DEF Checked, Validating
  <2> HIDE DEF invalid
  <2>3. CASE item[q] < N(q)
    <3>1. pc'[q] = "exists" /\ item'[q] = item[q] + 1 /\ bad'[q] = invalid
      BY <2>1, <2>3 DEF AfterValidation, Goto, TypeOK
    <3> QED
      BY <1>1, <1>2, <2>2, <3>1
         DEF Checked, Rated, Admitted, Past, Validating, N, Validated, RowFor
  <2>4. CASE item[q] >= N(q) /\ invalid # {}
    <3>1. pc'[q] = "done"
      BY <1>2, <2>1, <2>4 DEF AfterValidation, Reply, Goto, TypeOK
    <3> QED
      BY <1>1, <3>1 DEF Checked, Rated, Admitted, Past, Validating, N, Validated, RowFor
  <2>5. CASE item[q] >= N(q) /\ invalid = {}
    <3>1. pc'[q] = "fx" /\ item'[q] = 1
      BY <1>2, <2>1, <2>5 DEF AfterValidation, Goto, TypeOK
    <3>2. \A i \in 1..N(q) : Validated(q, i)
      BY <1>2, <2>2, <2>5
    <3> QED
      BY <1>1, <3>1, <3>2 DEF Checked, Rated, Admitted, Past, Validating, N, Validated, RowFor
  <2> QED
    BY <1>2, <2>3, <2>4, <2>5 DEF TypeOK
<1> QED
  BY <1>3, <1>4

LEMMA SoundStep == Typed /\ AllWhole /\ Sound /\ [Next]_vars => Sound'
<1> SUFFICES ASSUME TypeOK, Bound, AllWhole, Sound, [Next]_vars PROVE Sound'
  BY DEF Typed
<1> DEFINE Known(q) == Checked(q) /\ Rated(q) /\ Admitted(q)
<1> DEFINE Explained(row) == \E r \in Request, i \in Nat :
               i \in 1..N(r) /\ row = RowFor(r, i) /\ Validated(r, i) /\ row.usd > 0
<1>k. \A q \in Request : Known(q)
  BY DEF Sound
<1>t. \A row \in table : Explained(row)
  BY DEF Sound
<1>s. ASSUME \A q \in Request : Known(q)', UNCHANGED table PROVE Sound'
  BY <1>t, <1>s DEF Sound, RowFor, Validated, N
<1>f. ASSUME NEW q \in Request, pc'[q] = pc[q], item'[q] = item[q], bad'[q] = bad[q],
             priced'[q] = priced[q], session'[q] = session[q], executed'[q] = executed[q]
      PROVE  Known(q)'
  BY <1>k, <1>f, SoundFrame
<1>w. ASSUME NEW r \in Request, pc[r] \in {"idle"} \cup Querying PROVE session[r] = "closed"
  BY <1>w DEF AllWhole, Whole, Quiet
\* An action of r that leaves the table alone has to be checked at r only.
<1>o. ASSUME NEW r \in Request, UNCHANGED table, Known(r)',
             \A q \in Request \ {r} :
               /\ pc'[q] = pc[q] /\ item'[q] = item[q] /\ bad'[q] = bad[q]
               /\ priced'[q] = priced[q] /\ session'[q] = session[q]
               /\ executed'[q] = executed[q]
      PROVE  Sound'
  <2>1. \A q \in Request : Known(q)'
    BY <1>o, <1>f
  <2> QED
    BY <1>o, <1>s, <2>1
<1> HIDE DEF Known, Explained
<1>2. ASSUME NEW r \in Request, NEW at \in Validating, NEW found,
             NEW next \in {"country", "inCountry", "valid"}, Validate(r, at, found, next),
             next = "valid" /\ found => Validated(r, item[r])
      PROVE  Sound'
  <2>1. session[r] = "closed"
    BY <1>2, <1>w DEF Validate, Validating
  <2>2. Known(r)'
    BY <1>2, <1>k, <2>1, ValidateSound DEF Known
  <2> QED
    BY <1>2, <2>2, <1>o DEF Validate, AfterValidation, Goto, Reply, database, TypeOK
<1>3. ASSUME NEW r \in Request, Exists(r) \/ CountryExists(r) \/ ExistsInCountry(r) PROVE Sound'
  <2>1. CASE Exists(r)
    BY <1>2, <2>1 DEF Exists, Validating
  <2>2. CASE CountryExists(r)
    BY <1>2, <2>2 DEF CountryExists, Validating
  <2>3. CASE ExistsInCountry(r)
    BY <1>2, <2>3 DEF ExistsInCountry, Validating, Validated, Current
  <2> QED
    BY <1>3, <2>1, <2>2, <2>3
<1>r. ASSUME NEW r \in Request PROVE Checked(r) /\ Rated(r) /\ Admitted(r) /\ N(r) \in Nat
  BY <1>k, BodyFacts DEF Known
<1>4. ASSUME NEW r \in Request, Bind(r) PROVE Sound'
  <2>1. Known(r)'
    <3>1. pc[r] = "idle" /\ pc'[r] \in {"exists", "done"} /\ UNCHANGED <<item, bad, priced, session, executed>>
      BY <1>4 DEF Bind, MaySend, Goto, Reply, database, TypeOK
    <3>2. Checked(r)' /\ Rated(r)'
      BY <1>r, <1>w, <3>1 DEF Checked, Rated, Past, Validating
    <3>3. Admitted(r)'
      BY <1>r, <3>1 DEF Admitted, Querying
    <3> QED
      BY <3>2, <3>3 DEF Known
  <2> QED
    BY <1>4, <2>1, <1>o DEF Bind, Goto, Reply, database, TypeOK
<1>5. ASSUME NEW r \in Request, GetFxRate(r) PROVE Sound'
  <2>1. /\ pc[r] = "fx" /\ session[r] = "closed" /\ item[r] \in 1..N(r)
        /\ \A i \in 1..N(r) : Validated(r, i)
        /\ Len(priced[r]) = item[r] - 1
    BY <1>5, <1>r, <1>w, ItemInRange DEF GetFxRate, Checked, Rated
  <2>2. /\ Len(priced'[r]) = item[r]
        /\ \A i \in 1..item[r] : priced'[r][i] = RowFor(r, i).usd
    <3>1. priced'[r] = Append(priced[r], RowFor(r, item[r]).usd)
      BY <1>5 DEF GetFxRate, RowFor, Current, TypeOK
    <3>2. priced[r] \in Seq(Nat)
      BY DEF TypeOK
    <3> DEFINE s == priced[r]
               x == RowFor(r, item[r]).usd
    <3>3. Len(Append(s, x)) = Len(s) + 1 /\ \A i \in 1..Len(s) + 1 :
              Append(s, x)[i] = IF i = Len(s) + 1 THEN x ELSE s[i]
      <4> HIDE DEF x
      <4> QED
        BY <3>2
    <3>4. \A i \in 1..Len(s) : s[i] = RowFor(r, i).usd
      BY <1>r DEF Rated
    <3> HIDE DEF x
    <3> QED
      BY <2>1, <3>1, <3>3, <3>4 DEF x
  <2>3. session'[r] = "closed" /\ executed'[r] = executed[r] /\ executed[r] = 0
    BY <1>5, <1>r, <2>1 DEF GetFxRate, database, Admitted
  <2>4. Known(r)'
    <3>1. CASE item[r] < N(r)
      <4>1. pc'[r] = "fx" /\ item'[r] = item[r] + 1
        BY <1>5, <3>1 DEF GetFxRate, TypeOK
      <4> QED
        BY <2>1, <2>2, <2>3, <4>1, SMTT(20)
           DEF Known, Checked, Rated, Admitted, Past, Validating, N, Validated, RowFor
    <3>2. CASE item[r] = N(r)
      <4>1. pc'[r] = "begin"
        BY <1>5, <3>2, <1>r DEF GetFxRate, Goto, TypeOK
      <4> QED
        BY <2>1, <2>2, <2>3, <3>2, <4>1
           DEF Known, Checked, Rated, Admitted, Past, Validating, N, Validated, RowFor
    <3> QED
      BY <2>1, <1>r, <3>1, <3>2
  <2> QED
    BY <1>5, <2>4, <1>o DEF GetFxRate, Goto, database, TypeOK
<1>6. ASSUME NEW r \in Request, Insert(r) \/ Begin(r) PROVE Sound'
  <2>0. N(r) >= 1
    BY <1>6, ItemInRange DEF Insert, Begin
  <2>1. Known(r)'
    BY <1>6, <1>r, <1>w, <2>0
       DEF Insert, Begin, Goto, TypeOK, Known, Checked, Rated, Admitted, Past, Validating, N,
           Validated, RowFor
  <2> QED
    BY <1>6, <2>1, <1>o DEF Insert, Begin, Goto, TypeOK
<1>7. ASSUME NEW r \in Request, SendBatch(r) PROVE Sound'
  <2>1. N(r) >= 1
    BY <1>7, ItemInRange DEF SendBatch
  <2>2. Known(r)'
    BY <1>7, <1>r, <2>1
       DEF SendBatch, Goto, TypeOK, Known, Checked, Rated, Admitted, Past, Validating, N,
           Validated, RowFor
  <2> QED
    BY <1>7, <2>2, <1>o DEF SendBatch, Goto, TypeOK
<1>8. ASSUME NEW r \in Request, SendCommit(r) PROVE Sound'
  <2>1. Known(r)'
    BY <1>8, <1>r DEF SendCommit, Goto, TypeOK, Known, Checked, Rated, Admitted, Past,
                      Validating, N, Validated, RowFor
  <2> QED
    BY <1>8, <2>1, <1>o DEF SendCommit, Goto, TypeOK
<1>9. ASSUME NEW r \in Request,
             ReadAck(r) \/ ReadError(r) \/ QueryFails(r) \/ ConnectionLost(r) PROVE Sound'
  <2>1. Known(r)'
    BY <1>9, <1>r, <1>w
       DEF ReadAck, ReadError, QueryFails, ConnectionLost, Goto, Reply, database, TypeOK, Known,
           Checked, Rated, Admitted, Past, Validating, N, Validated, RowFor
  <2> QED
    BY <1>9, <2>1, <1>o
       DEF ReadAck, ReadError, QueryFails, ConnectionLost, Goto, Reply, database, TypeOK
<1>10. ASSUME NEW r \in Request, Orphaned(r) \/ Abort(r) PROVE Sound'
  <2>1. Known(r)'
    BY <1>10, <1>r DEF Orphaned, Abort, server, TypeOK, Known, Checked, Rated, Admitted, Past,
                       Validating, N, Validated, RowFor
  <2> QED
    BY <1>10, <2>1, <1>o DEF Orphaned, Abort, server, TypeOK
<1>11. ASSUME NEW r \in Request, Execute(r) PROVE Sound'
  <2> DEFINE k == executed[r] + 1
  <2>1. /\ k \in 1..N(r) /\ session[r] = "running" /\ Past(r)
        /\ UNCHANGED <<pc, item, bad, priced>>
        /\ \A i \in 1..N(r) : Validated(r, i)
    <3>1. session[r] = "running" /\ UNCHANGED <<pc, item, bad, priced>>
      BY <1>11 DEF Execute, server
    <3>2. executed[r] < N(r) /\ executed[r] \in Nat /\ N(r) \in Nat
      BY <1>r, <3>1 DEF Admitted, TypeOK
    <3> QED
      BY <1>r, <3>1, <3>2 DEF Checked, Past
  <2>2. Row(r, k) = RowFor(r, k)
    BY <2>1, <1>r, RowIsRowFor
  <2>3. CASE ~Admissible(Row(r, k))
    <3>1. session' = [session EXCEPT ![r] = "failed"] /\ UNCHANGED <<executed, table>>
      BY <1>11, <2>3 DEF Execute
    <3>2. Known(r)'
      BY <1>r, <2>1, <3>1 DEF TypeOK, Known, Checked, Rated, Admitted, Past, Validating, N, Validated, RowFor
    <3> QED
      BY <2>1, <3>1, <3>2, <1>o DEF TypeOK
  <2>4. CASE Admissible(Row(r, k))
    <3>1. executed' = [executed EXCEPT ![r] = k]
      BY <1>11, <2>4 DEF Execute
    <3>2. RowFor(r, k).usd > 0
      BY <2>2, <2>4 DEF Admissible
    <3>3. \A i \in 1..k : RowFor(r, i).usd > 0
      BY <1>r, <2>1, <3>2 DEF Admitted, InFlight, TypeOK
    <3>4. CASE r \in Batch
      <4>1. /\ session' = [session EXCEPT ![r] = IF k = N(r) THEN "executed" ELSE "running"]
            /\ UNCHANGED table
        BY <1>11, <2>4, <3>4 DEF Execute
      <4>2. Known(r)'
        <5>1. executed'[r] = k /\ session'[r] = IF k = N(r) THEN "executed" ELSE "running"
          BY <3>1, <4>1 DEF TypeOK
        <5>2. k \in 1..N(r) /\ N(r) \in Nat
          BY <2>1, <1>r
        <5>3. pc[r] \notin {"idle"} \cup Querying
          BY <1>11, <2>1 DEF AllWhole, Whole, Quiet
        <5> HIDE DEF k
        <5> QED
          BY <1>r, <2>1, <3>3, <5>1, <5>2, <5>3
           DEF Known, Checked, Rated, Admitted, Past, Validating, N, Validated, RowFor
      <4> QED
        BY <2>1, <3>1, <4>1, <4>2, <1>o DEF TypeOK
    <3>5. CASE r \notin Batch
      <4>1. /\ session' = [session EXCEPT ![r] = "committed"]
            /\ table' = table \cup {Row(r, 1)}
        BY <1>11, <2>4, <3>5 DEF Execute
      <4>2. k = 1 /\ N(r) = 1
        BY <2>1, <3>5, BodyFacts DEF TypeOK
      <4>3. \A q \in Request : Known(q)'
        <5>1. Known(r)'
          <6>1. session'[r] = "committed" /\ pc[r] \notin {"idle"} \cup Querying
            BY <1>11, <2>1, <4>1 DEF AllWhole, Whole, Quiet, TypeOK
          <6> QED
            BY <1>r, <2>1, <6>1 DEF Known, Checked, Rated, Admitted, Past, Validating, N, Validated, RowFor
        <5> QED
          BY <2>1, <3>1, <4>1, <5>1, <1>f DEF TypeOK
      <4>4. Explained(Row(r, 1))
        BY <2>1, <2>2, <3>2, <4>2 DEF Explained
      <4> QED
        BY <1>t, <4>1, <4>3, <4>4 DEF Sound, Known, Explained, RowFor, Validated, N
    <3> QED
      BY <3>4, <3>5
  <2> QED
    BY <2>3, <2>4
<1>12. ASSUME NEW r \in Request, Commit(r) PROVE Sound'
  <2>1. /\ session[r] = "committing" /\ Past(r) /\ executed[r] = N(r)
        /\ UNCHANGED <<pc, item, bad, priced, executed>>
        /\ session' = [session EXCEPT ![r] = "committed"]
        /\ table' = table \cup {Row(r, i) : i \in 1..N(r)}
    BY <1>12 DEF Commit, server, Past, AllWhole, Whole
  <2>2. \A i \in 1..N(r) : Validated(r, i) /\ RowFor(r, i).usd > 0
    BY <1>r, <2>1 DEF Checked, Admitted, InFlight
  <2>3. \A i \in 1..N(r) : Explained(Row(r, i))
    BY <1>r, <2>1, <2>2, RowIsRowFor DEF Explained
  <2>4. Known(r)'
    BY <1>r, <2>1 DEF TypeOK, Known, Checked, Rated, Admitted, Past, Validating, N, Validated, RowFor
  <2>5. \A q \in Request : Known(q)'
    BY <2>1, <2>4, <1>f DEF TypeOK
  <2> QED
    BY <1>t, <2>1, <2>3, <2>5 DEF Sound, Known, Explained, RowFor, Validated, N
<1>13. ASSUME Crash PROVE Sound'
  <2>1. ASSUME NEW q \in Request PROVE Known(q)'
    BY <1>13, <1>r DEF Crash, database, Known, Checked, Rated, Admitted, Past, Validating, N,
                       Validated, RowFor
  <2> QED
    BY <1>13, <2>1, <1>s DEF Crash, database
<1>14. ASSUME Restart \/ UNCHANGED vars PROVE Sound'
  BY <1>14, <1>f, <1>s DEF Restart, server, database, vars
<1> QED
  BY <1>3, <1>4, <1>5, <1>6, <1>7, <1>8, <1>9, <1>10, <1>11, <1>12, <1>13, <1>14
     DEF Next, Handle, Work, Fail, Quiescent

IInv == Typed /\ AllWhole /\ Sound

LEMMA Invariant == Spec => []IInv
<1>1. Init => IInv
  BY InitTyped, InitWhole, InitSound DEF IInv
<1>2. IInv /\ [Next]_vars => IInv'
  BY TypeStep, BoundStep, WholeStep, SoundStep DEF IInv, Typed
<1> QED
  BY <1>1, <1>2, PTL DEF Spec

(***************************************************************************)
(* Every stored row is offered in its country, at that country's rate.     *)
(***************************************************************************)
THEOREM Soundness == Spec => []StoredRowsSound
<1>1. ASSUME IInv, NEW row \in table
      PROVE  /\ <<row.pm, row.country>> \in Offered
             /\ row.usd = USD(Items[row.req][row.idx].amount, Fx[row.country])
             /\ row.usd > 0
  <2>1. PICK q \in Request, i \in Nat : /\ row = RowFor(q, i)
                                       /\ Validated(q, i)
                                       /\ row.usd > 0
    BY <1>1 DEF IInv, Sound
  <2>2. /\ row.req = q /\ row.idx = i
        /\ row.pm = Items[q][i].pm /\ row.country = Items[q][i].country
        /\ row.usd = USD(Items[q][i].amount, Fx[Items[q][i].country])
    BY <2>1 DEF RowFor
  <2> QED
    BY <2>1, <2>2 DEF Validated
<1>2. IInv => StoredRowsSound
  BY <1>1 DEF StoredRowsSound
<1> QED
  BY <1>2, Invariant, PTL

-----------------------------------------------------------------------------
(***************************************************************************)
(* What the two sides do to the table, in terms of whole requests.         *)
(***************************************************************************)
LEMMA StoredIsRows ==
    ASSUME IInv, NEW r \in Request
    PROVE  /\ StoredOf(r) = {} => RowsOf[r] \cap table = {}
           /\ StoredOf(r) = DOMAIN Items[r] => RowsOf[r] \subseteq table
<1>1. RowsOf[r] = {RowFor(r, i) : i \in DOMAIN Items[r]}
  BY DEF RowsOf
<1>2. \A q, i : RowFor(q, i).req = q /\ RowFor(q, i).idx = i
  BY DEF RowFor
<1>3. ASSUME StoredOf(r) = {} PROVE RowsOf[r] \cap table = {}
  <2> SUFFICES ASSUME NEW row \in table, row \in RowsOf[r] PROVE FALSE
    OBVIOUS
  <2>1. row.req = r
    BY <1>1, <1>2
  <2>2. row.idx \in StoredOf(r)
    BY <2>1 DEF StoredOf
  <2> QED
    BY <2>2, <1>3
<1>4. ASSUME StoredOf(r) = DOMAIN Items[r], NEW i \in DOMAIN Items[r] PROVE RowFor(r, i) \in table
  <2>1. PICK row \in table : row.req = r /\ row.idx = i
    BY <1>4 DEF StoredOf
  <2>2. PICK q \in Request, j \in Nat : row = RowFor(q, j)
    BY DEF IInv, Sound
  <2> QED
    BY <2>1, <2>2, <1>2
<1> QED
  BY <1>1, <1>3, <1>4

(* The table changes by the rows of one request, all of them, in a session *)
(* that was not closed and had stored nothing.                             *)
Published(r) == /\ table' = table \cup RowsOf[r]
                /\ StoredOf(r) = {}
                /\ session[r] # "closed"
                /\ UNCHANGED <<pc, answer>>

LEMMA ExecutePublishes ==
    ASSUME IInv, NEW r \in Request, Execute(r) PROVE UNCHANGED table \/ Published(r)
<1> SUFFICES ASSUME table' # table PROVE Published(r)
  OBVIOUS
<1>1. /\ r \notin Batch /\ session[r] = "running" /\ table' = table \cup {Row(r, 1)}
      /\ UNCHANGED <<pc, answer>>
  BY DEF Execute, server
<1>2. N(r) = 1 /\ DOMAIN Items[r] = {1}
  BY <1>1, BodyFacts
<1>3. Row(r, 1) = RowFor(r, 1)
  BY <1>1, <1>2, RowIsRowFor DEF IInv, Typed, Sound, Past
<1>4. RowsOf[r] = {RowFor(r, 1)}
  BY <1>2 DEF RowsOf
<1>5. StoredOf(r) = {}
  BY <1>1 DEF IInv, AllWhole, Whole
<1> QED
  BY <1>1, <1>3, <1>4, <1>5 DEF Published

LEMMA CommitPublishes == ASSUME IInv, NEW r \in Request, Commit(r) PROVE Published(r)
<1>1. /\ session[r] = "committing" /\ UNCHANGED <<pc, answer>>
      /\ table' = table \cup {Row(r, i) : i \in 1..executed[r]}
  BY DEF Commit, server
<1>2. executed[r] = N(r) /\ StoredOf(r) = {} /\ Past(r)
  BY <1>1 DEF IInv, AllWhole, Whole, Past
<1>3. \A i \in 1..N(r) : Row(r, i) = RowFor(r, i)
  BY <1>2, RowIsRowFor DEF IInv, Typed, Sound
<1>4. RowsOf[r] = {RowFor(r, i) : i \in 1..N(r)}
  BY BodyFacts DEF RowsOf
<1> QED
  BY <1>1, <1>2, <1>3, <1>4 DEF Published

LEMMA TableSteps ==
    ASSUME IInv, [Next]_vars
    PROVE  UNCHANGED table \/ \E r \in Request : Published(r) /\ (Execute(r) \/ Commit(r))
<1>1. UNCHANGED table \/ \E r \in Request : Work(r)
  BY DEF Next, Handle, Fail, Quiescent, vars, database, Exists, CountryExists, ExistsInCountry,
         Validate, GetFxRate, Insert, Begin, SendBatch, SendCommit, ReadAck, ReadError, Bind,
         Orphaned, QueryFails, ConnectionLost, Abort, Crash, Restart
<1> QED
  BY <1>1, ExecutePublishes, CommitPublishes DEF Work

(***************************************************************************)
(* A step adds the rows of one request, all of them, and removes none.     *)
(***************************************************************************)
THEOREM WholeAppearance == Spec => RowsAppearWhole
<1> DEFINE A == /\ table \subseteq table'
                /\ \A a, b \in table' \ table : a.req = b.req
                /\ \A a \in table' \ table : StoredOf(a.req)' = DOMAIN Items[a.req]
<1>1. ASSUME IInv, IInv', [Next]_vars PROVE A
  <2>1. CASE UNCHANGED table
    BY <2>1
  <2>2. ASSUME NEW r \in Request, Published(r) PROVE A
    <3>1. \A a \in table' \ table : a \in RowsOf[r]
      BY <2>2 DEF Published
    <3>2. \A a \in RowsOf[r] : a.req = r /\ a.idx \in DOMAIN Items[r]
      BY DEF RowsOf, RowFor
    <3>3. \A i \in DOMAIN Items[r] : RowFor(r, i) \in RowsOf[r] /\ RowFor(r, i).idx = i
      BY DEF RowsOf, RowFor
    <3>4. StoredOf(r)' = DOMAIN Items[r]
      BY <2>2, <3>2, <3>3 DEF Published, StoredOf
    <3> QED
      BY <2>2, <3>1, <3>2, <3>4 DEF Published
  <2> QED
    BY <1>1, <2>1, <2>2, TableSteps
<1>2. ASSUME IInv, IInv', [Next]_vars PROVE [A]_vars
  BY <1>1, <1>2
<1> QED
  BY <1>2, Invariant, PTL DEF Spec, RowsAppearWhole
=============================================================================
