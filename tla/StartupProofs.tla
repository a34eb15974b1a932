---------------------------- MODULE StartupProofs ----------------------------
(***************************************************************************)
(* Theorems about Startup, for any processes, migrations and crash points. *)
(***************************************************************************)
EXTENDS Startup, TLAPS

USE DEF Locked, Inserted, PC, Tables

(***************************************************************************)
(* TypeOK is not inductive: that version stays within 0..M depends on the  *)
(* lock, which keeps Force away from a process between Up's test and Mark. *)
(***************************************************************************)
Holding == \A p \in Proc : /\ pc[p] \in Locked <=> lock = p
                           /\ pc[p] = "mark" => version < M
                           /\ pc[p] \in {"apply", "clean"} => version > 0

Typed == TypeOK /\ Holding

LEMMA InitTyped == Init => Typed
<1> SUFFICES ASSUME Init PROVE TypeOK /\ Holding
  BY DEF Typed
<1>1. 0 \in 0..M /\ 0 \in 0..MaxCrashes
  BY StartupAssumption DEF StartupAssumption
<1>2. copies \in [Tables -> Nat]
  BY DEF Init
<1>3. Holding
  BY StartupAssumption DEF StartupAssumption, Init, Holding
<1> QED
  BY <1>1, <1>2, <1>3 DEF Init, TypeOK

LEMMA TypedStep == Typed /\ [Next]_vars => Typed'
<1> SUFFICES ASSUME TypeOK, Holding, [Next]_vars PROVE TypeOK' /\ Holding'
  BY DEF Typed
<1> USE StartupAssumption DEF StartupAssumption, TypeOK, Holding, Goto, Exit, schema, seed
<1>1. ASSUME NEW p \in Proc, Start(p) PROVE TypeOK' /\ Holding'
  BY <1>1 DEF Start
<1>2. ASSUME NEW p \in Proc, Stop(p) PROVE TypeOK' /\ Holding'
  BY <1>2 DEF Stop
<1>3. ASSUME NEW p \in Proc, Version(p) PROVE TypeOK' /\ Holding'
  BY <1>3 DEF Version
<1>4. ASSUME NEW p \in Proc, ForceVersion(p) PROVE TypeOK' /\ Holding'
  BY <1>4 DEF ForceVersion
<1>5. ASSUME NEW p \in Proc, Up(p) PROVE TypeOK' /\ Holding'
  BY <1>5 DEF Up
<1>6. ASSUME NEW p \in Proc, LockTimeout(p) PROVE TypeOK' /\ Holding'
  BY <1>6 DEF LockTimeout
<1>7. ASSUME NEW p \in Proc, Mark(p) PROVE TypeOK' /\ Holding'
  BY <1>7 DEF Mark
<1>8. ASSUME NEW p \in Proc, Apply(p) PROVE TypeOK' /\ Holding'
  <2>1. version \in Tables
    BY <1>8 DEF Apply
  <2>2. tables' \subseteq Tables
    BY <1>8, <2>1 DEF Apply
  <2> QED
    BY <1>8, <2>2 DEF Apply
<1>9. ASSUME NEW p \in Proc, Clean(p) PROVE TypeOK' /\ Holding'
  BY <1>9 DEF Clean
<1>10. ASSUME NEW p \in Proc, SeedCheck(p) PROVE TypeOK' /\ Holding'
  BY <1>10 DEF SeedCheck
<1>11. ASSUME NEW p \in Proc, InsertCountries(p) PROVE TypeOK' /\ Holding'
  BY <1>11 DEF InsertCountries
<1>12. ASSUME NEW p \in Proc, InsertRest(p) PROVE TypeOK' /\ Holding'
  BY <1>12 DEF InsertRest
<1>13. ASSUME NEW p \in Proc, CommitSeed(p) PROVE TypeOK' /\ Holding'
  <2>1. copies' \in [Tables -> Nat]
    BY <1>13 DEF CommitSeed, Publish
  <2> QED
    BY <1>13, <2>1 DEF CommitSeed
<1>14. ASSUME NEW p \in Proc, Crash(p) PROVE TypeOK' /\ Holding'
  <2>1. crashes' \in 0..MaxCrashes
    BY <1>14 DEF Crash
  <2>2. /\ tables' = tables \/ (version \in 1..M /\ tables' = tables \cup {version})
        /\ copies' \in [Tables -> Nat]
    BY <1>14 DEF Crash, Publish
  <2>3. pc' \in [Proc -> PC] /\ UNCHANGED <<seen, version, dirty>>
    BY <1>14 DEF Crash
  <2>4. lock' \in Proc \cup {None} /\ seeder' \in Proc \cup {None} /\ Holding'
    BY <1>14 DEF Crash
  <2> QED
    BY <2>1, <2>2, <2>3, <2>4
<1>15. ASSUME UNCHANGED vars PROVE TypeOK' /\ Holding'
  BY <1>15 DEF vars
<1> QED
  BY <1>1, <1>2, <1>3, <1>4, <1>5, <1>6, <1>7, <1>8, <1>9, <1>10, <1>11, <1>12, <1>13,
     <1>14, <1>15 DEF Next, Migrate, Seed

(***************************************************************************)
(* The version, the lock and the seed of Startup have their types.         *)
(***************************************************************************)
THEOREM TypeInvariant == Spec => []TypeOK
<1>1. Typed => TypeOK
  BY DEF Typed
<1> QED
  BY <1>1, InitTyped, TypedStep, PTL DEF Spec

-----------------------------------------------------------------------------
(***************************************************************************)
(* The seed.  One transaction at a time has inserted countries, it exists  *)
(* only while no copy is committed, and it reaches its COMMIT only over    *)
(* the whole schema: whatever the version says, a committed copy implies   *)
(* every table.                                                            *)
(***************************************************************************)
Seeded(n) == copies = [t \in Tables |-> n]

SeedInv == /\ Seeded(0) \/ (Seeded(1) /\ tables = Tables)
           /\ seeder # None => Seeded(0)
           /\ \A p \in Proc : /\ pc[p] \in Inserted <=> seeder = p
                              /\ pc[p] = "seedCommit" => tables = Tables
                              /\ p \in AutoMigrate /\ pc[p] = "serving" => Seeded(1)

LEMMA InitSeed == Init => SeedInv
  BY StartupAssumption DEF StartupAssumption, Init, SeedInv, Seeded

LEMMA CopyRead == /\ Seeded(0) => copies[1] = 0
                  /\ Seeded(1) => copies[1] = 1
  BY StartupAssumption DEF StartupAssumption, Seeded

LEMMA Published == Seeded(0) /\ Publish => Seeded(1)'
  BY DEF Seeded, Publish

(***************************************************************************)
(* No step takes a table away, and none adds one that is not in the list.  *)
(***************************************************************************)
LEMMA TablesGrow ==
    ASSUME Typed, [Next]_vars
    PROVE  tables \subseteq tables' /\ tables' \subseteq Tables
<1>1. \A p \in Proc : pc[p] = "apply" => version \in Tables
  BY StartupAssumption DEF StartupAssumption, Typed, TypeOK, Holding
<1>2. tables \subseteq Tables
  BY DEF Typed, TypeOK
<1> QED
  BY <1>1, <1>2 DEF Next, Migrate, Seed, Start, Stop, Version, ForceVersion, Up, LockTimeout, Mark,
     Apply, Clean, SeedCheck, InsertCountries, InsertRest, CommitSeed, Crash, schema, vars

LEMMA SeedStep == Typed /\ SeedInv /\ [Next]_vars => SeedInv'
<1> SUFFICES ASSUME Typed, SeedInv, [Next]_vars PROVE SeedInv'
  OBVIOUS
<1>t. TypeOK
  BY DEF Typed
<1>g. tables = Tables => tables' = Tables
  BY TablesGrow
<1>k. UNCHANGED copies => (Seeded(0)' <=> Seeded(0)) /\ (Seeded(1)' <=> Seeded(1))
  BY DEF Seeded
<1>c. (Seeded(0) => copies[1] = 0) /\ (Seeded(1) => copies[1] = 1)
  BY CopyRead
<1> USE <1>t, StartupAssumption DEF StartupAssumption, TypeOK, Goto, Exit, schema, seed, SeedInv
<1>1. ASSUME NEW p \in Proc, Start(p) \/ Stop(p) PROVE SeedInv'
  BY <1>1, <1>k DEF Start, Stop
<1>2. ASSUME NEW p \in Proc, Version(p) \/ ForceVersion(p) \/ Mark(p) \/ Clean(p) PROVE SeedInv'
  BY <1>2, <1>k DEF Version, ForceVersion, Mark, Clean
<1>3. ASSUME NEW p \in Proc, Up(p) \/ LockTimeout(p) PROVE SeedInv'
  BY <1>3, <1>k DEF Up, LockTimeout
<1>4. ASSUME NEW p \in Proc, Apply(p) PROVE SeedInv'
  BY <1>4, <1>k, <1>g DEF Apply
<1>5. ASSUME NEW p \in Proc, SeedCheck(p) PROVE SeedInv'
  BY <1>5, <1>k, <1>c DEF SeedCheck
<1>6. ASSUME NEW p \in Proc, InsertCountries(p) PROVE SeedInv'
  BY <1>6, <1>k, <1>c DEF InsertCountries
<1>7. ASSUME NEW p \in Proc, InsertRest(p) PROVE SeedInv'
  BY <1>7, <1>k DEF InsertRest
<1>8. ASSUME NEW p \in Proc, CommitSeed(p) PROVE SeedInv'
  <2>1. Seeded(0) /\ tables = Tables /\ seeder = p
    BY <1>8 DEF CommitSeed
  <2>2. Seeded(1)' /\ tables' = Tables /\ seeder' = None
    BY <1>8, <2>1, Published DEF CommitSeed
  <2>3. pc' = [pc EXCEPT ![p] = "serving"]
    BY <1>8 DEF CommitSeed
  <2> QED
    BY <2>1, <2>2, <2>3
<1>9. ASSUME NEW p \in Proc, Crash(p) PROVE SeedInv'
  <2>1. pc' = [pc EXCEPT ![p] = "stopped"] /\ seeder' = IF seeder = p THEN None ELSE seeder
    BY <1>9 DEF Crash
  <2>2. CASE UNCHANGED copies
    BY <2>1, <2>2, <1>k, <1>g
  <2>3. CASE pc[p] = "seedCommit" /\ Publish
    <3>1. Seeded(0) /\ tables = Tables /\ seeder = p
      BY <2>3
    <3>2. Seeded(1)' /\ tables' = Tables /\ seeder' = None
      BY <2>1, <2>3, <3>1, <1>g, Published
    <3> QED
      BY <2>1, <3>1, <3>2
  <2> QED
    BY <1>9, <2>2, <2>3 DEF Crash
<1>10. ASSUME UNCHANGED vars PROVE SeedInv'
  BY <1>10, <1>k DEF vars
<1> QED
  BY <1>1, <1>2, <1>3, <1>4, <1>5, <1>6, <1>7, <1>8, <1>9, <1>10 DEF Next, Migrate, Seed

LEMMA Invariant == Spec => [](Typed /\ SeedInv)
<1>1. Init => Typed /\ SeedInv
  BY InitTyped, InitSeed
<1>2. (Typed /\ SeedInv) /\ [Next]_vars => (Typed /\ SeedInv)'
  BY TypedStep, SeedStep
<1> QED
  BY <1>1, <1>2, PTL DEF Spec

(***************************************************************************)
(* However many processes seed, there is one copy of the seed or none.     *)
(***************************************************************************)
THEOREM OneSeed == Spec => []SeededOnce
<1>1. SeedInv => SeededOnce
  BY DEF SeedInv, Seeded, SeededOnce
<1> QED
  BY <1>1, Invariant, PTL

(***************************************************************************)
(* A process started with AUTO_MIGRATE serves over the whole schema, with  *)
(* the seed in it.                                                         *)
(***************************************************************************)
THEOREM Complete == Spec => []ServingComplete
<1>1. SeedInv => ServingComplete
  BY CopyRead, StartupAssumption DEF StartupAssumption, SeedInv, ServingComplete, Seeded
<1> QED
  BY <1>1, Invariant, PTL

(***************************************************************************)
(* Once the seed is in, no step changes the tables or the seed.            *)
(***************************************************************************)
THEOREM Stable == Spec => SeededIsStable
<1> DEFINE A == copies[1] > 0 => UNCHANGED <<tables, copies>>
<1>1. ASSUME Typed, SeedInv, [Next]_vars PROVE [A]_vars
  <2> SUFFICES ASSUME copies[1] > 0 PROVE UNCHANGED <<tables, copies>>
    OBVIOUS
  <2>1. Seeded(1) /\ tables = Tables /\ seeder = None
    BY <1>1, CopyRead DEF SeedInv
  <2>2. UNCHANGED tables
    BY <1>1, <2>1, TablesGrow DEF Typed, TypeOK
  <2>3. \A p \in Proc : pc[p] # "seedCommit"
    BY <1>1, <2>1, StartupAssumption DEF SeedInv, StartupAssumption
  <2>4. UNCHANGED copies
    BY <1>1, <2>3 DEF Next, Migrate, Seed, Start, Stop, Version, ForceVersion, Up, LockTimeout,
       Mark, Apply, Clean, SeedCheck, InsertCountries, InsertRest, CommitSeed, Crash, seed, vars
  <2> QED
    BY <2>2, <2>4
<1> QED
  BY <1>1, Invariant, PTL DEF Spec, SeededIsStable

-----------------------------------------------------------------------------
(***************************************************************************)
(* The version.  A dirty version whose table is missing has its migration  *)
(* running, under the lock, as long as nobody dies; so by the time that    *)
(* ForceVersion has the lock, the version it read is true again.           *)
(***************************************************************************)
Running(k) == \E q \in Proc : pc[q] = "apply" /\ version = k

Recorded == \A k \in 1..version : k \in tables \/ (dirty /\ k = version)

Remembered(p) == pc[p] = "force" => \A k \in 1..seen[p] : k \in tables \/ Running(k)

Truth == /\ Recorded
         /\ dirty /\ version \in Tables => version \in tables \/ Running(version)
         /\ \A p \in Proc : Remembered(p)

TruthInv == /\ crashes = 0 => Truth
            /\ \A p \in Proc : /\ pc[p] = "mark" => ~dirty
                               /\ pc[p] = "clean" => version \in tables

LEMMA InitTruth == Init => TruthInv
  BY StartupAssumption DEF StartupAssumption, Init, TruthInv, Truth, Recorded, Remembered

(***************************************************************************)
(* A step that leaves the version alone, and no migration unfinished,      *)
(* leaves Truth alone.                                                     *)
(***************************************************************************)
LEMMA TruthKept ==
    ASSUME Truth, UNCHANGED <<version, dirty, seen>>, tables \subseteq tables',
           NEW p \in Proc, NEW w, w # "force", pc[p] # "apply", pc' = [pc EXCEPT ![p] = w],
           pc \in [Proc -> PC]
    PROVE  Truth'
<1>1. \A k : Running(k) => Running(k)'
  BY DEF Running
<1>2. \A q \in Proc : pc'[q] = "force" => pc[q] = "force"
  OBVIOUS
<1> QED
  BY <1>1, <1>2 DEF Truth, Recorded, Remembered

LEMMA TruthStep == Typed /\ TruthInv /\ [Next]_vars => TruthInv'
<1> SUFFICES ASSUME TypeOK, Holding, TruthInv, [Next]_vars PROVE TruthInv'
  BY DEF Typed
<1>g. tables \subseteq tables' /\ tables' \subseteq Tables
  BY TablesGrow DEF Typed
<1> USE StartupAssumption DEF StartupAssumption, TypeOK, Holding, TruthInv, Goto, Exit, schema, seed
<1>1. ASSUME NEW p \in Proc, Start(p) \/ Stop(p) PROVE TruthInv'
  <2>1. PICK w \in PC \ {"force", "mark", "clean"} : pc' = [pc EXCEPT ![p] = w]
    BY <1>1 DEF Start, Stop
  <2>2. pc[p] # "apply" /\ UNCHANGED <<version, dirty, seen, crashes>>
    BY <1>1 DEF Start, Stop
  <2>3. Truth => Truth'
    BY <1>g, <2>1, <2>2, TruthKept
  <2> QED
    BY <1>g, <2>1, <2>2, <2>3
<1>2. ASSUME NEW p \in Proc, SeedCheck(p) \/ InsertCountries(p) \/ InsertRest(p) \/ CommitSeed(p)
      PROVE  TruthInv'
  <2>1. PICK w \in PC \ {"force", "mark", "clean"} : pc' = [pc EXCEPT ![p] = w]
    BY <1>2 DEF SeedCheck, InsertCountries, InsertRest, CommitSeed
  <2>2. pc[p] # "apply" /\ UNCHANGED <<version, dirty, seen, crashes>>
    BY <1>2 DEF SeedCheck, InsertCountries, InsertRest, CommitSeed
  <2>3. Truth => Truth'
    BY <1>g, <2>1, <2>2, TruthKept
  <2> QED
    BY <1>g, <2>1, <2>2, <2>3
<1>3. ASSUME NEW p \in Proc, Version(p) PROVE TruthInv'
  <2>1. UNCHANGED <<version, dirty, tables, crashes>>
    BY <1>3 DEF Version
  <2>2. CASE ~(dirty /\ version > 0)
    <3>1. pc' = [pc EXCEPT ![p] = "up"] /\ UNCHANGED seen /\ pc[p] # "apply"
      BY <1>3, <2>2 DEF Version
    <3>2. Truth => Truth'
      BY <2>1, <3>1, TruthKept
    <3> QED
      BY <2>1, <3>1, <3>2
  <2>3. CASE dirty /\ version > 0
    <3>1. seen' = [seen EXCEPT ![p] = version] /\ pc' = [pc EXCEPT ![p] = "force"]
      BY <1>3, <2>3 DEF Version
    <3>2. \A k : Running(k)' <=> Running(k)
      BY <1>3, <2>1, <3>1 DEF Version, Running
    <3>3. ASSUME Truth PROVE Truth'
      <4>1. Remembered(p)'
        BY <2>1, <2>3, <3>1, <3>2, <3>3 DEF Truth, Recorded, Remembered
      <4>2. \A q \in Proc \ {p} : Remembered(q)'
        BY <2>1, <3>1, <3>2, <3>3 DEF Truth, Remembered
      <4> QED
        BY <2>1, <3>2, <3>3, <4>1, <4>2 DEF Truth, Recorded
    <3> QED
      BY <2>1, <3>1, <3>3
  <2> QED
    BY <2>2, <2>3
<1>4. ASSUME NEW p \in Proc, ForceVersion(p) PROVE TruthInv'
  <2>1. /\ pc[p] = "force" /\ pc' = [pc EXCEPT ![p] = "up"]
        /\ version' = seen[p] /\ dirty' = FALSE /\ UNCHANGED <<seen, tables, crashes>>
    BY <1>4 DEF ForceVersion
  <2>2. \A q \in Proc : pc[q] \notin Locked
    BY <1>4 DEF ForceVersion
  <2>3. \A k : ~Running(k)
    BY <2>2 DEF Running
  <2>4. Truth => Truth'
    BY <2>1, <2>3 DEF Truth, Recorded, Remembered
  <2> QED
    BY <2>1, <2>2, <2>4
<1>5. ASSUME NEW p \in Proc, Up(p) \/ LockTimeout(p) PROVE TruthInv'
  <2>1. PICK w \in PC \ {"force", "clean"} : pc' = [pc EXCEPT ![p] = w] /\ (w = "mark" => ~dirty)
    BY <1>5 DEF Up, LockTimeout
  <2>2. pc[p] # "apply" /\ UNCHANGED <<version, dirty, seen, crashes>>
    BY <1>5 DEF Up, LockTimeout
  <2>3. Truth => Truth'
    BY <1>g, <2>1, <2>2, TruthKept
  <2> QED
    BY <1>g, <2>1, <2>2, <2>3
<1>6. ASSUME NEW p \in Proc, Mark(p) PROVE TruthInv'
  <2>1. /\ pc[p] = "mark" /\ pc' = [pc EXCEPT ![p] = "apply"] /\ ~dirty
        /\ version' = version + 1 /\ dirty' = TRUE /\ UNCHANGED <<seen, tables, crashes>>
    BY <1>6 DEF Mark
  <2>2. \A q \in Proc \ {p} : pc[q] \notin Locked
    BY <2>1
  <2>3. \A k : ~Running(k)
    BY <2>1, <2>2 DEF Running
  <2>4. Running(version)'
    BY <2>1 DEF Running
  <2>5. Truth => Truth'
    BY <2>1, <2>3, <2>4 DEF Truth, Recorded, Remembered
  <2> QED
    BY <2>1, <2>2, <2>5
<1>7. ASSUME NEW p \in Proc, Apply(p) PROVE TruthInv'
  <2>1. pc[p] = "apply" /\ version \in Tables /\ UNCHANGED <<seen, version, dirty, crashes>>
    BY <1>7 DEF Apply
  <2>2. \A q \in Proc \ {p} : pc[q] \notin Locked
    BY <2>1
  <2>3. Truth => version \in tables'
    <3>1. CASE Applicable
      BY <1>7, <3>1 DEF Apply
    <3>2. Truth /\ version \notin tables => Needs[version] \subseteq tables
      BY <2>1 DEF Truth, Recorded
    <3> QED
      BY <3>1, <3>2, <1>g DEF Applicable
  <2>4. \A k : Running(k) => k = version
    BY DEF Running
  <2>5. \E w \in {"clean", "stopped"} : pc' = [pc EXCEPT ![p] = w] /\ (w = "clean" => version \in tables')
    BY <1>7 DEF Apply
  <2>6. Truth => Truth'
    BY <1>g, <2>1, <2>3, <2>4, <2>5 DEF Truth, Recorded, Remembered
  <2> QED
    BY <2>1, <2>2, <2>5, <2>6
<1>8. ASSUME NEW p \in Proc, Clean(p) PROVE TruthInv'
  <2>1. /\ pc[p] = "clean" /\ version \in tables
        /\ dirty' = FALSE /\ UNCHANGED <<seen, version, tables, crashes>>
    BY <1>8 DEF Clean
  <2>2. \A q \in Proc \ {p} : pc[q] \notin Locked
    BY <2>1
  <2>3. \E w \in {"mark", "seed"} : pc' = [pc EXCEPT ![p] = w]
    BY <1>8 DEF Clean
  <2>4. \A k : ~Running(k)
    BY <2>1, <2>2 DEF Running
  <2>5. Truth => Truth'
    BY <2>1, <2>3, <2>4 DEF Truth, Recorded, Remembered
  <2> QED
    BY <2>1, <2>2, <2>3, <2>5
<1>9. ASSUME NEW p \in Proc, Crash(p) PROVE TruthInv'
  <2>1. crashes' # 0 /\ UNCHANGED <<version, dirty>> /\ pc' = [pc EXCEPT ![p] = "stopped"]
    BY <1>9 DEF Crash
  <2> QED
    BY <1>g, <2>1
<1>10. ASSUME UNCHANGED vars PROVE TruthInv'
  BY <1>10 DEF vars, Truth, Recorded, Remembered, Running
<1> QED
  BY <1>1, <1>2, <1>3, <1>4, <1>5, <1>6, <1>7, <1>8, <1>9, <1>10 DEF Next, Migrate, Seed

(***************************************************************************)
(* Without a crash the recorded version tells what is in the database,     *)
(* whatever version a racing process forces.                               *)
(***************************************************************************)
THEOREM Truthful == Spec => []VersionTruthful
<1>1. Init => Typed /\ TruthInv
  BY InitTyped, InitTruth
<1>2. (Typed /\ TruthInv) /\ [Next]_vars => (Typed /\ TruthInv)'
  BY TypedStep, TruthStep
<1>3. TruthInv => VersionTruthful
  BY DEF TruthInv, Truth, Recorded, VersionTruthful
<1> QED
  BY <1>1, <1>2, <1>3, PTL DEF Spec
=============================================================================
