--------------------------- MODULE RollbackProofs ---------------------------
(***************************************************************************)
(* Theorems about Rollback, for any processes, migrations, crash points    *)
(* and numbers of rollbacks and crashes.                                   *)
(***************************************************************************)
EXTENDS Rollback, TLAPS

USE DEF Locked, Inserted, PC, Tables, Backward

Lowering == {"downMark", "drop", "downClean"}

(***************************************************************************)
(* Types, and what keeps the version within them: a process that migrates  *)
(* or rolls back step by step holds the lock, so nobody else moves the     *)
(* version between its test and its mark.                                  *)
(***************************************************************************)
RTypes == /\ pc \in [Proc -> PC \cup Backward]
          /\ seen \in [Proc -> 0..M]
          /\ version \in 0..M /\ dirty \in BOOLEAN
          /\ lock \in Proc \cup {None} /\ seeder \in Proc \cup {None}
          /\ tables \subseteq Tables
          /\ crashes \in 0..MaxCrashes /\ rollbacks \in 0..MaxRollbacks
          /\ stale \in BOOLEAN

RHolding == \A p \in Proc : /\ pc[p] \in Locked \cup Lowering <=> lock = p
                            /\ pc[p] = "mark" => version < M
                            /\ pc[p] \in {"apply", "clean", "downMark"} => version > 0
                            /\ pc[p] \in {"drop", "downClean"} => version < M

RTyped == RTypes /\ RHolding

LEMMA RInitTyped == RInit => RTyped
<1> SUFFICES ASSUME RInit PROVE RTypes /\ RHolding
  BY DEF RTyped
<1>1. 0 \in 0..M /\ 0 \in 0..MaxCrashes /\ 0 \in 0..MaxRollbacks
  BY StartupAssumption, RollbackAssumption DEF StartupAssumption, RollbackAssumption
<1>2. RHolding
  BY StartupAssumption DEF StartupAssumption, RInit, Init, RHolding, Lowering
<1> QED
  BY <1>1, <1>2 DEF RInit, Init, RTypes

(***************************************************************************)
(* A process that exits, or dies, gives the lock back.                     *)
(***************************************************************************)
LEMMA ExitKeeps ==
    ASSUME RTypes, RHolding, NEW p \in Proc, Exit(p), UNCHANGED <<seen, version, dirty>>
    PROVE  /\ pc' \in [Proc -> PC \cup Backward] /\ seen' \in [Proc -> 0..M]
           /\ version' \in 0..M /\ dirty' \in BOOLEAN
           /\ lock' \in Proc \cup {None} /\ seeder' \in Proc \cup {None}
           /\ RHolding'
  BY StartupAssumption DEF StartupAssumption, RTypes, RHolding, Lowering, Goto, Exit

LEMMA RTypedStep == RTyped /\ [RNext]_rvars => RTyped'
<1> SUFFICES ASSUME RTypes, RHolding, [RNext]_rvars PROVE RTypes' /\ RHolding'
  BY DEF RTyped
<1> USE StartupAssumption, RollbackAssumption
    DEF StartupAssumption, RollbackAssumption, RTypes, RHolding, Lowering, Goto, Exit, Remember, schema, seed
<1>1. ASSUME NEW p \in Proc, Forward(p) PROVE RTypes' /\ RHolding'
  <2>1. rollbacks' = rollbacks /\ stale' \in BOOLEAN
    BY <1>1 DEF Forward
  <2>2. CASE Start(p) \/ Stop(p)
    BY <2>1, <2>2 DEF Start, Stop
  <2>3. CASE Version(p)
    BY <2>1, <2>3 DEF Version
  <2>4. CASE ForceVersion(p)
    BY <2>1, <2>4 DEF ForceVersion
  <2>5. CASE Up(p) \/ LockTimeout(p)
    <3>1. CASE Up(p)
      BY <2>1, <3>1 DEF Up
    <3>2. CASE LockTimeout(p)
      BY <2>1, <3>2 DEF LockTimeout
    <3> QED
      BY <2>5, <3>1, <3>2
  <2>6. CASE Mark(p)
    BY <2>1, <2>6 DEF Mark
  <2>10. CASE Clean(p)
    BY <2>1, <2>10 DEF Clean
  <2>7. CASE Apply(p)
    <3>1. version \in Tables
      BY <2>7 DEF Apply
    <3>2. tables' \subseteq Tables
      BY <2>7, <3>1 DEF Apply
    <3> QED
      BY <2>1, <2>7, <3>2 DEF Apply
  <2>8. CASE Seed(p)
    <3>1. CASE SeedCheck(p)
      BY <2>1, <3>1 DEF SeedCheck
    <3>2. CASE InsertCountries(p)
      BY <2>1, <3>2 DEF InsertCountries
    <3>3. CASE InsertRest(p)
      BY <2>1, <3>3 DEF InsertRest
    <3>4. CASE CommitSeed(p)
      BY <2>1, <3>4 DEF CommitSeed
    <3> QED
      BY <2>8, <3>1, <3>2, <3>3, <3>4 DEF Seed
  <2>9. CASE Crash(p)
    <3>1. crashes' \in 0..MaxCrashes
      BY <2>9 DEF Crash
    <3>2. tables' = tables \/ (version \in 1..M /\ tables' = tables \cup {version})
      BY <2>9 DEF Crash
    <3>3. UNCHANGED <<seen, version, dirty>>
      BY <2>9 DEF Crash
    <3>4. pc' \in [Proc -> PC \cup Backward] /\ lock' \in Proc \cup {None}
          /\ seeder' \in Proc \cup {None} /\ RHolding'
      BY <2>9 DEF Crash
    <3> QED
      BY <2>1, <3>1, <3>2, <3>3, <3>4
  <2> QED
    BY <1>1, <2>2, <2>3, <2>4, <2>5, <2>6, <2>7, <2>8, <2>9, <2>10 DEF Forward, Migrate
<1>2. ASSUME NEW p \in Proc, Call(p) PROVE RTypes' /\ RHolding'
  BY <1>2 DEF Call
<1>3. ASSUME NEW p \in Proc, RollbackMigrations(p) PROVE RTypes' /\ RHolding'
  <2>1. CASE RbVersion(p)
    BY <2>1 DEF RbVersion
  <2>2. CASE RbForce(p)
    BY <2>2 DEF RbForce
  <2>3. CASE Down(p) \/ DownTimeout(p)
    BY <2>3 DEF Down, DownTimeout
  <2>4. CASE DownMark(p)
    BY <2>4 DEF DownMark
  <2>5. CASE DropTable(p)
    <3>1. CASE Dropped \in tables /\ Referenced
      <4>1. Exit(p) /\ UNCHANGED <<seen, version, dirty, tables, crashes, rollbacks, stale>>
        BY <2>5, <3>1 DEF DropTable
      <4>2. UNCHANGED tables /\ UNCHANGED crashes /\ UNCHANGED rollbacks /\ UNCHANGED stale
        BY <4>1
      <4> QED
        BY <4>1, <4>2, ExitKeeps
    <3>2. CASE ~(Dropped \in tables /\ Referenced)
      <4>1. tables' \subseteq Tables
        BY <2>5, <3>2 DEF DropTable
      <4>2. pc' = [pc EXCEPT ![p] = "downClean"] /\ pc[p] = "drop"
        BY <2>5, <3>2 DEF DropTable
      <4>3. UNCHANGED lock /\ UNCHANGED seeder /\ UNCHANGED seen /\ UNCHANGED version /\ UNCHANGED dirty
            /\ UNCHANGED crashes /\ UNCHANGED rollbacks /\ UNCHANGED stale
        BY <2>5, <3>2 DEF DropTable
      <4>4. RHolding'
        BY <4>2, <4>3
      <4> QED
        BY <4>1, <4>2, <4>3, <4>4
    <3> QED
      BY <3>1, <3>2
  <2>6. CASE DownClean(p)
    BY <2>6 DEF DownClean
  <2> QED
    BY <1>3, <2>1, <2>2, <2>3, <2>4, <2>5, <2>6 DEF RollbackMigrations
<1>4. ASSUME NEW p \in Proc, DownCrash(p) PROVE RTypes' /\ RHolding'
  <2>3. crashes' \in 0..MaxCrashes
    BY <1>4 DEF DownCrash
  <2>4. tables' \subseteq tables
    BY <1>4 DEF DownCrash
  <2>1. crashes' \in 0..MaxCrashes /\ tables' \subseteq Tables
    BY <2>3, <2>4
  <2>2. UNCHANGED rollbacks /\ UNCHANGED stale /\ UNCHANGED <<seen, version, dirty>>
    BY <1>4 DEF DownCrash
  <2> QED
    BY <1>4, <2>1, <2>2, ExitKeeps DEF DownCrash
<1>5. ASSUME NEW p \in Proc, NEW q \in Proc, Deadlock(p, q) PROVE RTypes' /\ RHolding'
  <2>1. crashes' \in 0..MaxCrashes /\ tables' \subseteq Tables
    BY <1>5 DEF Deadlock
  <2>2. UNCHANGED rollbacks /\ UNCHANGED stale /\ UNCHANGED <<seen, version, dirty>>
    BY <1>5 DEF Deadlock
  <2> QED
    BY <1>5, <2>1, <2>2, ExitKeeps DEF Deadlock
<1>6. ASSUME UNCHANGED rvars PROVE RTypes' /\ RHolding'
  BY <1>6 DEF rvars, vars
<1> QED
  BY <1>1, <1>2, <1>3, <1>4, <1>5, <1>6 DEF RNext

-----------------------------------------------------------------------------
(***************************************************************************)
(* The seed.  Beside the seeder of Startup there is now a process that     *)
(* empties tables.  countries goes last, as all but payment_methods refer  *)
(* to it: a seed that is left in any of those is left in countries, too.   *)
(***************************************************************************)
NoCopy == copies = [t \in Tables |-> 0]

RSeedInv == /\ copies \in [Tables -> 0..1]
            /\ \A t \in Tables \ tables : copies[t] = 0
            /\ \A k \in 3..M : copies[k] # 0 => copies[1] # 0
            /\ seeder # None => copies[1] = 0
            /\ \A p \in Proc : /\ pc[p] \in Inserted <=> seeder = p
                               /\ pc[p] = "seedCommit" => tables = Tables /\ NoCopy

LEMMA RInitSeed == RInit => RSeedInv
  BY StartupAssumption DEF StartupAssumption, RInit, Init, RSeedInv, NoCopy

(***************************************************************************)
(* A seed that has inserted countries and payment_methods inserts into     *)
(* empty tables.                                                           *)
(***************************************************************************)
LEMMA FreshSeed ==
    ASSUME RSeedInv, copies[1] = 0, \A t \in Tables \cap {2} : copies[t] = 0
    PROVE  NoCopy
<1>1. \A t \in Tables : t = 1 \/ t = 2 \/ t \in 3..M
  BY StartupAssumption DEF StartupAssumption
<1>2. \A t \in Tables : copies[t] = 0
  BY <1>1 DEF RSeedInv
<1> QED
  BY <1>2 DEF RSeedInv, NoCopy

(***************************************************************************)
(* The COMMIT of the seed makes one copy in every table.                   *)
(***************************************************************************)
LEMMA SeedPublished ==
    ASSUME NoCopy, Publish
    PROVE  copies' = [t \in Tables |-> 1]
  BY DEF NoCopy, Publish

(***************************************************************************)
(* DROP TABLE keeps what the seed needs.                                   *)
(***************************************************************************)
LEMMA DropKeeps ==
    ASSUME RTypes, RSeedInv, version < M, ~MustWait, ~(Dropped \in tables /\ Referenced),
           tables' = tables \ {Dropped}, copies' = [copies EXCEPT ![Dropped] = 0]
    PROVE  /\ copies' \in [Tables -> 0..1]
           /\ \A t \in Tables \ tables' : copies'[t] = 0
           /\ \A k \in 3..M : copies'[k] # 0 => copies'[1] # 0
           /\ copies[1] = 0 => copies'[1] = 0
           /\ NoCopy => NoCopy'
<1>1. Dropped \in Tables /\ 1 \in Tables /\ 3..M \subseteq Tables
  BY StartupAssumption DEF StartupAssumption, RTypes, Dropped
<1>2. copies' \in [Tables -> 0..1] /\ \A t \in Tables : copies'[t] = IF t = Dropped THEN 0 ELSE copies[t]
  BY <1>1 DEF RSeedInv
<1>3. \A t \in Tables \ tables' : copies'[t] = 0
  BY <1>2 DEF RSeedInv
<1>4. ASSUME NEW k \in 3..M, copies'[k] # 0 PROVE copies'[1] # 0
  <2>1. k # Dropped /\ copies[k] # 0 /\ k \in tables
    BY <1>1, <1>2, <1>4 DEF RSeedInv
  <2>2. copies[1] # 0 /\ 1 \in tables /\ 1 \in Needs[k]
    BY <1>1, <2>1, RollbackAssumption DEF RSeedInv, RollbackAssumption
  <2>3. Dropped # 1
    BY <2>1, <2>2 DEF Referenced
  <2> QED
    BY <1>1, <1>2, <2>2, <2>3
<1>5. NoCopy => NoCopy'
  BY <1>1, <1>2 DEF NoCopy
<1> QED
  BY <1>1, <1>2, <1>3, <1>4, <1>5

LEMMA RSeedStep == RTyped /\ RSeedInv /\ [RNext]_rvars => RSeedInv'
<1> SUFFICES ASSUME RTyped, RSeedInv, [RNext]_rvars PROVE RSeedInv'
  OBVIOUS
<1>t. RTypes /\ 1 \in Tables
  BY StartupAssumption DEF StartupAssumption, RTyped
<1>v. \A p \in Proc : pc[p] = "apply" => version \in Tables
  BY StartupAssumption DEF StartupAssumption, RTyped, RTypes, RHolding
<1>k. UNCHANGED copies => (NoCopy <=> NoCopy')
  BY DEF NoCopy
<1> USE <1>t, StartupAssumption DEF StartupAssumption, RTypes, Goto, Exit, schema, seed, RSeedInv
<1>1. ASSUME NEW p \in Proc, Forward(p) PROVE RSeedInv'
  <2>1. CASE Start(p) \/ Stop(p)
    BY <2>1, <1>k DEF Start, Stop
  <2>2. CASE Version(p) \/ ForceVersion(p)
    BY <2>2, <1>k DEF Version, ForceVersion
  <2>3. CASE Up(p) \/ LockTimeout(p)
    BY <2>3, <1>k DEF Up, LockTimeout
  <2>4. CASE Mark(p) \/ Clean(p)
    BY <2>4, <1>k DEF Mark, Clean
  <2>5. CASE Apply(p)
    <3>1. tables \subseteq tables' /\ (tables = Tables => tables' = Tables)
      BY <2>5, <1>v DEF Apply
    <3> QED
      BY <2>5, <3>1, <1>k DEF Apply
  <2>6. CASE SeedCheck(p)
    BY <2>6, <1>k DEF SeedCheck
  <2>7. CASE InsertCountries(p)
    BY <2>7, <1>k DEF InsertCountries
  <2>8. CASE InsertRest(p)
    BY <2>8, <1>k, FreshSeed DEF InsertRest
  <2>9. CASE CommitSeed(p)
    <3>1. NoCopy /\ tables = Tables /\ tables' = Tables /\ seeder = p /\ seeder' = None
      BY <2>9 DEF CommitSeed
    <3>2. copies' = [t \in Tables |-> 1]
      BY <2>9, <3>1, SeedPublished DEF CommitSeed
    <3>3. pc' = [pc EXCEPT ![p] = "serving"]
      BY <2>9 DEF CommitSeed
    <3> QED
      BY <3>1, <3>2, <3>3
  <2>10. CASE Crash(p)
    <3>1. pc' = [pc EXCEPT ![p] = "stopped"] /\ seeder' = IF seeder = p THEN None ELSE seeder
      BY <2>10 DEF Crash
    <3>2. tables \subseteq tables' /\ (tables = Tables => tables' = Tables)
      BY <2>10, <1>v DEF Crash, Applicable
    <3>3. CASE UNCHANGED copies
      BY <3>1, <3>2, <3>3, <1>k
    <3>4. CASE pc[p] = "seedCommit" /\ Publish
      <4>1. NoCopy /\ tables = Tables /\ seeder = p /\ seeder' = None
        BY <3>1, <3>4
      <4>2. copies' = [t \in Tables |-> 1]
        BY <3>4, <4>1, SeedPublished
      <4> QED
        BY <3>1, <3>2, <4>1, <4>2
    <3> QED
      BY <2>10, <3>3, <3>4 DEF Crash
  <2> QED
    BY <1>1, <2>1, <2>2, <2>3, <2>4, <2>5, <2>6, <2>7, <2>8, <2>9, <2>10 DEF Forward, Migrate, Seed
<1>2. ASSUME NEW p \in Proc, Call(p) PROVE RSeedInv'
  BY <1>2, <1>k DEF Call
<1>3. ASSUME NEW p \in Proc, pc[p] = "drop", ~MustWait, ~(Dropped \in tables /\ Referenced),
             tables' = tables \ {Dropped}, copies' = [copies EXCEPT ![Dropped] = 0],
             NEW w \in {"downClean", "stopped"}, Goto(p, w), UNCHANGED seeder
      PROVE  RSeedInv'
  <2>1. version < M
    BY <1>3 DEF RTyped, RHolding
  <2>2. /\ copies' \in [Tables -> 0..1]
        /\ \A t \in Tables \ tables' : copies'[t] = 0
        /\ \A k \in 3..M : copies'[k] # 0 => copies'[1] # 0
        /\ copies[1] = 0 => copies'[1] = 0
        /\ NoCopy => NoCopy'
    BY <1>3, <2>1, DropKeeps
  <2>3. \A r \in Proc : pc[r] # "seedCommit"
    BY <1>3 DEF MustWait
  <2> QED
    BY <1>3, <2>2, <2>3
<1>4. ASSUME NEW p \in Proc, RollbackMigrations(p) PROVE RSeedInv'
  <2>1. CASE RbVersion(p) \/ RbForce(p)
    BY <2>1, <1>k DEF RbVersion, RbForce
  <2>2. CASE Down(p) \/ DownTimeout(p)
    BY <2>2, <1>k DEF Down, DownTimeout
  <2>3. CASE DownMark(p) \/ DownClean(p)
    BY <2>3, <1>k DEF DownMark, DownClean
  <2>4. CASE DropTable(p)
    <3>1. CASE Dropped \in tables /\ Referenced
      BY <2>4, <3>1, <1>k DEF DropTable
    <3>2. CASE ~(Dropped \in tables /\ Referenced)
      BY <2>4, <3>2, <1>3 DEF DropTable
    <3> QED
      BY <3>1, <3>2
  <2> QED
    BY <1>4, <2>1, <2>2, <2>3, <2>4 DEF RollbackMigrations
<1>5. ASSUME NEW p \in Proc, DownCrash(p) PROVE RSeedInv'
  <2>1. pc[p] \notin Inserted /\ seeder' = seeder /\ Goto(p, "stopped")
    BY <1>5 DEF DownCrash
  <2>2. CASE UNCHANGED <<tables, copies>>
    BY <2>1, <2>2, <1>k
  <2>3. CASE ~UNCHANGED <<tables, copies>>
    BY <1>5, <2>1, <2>3, <1>3 DEF DownCrash
  <2> QED
    BY <2>2, <2>3
<1>6. ASSUME NEW p \in Proc, NEW q \in Proc, Deadlock(p, q) PROVE RSeedInv'
  BY <1>6, <1>k DEF Deadlock
<1>7. ASSUME UNCHANGED rvars PROVE RSeedInv'
  BY <1>7, <1>k DEF rvars, vars
<1> QED
  BY <1>1, <1>2, <1>4, <1>5, <1>6, <1>7 DEF RNext

(***************************************************************************)
(* Whatever rolls back, migrates, seeds or dies at the same time, the      *)
(* version stays within the migrations, no table is seeded twice, and a    *)
(* table that is not there holds no seed.                                  *)
(***************************************************************************)
THEOREM RollbackTypes == RSpec => []RTypeOK
<1>1. RInit => RTyped /\ RSeedInv
  BY RInitTyped, RInitSeed
<1>2. (RTyped /\ RSeedInv) /\ [RNext]_rvars => (RTyped /\ RSeedInv)'
  BY RTypedStep, RSeedStep
<1>3. RTyped /\ RSeedInv => RTypeOK
  BY DEF RTyped, RTypes, RSeedInv, RTypeOK
<1> QED
  BY <1>1, <1>2, <1>3, PTL DEF RSpec
-----------------------------------------------------------------------------
(***************************************************************************)
(* What the recorded version says of the tables, on the way up and down:   *)
(* none is above it, but for the one that is about to be dropped.  Without *)
(* crashes no file to drop a table is refused, as nothing above it refers  *)
(* to it; and a version that is forced is the one recorded.                *)
(***************************************************************************)
Dropping == \E p \in Proc : pc[p] = "drop"
Above == tables \subseteq 1..(IF Dropping THEN version + 1 ELSE version)
AboveInv == crashes = 0 /\ ~stale => Above

LEMMA RInitAbove == RInit => AboveInv
  BY DEF RInit, Init, AboveInv, Above

(***************************************************************************)
(* Steps that change neither the version nor who is dropping.              *)
(***************************************************************************)
LEMMA AboveKept ==
    ASSUME RTypes, Above, version' = version, tables' \subseteq tables, Dropping => Dropping'
    PROVE  Above'
<1>1. version \in Nat
  BY StartupAssumption DEF StartupAssumption, RTypes
<1> QED
  BY <1>1 DEF Above

(***************************************************************************)
(* A process may only leave "drop" for good if it has dropped.             *)
(***************************************************************************)
LEMMA NotRefused ==
    ASSUME RTypes, Above, NEW p \in Proc, pc[p] = "drop"
    PROVE  ~Referenced
<1>1. version \in Nat /\ tables \subseteq 1..(version + 1) /\ tables \subseteq 1..M
  BY StartupAssumption DEF StartupAssumption, RTypes, Above, Dropping
<1>2. ASSUME NEW k \in tables, Dropped \in Needs[k] PROVE FALSE
  <2>1. k \in 1..M /\ k <= version + 1
    BY <1>1
  <2>2. Needs[k] \subseteq 1..(k - 1)
    BY <2>1, StartupAssumption DEF StartupAssumption
  <2> QED
    BY <1>1, <1>2, <2>1, <2>2 DEF Dropped
<1> QED
  BY <1>2 DEF Referenced

LEMMA AboveStep == RTyped /\ AboveInv /\ [RNext]_rvars => AboveInv'
<1> SUFFICES ASSUME RTypes, RHolding, AboveInv, [RNext]_rvars, crashes' = 0, ~stale' PROVE Above'
  BY DEF RTyped, AboveInv
<1>1. version \in Nat /\ M \in Nat /\ crashes \in Nat
  BY StartupAssumption DEF StartupAssumption, RTypes
<1>2. crashes = 0 => crashes' = crashes
  OBVIOUS
<1>3. \A p, q \in Proc : pc[p] \in Locked \cup Lowering /\ pc[q] \in Locked \cup Lowering => p = q
  BY DEF RHolding
<1>4. \A p \in Proc : lock = None => pc[p] \notin Locked \cup Lowering
  BY StartupAssumption DEF StartupAssumption, RHolding
<1>5. ASSUME Above, NEW p \in Proc, pc[p] # "drop", NEW w, Goto(p, w),
             version' = version, tables' \subseteq tables
      PROVE  Above'
  <2>1. Dropping => Dropping'
    BY <1>5 DEF Dropping, Goto, RTypes
  <2> QED
    BY <1>5, <2>1, AboveKept
<1>6. ASSUME NEW p \in Proc, Forward(p) PROVE Above'
  <2>1. ~stale
    BY <1>6 DEF Forward, Remember
  <2>2. crashes = 0 /\ ~Crash(p)
    BY <1>1, <1>6 DEF Forward, Start, Stop, Migrate, Version, ForceVersion, Up, LockTimeout, Mark,
       Apply, Clean, Seed, SeedCheck, InsertCountries, InsertRest, CommitSeed, Crash, schema, seed
  <2>3. Above
    BY <2>1, <2>2 DEF AboveInv
  <2>4. CASE Start(p) \/ Stop(p) \/ Version(p) \/ Up(p) \/ LockTimeout(p) \/ Clean(p) \/ Seed(p)
    <3>1. version' = version /\ tables' = tables /\ pc[p] # "drop" /\ \E w : Goto(p, w)
      BY <2>4 DEF Start, Stop, Version, Up, LockTimeout, Clean, Seed, SeedCheck, InsertCountries,
         InsertRest, CommitSeed, Exit, schema, seed
    <3> QED
      BY <1>5, <2>3, <3>1
  <2>5. CASE ForceVersion(p)
    <3>1. dirty /\ version = seen[p]
      BY <1>6, <2>5 DEF Forward, Remember
    <3>2. version' = version /\ tables' = tables /\ Goto(p, "up") /\ pc[p] # "drop"
      BY <2>5, <3>1 DEF ForceVersion
    <3> QED
      BY <1>5, <2>3, <3>2
  <2>6. CASE Mark(p)
    <3>1. version' = version + 1 /\ tables' = tables /\ pc[p] = "mark"
      BY <2>6 DEF Mark
    <3>2. ~Dropping
      BY <1>3, <3>1 DEF Dropping, Lowering
    <3> QED
      BY <1>1, <2>3, <3>1, <3>2 DEF Above
  <2>7. CASE Apply(p)
    <3>1. /\ version' = version /\ pc[p] = "apply" /\ \E w : Goto(p, w)
          /\ tables' = tables \/ tables' = tables \cup {version}
      BY <2>7 DEF Apply, Exit
    <3>2. ~Dropping /\ version > 0
      BY <1>3, <3>1 DEF Dropping, Lowering, RHolding
    <3>3. tables \cup {version} \subseteq 1..version
      BY <1>1, <2>3, <3>2 DEF Above
    <3>4. tables' \subseteq 1..version'
      BY <3>1, <3>3
    <3>5. 1..version' \subseteq 1..(version' + 1)
      BY <1>1, <3>1
    <3> QED
      BY <3>4, <3>5 DEF Above
  <2> QED
    BY <1>6, <2>2, <2>4, <2>5, <2>6, <2>7 DEF Forward, Migrate
<1>7. ASSUME NEW p \in Proc, Call(p) PROVE Above'
  <2>1. version' = version /\ tables' = tables /\ crashes' = crashes /\ stale' = stale
        /\ pc[p] # "drop" /\ Goto(p, "rbVersion")
    BY <1>7 DEF Call, schema
  <2> QED
    BY <1>5, <2>1 DEF AboveInv
<1>8. ASSUME NEW p \in Proc, RollbackMigrations(p) PROVE Above'
  <2>1. crashes = 0 /\ ~stale
    <3>1. CASE RbForce(p)
      BY <3>1 DEF RbForce, Remember
    <3>2. CASE RbVersion(p) \/ Down(p) \/ DownTimeout(p)
      BY <3>2 DEF RbVersion, Down, DownTimeout
    <3>3. CASE DownMark(p) \/ DropTable(p) \/ DownClean(p)
      BY <3>3 DEF DownMark, DropTable, DownClean
    <3> QED
      BY <1>8, <3>1, <3>2, <3>3 DEF RollbackMigrations
  <2>2. Above
    BY <2>1 DEF AboveInv
  <2>3. CASE RbVersion(p) \/ Down(p) \/ DownTimeout(p) \/ DownClean(p)
    <3>1. version' = version /\ tables' = tables /\ pc[p] # "drop" /\ \E w : Goto(p, w)
      BY <2>3 DEF RbVersion, Down, DownTimeout, DownClean, Exit, schema
    <3> QED
      BY <1>5, <2>2, <3>1
  <2>4. CASE RbForce(p)
    <3>1. version' = version /\ tables' = tables /\ pc[p] # "drop" /\ Goto(p, "down")
      BY <2>4 DEF RbForce, Remember
    <3> QED
      BY <1>5, <2>2, <3>1
  <2>5. CASE DownMark(p)
    <3>1. version' = version - 1 /\ tables' = tables /\ pc[p] = "downMark" /\ pc'[p] = "drop"
      BY <2>5 DEF DownMark, Goto, RTypes
    <3>2. ~Dropping /\ Dropping'
      BY <1>3, <3>1 DEF Dropping, Lowering
    <3> QED
      BY <1>1, <2>2, <3>1, <3>2 DEF Above
  <2>6. CASE DropTable(p)
    <3>1. pc[p] = "drop" /\ ~Referenced
      BY <2>2, <2>6, NotRefused DEF DropTable
    <3>2. tables' = tables \ {version + 1} /\ version' = version
      BY <2>6, <3>1 DEF DropTable, Dropped
    <3> QED
      BY <1>1, <2>2, <3>2 DEF Above
  <2> QED
    BY <1>8, <2>3, <2>4, <2>5, <2>6 DEF RollbackMigrations
<1>9. ASSUME NEW p \in Proc, DownCrash(p) PROVE FALSE
  BY <1>1, <1>9 DEF DownCrash
<1>10. ASSUME NEW p \in Proc, NEW q \in Proc, Deadlock(p, q) PROVE FALSE
  BY <1>1, <1>10 DEF Deadlock
<1>11. ASSUME UNCHANGED rvars PROVE Above'
  BY <1>11 DEF rvars, vars, schema, AboveInv, Above, Dropping
<1> QED
  BY <1>6, <1>7, <1>8, <1>9, <1>10, <1>11 DEF RNext

(***************************************************************************)
(* A call of RollbackMigrations that returns nil.                          *)
(***************************************************************************)
LEMMA ReturnsEmpty ==
    ASSUME RTyped, AboveInv, [RNext]_rvars, NEW p \in Proc, Returns(p), crashes = 0, ~stale
    PROVE  tables' = {}
<1>1. Above /\ version \in Nat /\ RTypes /\ RHolding
  BY StartupAssumption DEF StartupAssumption, AboveInv, RTyped, RTypes
<1>2. pc[p] \in {"down", "downClean"} /\ pc'[p] = "stopped" /\ crashes' = crashes
      /\ (pc[p] = "down" => lock = None /\ ~dirty)
  BY DEF Returns
<1>3. Down(p) \/ DownClean(p)
  <2>1. ASSUME NEW q \in Proc, NEW w, Goto(q, w) PROVE q = p
    BY <1>1, <1>2, <2>1 DEF Goto, RTypes
  <2>2. ASSUME NEW q \in Proc, Forward(q) PROVE FALSE
    <3>1. (\E w : Goto(q, w)) /\ pc[q] \notin Backward /\ ~Crash(q)
      BY <1>1, <1>2, <2>2 DEF Forward, Start, Stop, Migrate, Version, ForceVersion, Up, LockTimeout, Mark,
         Apply, Clean, Seed, SeedCheck, InsertCountries, InsertRest, CommitSeed, Crash, Exit, RTypes
    <3> QED
      BY <1>2, <2>1, <3>1
  <2>3. ASSUME NEW q \in Proc, Call(q) PROVE FALSE
    BY <1>2, <2>1, <2>3 DEF Call
  <2>4. ASSUME NEW q \in Proc, RollbackMigrations(q) PROVE Down(p) \/ DownClean(p)
    <3>1. \E w : Goto(q, w)
      BY <2>4 DEF RollbackMigrations, RbVersion, RbForce, Down, DownTimeout, DownMark, DropTable, DownClean, Exit
    <3>2. q = p
      BY <2>1, <3>1
    <3> QED
      BY <1>2, <2>4, <3>2 DEF RollbackMigrations, RbVersion, RbForce, DownTimeout, DownMark, DropTable
  <2>5. ASSUME NEW q \in Proc, DownCrash(q) PROVE FALSE
    BY <1>1, <1>2, <2>5 DEF DownCrash, RTypes
  <2>6. ASSUME NEW q \in Proc, NEW r \in Proc, Deadlock(q, r) PROVE FALSE
    BY <1>1, <1>2, <2>6 DEF Deadlock, RTypes
  <2>7. ~UNCHANGED rvars
    BY <1>2 DEF rvars, vars
  <2> QED
    BY <2>2, <2>3, <2>4, <2>5, <2>6, <2>7 DEF RNext
<1>4. version = 0 /\ tables' = tables
  BY <1>1, <1>2, <1>3 DEF Down, DownClean, Goto, RTypes
<1>5. ~Dropping
  BY <1>1, <1>2, StartupAssumption DEF StartupAssumption, Dropping, RHolding, Lowering
<1> QED
  BY <1>1, <1>4, <1>5 DEF Above

(***************************************************************************)
(* "all migrations rolled back": with any number of migrations, and other  *)
(* processes migrating, seeding and rolling back at the same time, a call  *)
(* of RollbackMigrations that returns nil leaves no table behind, unless   *)
(* somebody died or forced the version of a process still at work.         *)
(***************************************************************************)
THEOREM RolledBackCleanHolds == RSpec => RolledBackClean
<1>1. RInit => RTyped /\ AboveInv
  BY RInitTyped, RInitAbove
<1>2. (RTyped /\ AboveInv) /\ [RNext]_rvars => (RTyped /\ AboveInv)'
  BY RTypedStep, AboveStep
<1>3. (RTyped /\ AboveInv) /\ [RNext]_rvars =>
          [\A p \in Proc : Returns(p) /\ crashes = 0 /\ ~stale => tables' = {}]_rvars
  BY ReturnsEmpty
<1> QED
  BY <1>1, <1>2, <1>3, PTL DEF RSpec, RolledBackClean
-----------------------------------------------------------------------------
(***************************************************************************)
(* The tables that exist are those up to the recorded version, but for the *)
(* one a process is creating or dropping; without crashes and forced       *)
(* versions nobody stops between the ends, so whoever takes the lock finds *)
(* all tables or none.  A database on its way up is therefore empty, one   *)
(* on its way down loses its tables from the top, and the seed is whole in *)
(* those that are left.                                                    *)
(***************************************************************************)
Exact == /\ \A p \in Proc : /\ pc[p] = "apply" => tables = 1..(version - 1)
                            /\ pc[p] = "drop" => tables = 1..(version + 1)
         /\ (\A p \in Proc : pc[p] \notin {"apply", "drop"}) => tables = 1..version

AtTheEnds == lock = None => version \in {0, M}
EmptyOnTheWayUp == (\E p \in Proc : pc[p] \in Locked) /\ tables # Tables => NoCopy
Filled == \A t \in tables : copies[t] = copies[1]

Whole == Exact /\ AtTheEnds /\ EmptyOnTheWayUp /\ Filled
WholeInv == crashes = 0 /\ ~stale => Whole

LEMMA RInitWhole == RInit => WholeInv
<1> SUFFICES ASSUME RInit PROVE Whole
  BY DEF WholeInv
<1>1. 1..0 = {}
  OBVIOUS
<1> QED
  BY <1>1, StartupAssumption
     DEF StartupAssumption, RInit, Init, Whole, Exact, AtTheEnds, EmptyOnTheWayUp, Filled

(***************************************************************************)
(* A process that neither migrates nor rolls back changes none of it.      *)
(***************************************************************************)
Moving == Locked \cup Lowering

LEMMA Bystander ==
    ASSUME RTypes, Whole, NEW p \in Proc, pc[p] \notin Moving,
           NEW w, w \notin Moving, Goto(p, w),
           version' = version, lock' = lock, tables' = tables, copies' = copies
    PROVE  Whole'
<1>1. \A q \in Proc : pc'[q] = IF q = p THEN w ELSE pc[q]
  BY DEF Goto, RTypes
<1>2. \A q \in Proc : /\ pc'[q] = "apply" <=> pc[q] = "apply"
                      /\ pc'[q] = "drop" <=> pc[q] = "drop"
                      /\ pc'[q] \in Locked <=> pc[q] \in Locked
  BY <1>1 DEF Moving, Lowering
<1>3. Exact'
  BY <1>2 DEF Whole, Exact
<1>4. (AtTheEnds /\ Filled)'
  BY DEF Whole, AtTheEnds, Filled
<1>5. EmptyOnTheWayUp'
  BY <1>2 DEF Whole, EmptyOnTheWayUp, NoCopy
<1> QED
  BY <1>3, <1>4, <1>5 DEF Whole

(***************************************************************************)
(* The steps of the process that holds the lock.                           *)
(***************************************************************************)
LEMMA Raise ==
    ASSUME RTyped, RSeedInv, Whole, NEW p \in Proc,
           \/ Up(p) /\ lock' = p
           \/ Mark(p) \/ Apply(p) \/ Clean(p)
    PROVE  Whole'
<1> USE StartupAssumption DEF StartupAssumption, Goto
<1>1. /\ RTypes /\ RHolding /\ version \in 0..M /\ M \in Nat \ {0}
      /\ Exact /\ AtTheEnds /\ EmptyOnTheWayUp /\ Filled
  BY DEF RTyped, RTypes, Whole
<1>2. \A q, r \in Proc : pc[q] \in Moving /\ pc[r] \in Moving => q = r
  BY <1>1 DEF RHolding, Moving
<1>3. CASE Up(p) /\ lock' = p
  <2>1. /\ lock = None /\ version < M /\ pc' = [pc EXCEPT ![p] = "mark"]
        /\ version' = version /\ tables' = tables /\ copies' = copies
    BY <1>1, <1>3 DEF Up, Exit
  <2>2. \A q \in Proc : pc[q] \notin Moving
    BY <1>1, <2>1 DEF RHolding, Moving
  <2>3. version = 0 /\ tables = 1..version
    BY <1>1, <2>1, <2>2 DEF AtTheEnds, Exact, Moving, Lowering
  <2>4. tables = {}
    BY <2>3
  <2>5. NoCopy
    BY <2>4 DEF RSeedInv, NoCopy
  <2>6. Exact'
    BY <1>1, <2>1, <2>2, <2>3 DEF Exact, RTypes, Moving, Lowering
  <2> QED
    BY <1>3, <2>1, <2>4, <2>5, <2>6 DEF Whole, AtTheEnds, EmptyOnTheWayUp, Filled, NoCopy
<1>4. CASE Mark(p)
  <2>1. /\ pc[p] = "mark" /\ pc' = [pc EXCEPT ![p] = "apply"] /\ version' = version + 1
        /\ lock' = lock /\ tables' = tables /\ copies' = copies
    BY <1>4 DEF Mark, seed
  <2>2. \A q \in Proc : q # p => pc[q] \notin Moving
    BY <1>2, <2>1 DEF Moving
  <2>3. tables = 1..version /\ lock # None
    BY <1>1, <2>1, <2>2 DEF Exact, RHolding, Moving, Lowering
  <2>4. version' - 1 = version
    BY <1>1, <2>1
  <2>5. Exact'
    BY <1>1, <2>1, <2>2, <2>3, <2>4 DEF Exact, RTypes, Moving, Lowering
  <2>6. EmptyOnTheWayUp'
    BY <1>1, <2>1 DEF EmptyOnTheWayUp, NoCopy
  <2> QED
    BY <1>1, <2>1, <2>3, <2>5, <2>6 DEF Whole, AtTheEnds, Filled
<1>5. CASE Apply(p)
  <2>1. pc[p] = "apply" /\ version > 0 /\ tables = 1..(version - 1) /\ lock # None
    BY <1>1, <1>5 DEF Apply, Exact, RHolding, Lowering
  <2>2. Applicable
    BY <1>1, <2>1 DEF Applicable
  <2>3. /\ pc' = [pc EXCEPT ![p] = "clean"] /\ tables' = tables \cup {version}
        /\ version' = version /\ lock' = lock /\ copies' = copies
    BY <1>5, <2>2 DEF Apply
  <2>4. \A q \in Proc : q # p => pc[q] \notin Moving
    BY <1>2, <2>1 DEF Moving
  <2>5. tables' = 1..version
    BY <1>1, <2>1, <2>3
  <2>6. NoCopy
    BY <1>1, <2>1 DEF EmptyOnTheWayUp
  <2>7. Exact'
    BY <1>1, <2>3, <2>4, <2>5 DEF Exact, RTypes, Moving, Lowering
  <2>8. Filled'
    BY <1>1, <2>3, <2>5, <2>6 DEF Filled, NoCopy
  <2> QED
    BY <2>1, <2>3, <2>6, <2>7, <2>8 DEF Whole, AtTheEnds, EmptyOnTheWayUp, NoCopy
<1>6. CASE Clean(p)
  <2>1. /\ pc[p] = "clean" /\ version' = version /\ tables' = tables /\ copies' = copies
        /\ \E w \in {"mark", "seed"} : pc' = [pc EXCEPT ![p] = w]
        /\ version = M \/ lock' = lock
    BY <1>1, <1>6 DEF Clean, seed
  <2>2. \A q \in Proc : q # p => pc[q] \notin Moving
    BY <1>2, <2>1 DEF Moving
  <2>3. tables = 1..version
    BY <1>1, <2>1, <2>2 DEF Exact, Moving, Lowering
  <2>4. Exact'
    BY <1>1, <2>1, <2>2, <2>3 DEF Exact, RTypes, Moving, Lowering
  <2>5. AtTheEnds'
    BY <1>1, <2>1 DEF AtTheEnds
  <2>6. EmptyOnTheWayUp'
    BY <1>1, <2>1 DEF EmptyOnTheWayUp, NoCopy
  <2> QED
    BY <1>1, <2>1, <2>4, <2>5, <2>6 DEF Whole, Filled
<1> QED
  BY <1>3, <1>4, <1>5, <1>6

LEMMA Lower ==
    ASSUME RTyped, RSeedInv, Above, Whole, NEW p \in Proc,
           \/ Down(p) /\ lock' = p
           \/ DownMark(p) \/ DropTable(p) \/ DownClean(p)
    PROVE  Whole'
<1> USE StartupAssumption DEF StartupAssumption, Goto
<1>1. /\ RTypes /\ RHolding /\ version \in 0..M /\ M \in Nat \ {0}
      /\ Exact /\ AtTheEnds /\ EmptyOnTheWayUp /\ Filled
  BY DEF RTyped, RTypes, Whole
<1>2. \A q, r \in Proc : pc[q] \in Moving /\ pc[r] \in Moving => q = r
  BY <1>1 DEF RHolding, Moving
<1>3. CASE Down(p) /\ lock' = p
  <2>1. /\ lock = None /\ pc' = [pc EXCEPT ![p] = "downMark"]
        /\ version' = version /\ tables' = tables /\ copies' = copies
    BY <1>1, <1>3 DEF Down, Exit
  <2>2. \A q \in Proc : pc[q] \notin Moving
    BY <1>1, <2>1 DEF RHolding, Moving
  <2>3. tables = 1..version
    BY <1>1, <2>2 DEF Exact, Moving, Lowering
  <2>4. Exact'
    BY <1>1, <2>1, <2>2, <2>3 DEF Exact, RTypes, Moving, Lowering
  <2>5. \A q \in Proc : pc'[q] \notin Locked
    BY <1>1, <2>1, <2>2 DEF RTypes, Moving
  <2> QED
    BY <1>1, <1>3, <2>1, <2>4, <2>5 DEF Whole, AtTheEnds, EmptyOnTheWayUp, Filled
<1>4. CASE DownMark(p)
  <2>1. /\ pc[p] = "downMark" /\ pc' = [pc EXCEPT ![p] = "drop"] /\ version' = version - 1
        /\ lock' = lock /\ tables' = tables /\ copies' = copies
    BY <1>4 DEF DownMark, seed
  <2>2. \A q \in Proc : q # p => pc[q] \notin Moving
    BY <1>2, <2>1 DEF Moving, Lowering
  <2>3. tables = 1..version /\ lock # None
    BY <1>1, <2>1, <2>2 DEF Exact, RHolding, Moving, Lowering
  <2>4. version' + 1 = version
    BY <1>1, <2>1
  <2>5. Exact'
    BY <1>1, <2>1, <2>2, <2>3, <2>4 DEF Exact, RTypes, Moving, Lowering
  <2>6. \A q \in Proc : pc'[q] \notin Locked
    BY <1>1, <2>1, <2>2 DEF RTypes, Moving
  <2> QED
    BY <1>1, <2>1, <2>3, <2>5, <2>6 DEF Whole, AtTheEnds, EmptyOnTheWayUp, Filled
<1>5. CASE DropTable(p)
  <2>1. pc[p] = "drop" /\ tables = 1..(version + 1) /\ lock # None /\ version < M
    BY <1>1, <1>5 DEF DropTable, Exact, RHolding, Lowering
  <2>2. ~Referenced
    BY <1>1, <2>1, NotRefused
  <2>3. /\ pc' = [pc EXCEPT ![p] = "downClean"] /\ tables' = tables \ {version + 1}
        /\ version' = version /\ lock' = lock
        /\ copies' = [copies EXCEPT ![version + 1] = 0]
    BY <1>5, <2>2 DEF DropTable, Dropped
  <2>4. \A q \in Proc : q # p => pc[q] \notin Moving
    BY <1>2, <2>1 DEF Moving, Lowering
  <2>5. tables' = 1..version
    BY <1>1, <2>1, <2>3
  <2>6. Exact'
    BY <1>1, <2>3, <2>4, <2>5 DEF Exact, RTypes, Moving, Lowering
  <2>7. Filled'
    <3>1. ASSUME NEW t \in 1..version PROVE copies'[t] = copies'[1]
      <4>1. t \in Tables /\ 1 \in Tables /\ t # version + 1 /\ 1 # version + 1
            /\ t \in tables
        BY <1>1, <2>1
      <4>2. copies'[t] = copies[t] /\ copies'[1] = copies[1]
        BY <2>3, <4>1 DEF RSeedInv
      <4> QED
        BY <1>1, <4>1, <4>2 DEF Filled
    <3> QED
      BY <2>5, <3>1 DEF Filled
  <2>8. \A q \in Proc : pc'[q] \notin Locked
    BY <1>1, <2>3, <2>4 DEF RTypes, Moving
  <2> QED
    BY <2>1, <2>3, <2>6, <2>7, <2>8 DEF Whole, AtTheEnds, EmptyOnTheWayUp
<1>6. CASE DownClean(p)
  <2>1. /\ pc[p] = "downClean" /\ version' = version /\ tables' = tables /\ copies' = copies
        /\ \E w \in {"downMark", "stopped"} : pc' = [pc EXCEPT ![p] = w]
        /\ version = 0 \/ lock' = lock
    BY <1>1, <1>6 DEF DownClean, seed
  <2>2. \A q \in Proc : q # p => pc[q] \notin Moving
    BY <1>2, <2>1 DEF Moving, Lowering
  <2>3. tables = 1..version
    BY <1>1, <2>1, <2>2 DEF Exact, Moving, Lowering
  <2>4. Exact'
    BY <1>1, <2>1, <2>2, <2>3 DEF Exact, RTypes, Moving, Lowering
  <2>5. AtTheEnds'
    BY <1>1, <2>1 DEF AtTheEnds
  <2>6. \A q \in Proc : pc'[q] \notin Locked
    BY <1>1, <2>1, <2>2 DEF RTypes, Moving
  <2> QED
    BY <1>1, <2>1, <2>4, <2>5, <2>6 DEF Whole, EmptyOnTheWayUp, Filled
<1> QED
  BY <1>3, <1>4, <1>5, <1>6

(***************************************************************************)
(* The COMMIT of the seed, which finds every table there and empty.        *)
(***************************************************************************)
LEMMA CommitFills ==
    ASSUME RTyped, RSeedInv, Whole, NEW p \in Proc, CommitSeed(p)
    PROVE  Whole'
<1>1. /\ pc[p] = "seedCommit" /\ pc' = [pc EXCEPT ![p] = "serving"] /\ version' = version
      /\ lock' = lock /\ tables' = tables /\ Publish
  BY DEF CommitSeed, Goto, schema
<1>2. tables = Tables /\ NoCopy
  BY <1>1 DEF RSeedInv
<1>3. copies' = [t \in Tables |-> 1]
  BY <1>1, <1>2, SeedPublished
<1>4. 1 \in Tables
  BY StartupAssumption DEF StartupAssumption
<1>5. \A q \in Proc : /\ pc'[q] = "apply" <=> pc[q] = "apply"
                      /\ pc'[q] = "drop" <=> pc[q] = "drop"
  BY <1>1 DEF RTyped, RTypes
<1>6. Exact'
  BY <1>1, <1>5 DEF Whole, Exact
<1> QED
  BY <1>1, <1>2, <1>3, <1>4, <1>6 DEF Whole, AtTheEnds, EmptyOnTheWayUp, Filled

LEMMA WholeStep ==
    RTyped /\ RSeedInv /\ AboveInv /\ WholeInv /\ [RNext]_rvars => WholeInv'
<1> SUFFICES ASSUME RTyped, RSeedInv, AboveInv, WholeInv, [RNext]_rvars, crashes' = 0, ~stale'
             PROVE  Whole'
  BY DEF WholeInv
<1>1. /\ RTypes /\ RHolding /\ crashes \in Nat
      /\ \A p \in Proc : pc[p] \notin Moving => lock # p
  BY StartupAssumption DEF StartupAssumption, RTyped, RTypes, RHolding, Moving
<1>2. crashes = 0 /\ ~stale => Above /\ Whole
  BY DEF AboveInv, WholeInv
<1>3. ASSUME NEW p \in Proc, pc[p] \notin Moving, Exit(p) PROVE lock' = lock /\ Goto(p, "stopped")
  BY <1>1, <1>3 DEF Exit
<1>4. "stopped" \notin Moving
  BY DEF Moving, Lowering
<1>5. ASSUME NEW p \in Proc, Forward(p) PROVE Whole'
  <2>1. ~stale
    BY <1>5 DEF Forward, Remember
  <2>2. crashes = 0 /\ ~Crash(p)
    BY <1>1, <1>5 DEF Forward, Start, Stop, Migrate, Version, ForceVersion, Up, LockTimeout, Mark,
       Apply, Clean, Seed, SeedCheck, InsertCountries, InsertRest, CommitSeed, Crash, schema, seed
  <2>3. Above /\ Whole
    BY <1>2, <2>1, <2>2
  <2>4. CASE Start(p) \/ Stop(p) \/ Version(p)
    <3>1. /\ pc[p] \notin Moving /\ version' = version /\ lock' = lock
          /\ tables' = tables /\ copies' = copies
          /\ \E w \in {"version", "serving", "stopped", "force", "up"} : Goto(p, w)
      BY <2>4 DEF Start, Stop, Version, schema, seed, Moving, Lowering
    <3> QED
      BY <1>1, <2>3, <3>1, Bystander DEF Moving, Lowering
  <2>5. CASE ForceVersion(p)
    <3>1. version = seen[p]
      BY <1>5, <2>5 DEF Forward, Remember
    <3>2. /\ pc[p] \notin Moving /\ version' = version /\ lock' = lock
          /\ tables' = tables /\ copies' = copies /\ Goto(p, "up") /\ "up" \notin Moving
      BY <2>5, <3>1 DEF ForceVersion, seed, Moving, Lowering
    <3> QED
      BY <1>1, <2>3, <3>2, Bystander
  <2>6. CASE Up(p)
    <3>1. pc[p] \notin Moving /\ version' = version /\ tables' = tables /\ copies' = copies
      BY <2>6 DEF Up, Moving, Lowering
    <3>2. CASE lock' = p
      BY <2>3, <2>6, <3>2, Raise
    <3>3. CASE Exit(p)
      BY <1>1, <1>3, <1>4, <2>3, <3>1, <3>3, Bystander
    <3>4. CASE Goto(p, "seed") /\ lock' = lock
      <4>1. "seed" \notin Moving
        BY DEF Moving, Lowering
      <4> QED
        BY <1>1, <2>3, <3>1, <3>4, <4>1, Bystander
    <3> QED
      BY <2>6, <3>2, <3>3, <3>4 DEF Up
  <2>7. CASE LockTimeout(p)
    <3>1. pc[p] \notin Moving /\ version' = version /\ tables' = tables /\ copies' = copies /\ Exit(p)
      BY <2>7 DEF LockTimeout, Moving, Lowering
    <3> QED
      BY <1>1, <1>3, <1>4, <2>3, <3>1, Bystander
  <2>8. CASE Mark(p) \/ Apply(p) \/ Clean(p)
    BY <2>3, <2>8, Raise
  <2>9. CASE SeedCheck(p) \/ InsertCountries(p) \/ InsertRest(p)
    <3>1. /\ pc[p] \notin Moving /\ version' = version /\ tables' = tables /\ copies' = copies
          /\ \/ Exit(p)
             \/ lock' = lock /\ \E w \in {"serving", "seedTx"} \cup Inserted : Goto(p, w)
      BY <2>9 DEF SeedCheck, InsertCountries, InsertRest, Moving, Lowering
    <3>2. lock' = lock /\ \E w \in {"stopped", "serving", "seedTx"} \cup Inserted : Goto(p, w)
      BY <1>3, <3>1
    <3> QED
      BY <1>1, <2>3, <3>1, <3>2, Bystander DEF Moving, Lowering
  <2>10. CASE CommitSeed(p)
    BY <2>3, <2>10, CommitFills
  <2> QED
    BY <1>5, <2>2, <2>4, <2>5, <2>6, <2>7, <2>8, <2>9, <2>10 DEF Forward, Migrate, Seed
<1>6. ASSUME NEW p \in Proc, Call(p) PROVE Whole'
  <2>1. /\ crashes' = crashes /\ stale' = stale /\ pc[p] \notin Moving /\ version' = version
        /\ lock' = lock /\ tables' = tables /\ copies' = copies
        /\ Goto(p, "rbVersion") /\ "rbVersion" \notin Moving
    BY <1>6 DEF Call, schema, seed, Moving, Lowering
  <2> QED
    BY <1>1, <1>2, <2>1, Bystander
<1>7. ASSUME NEW p \in Proc, RollbackMigrations(p) PROVE Whole'
  <2>1. crashes = 0 /\ ~stale
    <3>1. CASE RbForce(p)
      BY <3>1 DEF RbForce, Remember
    <3>2. CASE RbVersion(p) \/ Down(p) \/ DownTimeout(p)
      BY <3>2 DEF RbVersion, Down, DownTimeout
    <3>3. CASE DownMark(p) \/ DropTable(p) \/ DownClean(p)
      BY <3>3 DEF DownMark, DropTable, DownClean
    <3> QED
      BY <1>7, <3>1, <3>2, <3>3 DEF RollbackMigrations
  <2>2. Above /\ Whole
    BY <1>2, <2>1
  <2>3. CASE RbVersion(p)
    <3>1. /\ pc[p] \notin Moving /\ version' = version /\ lock' = lock
          /\ tables' = tables /\ copies' = copies
          /\ \E w \in {"rbForce", "down"} : Goto(p, w)
      BY <2>3 DEF RbVersion, schema, seed, Moving, Lowering
    <3> QED
      BY <1>1, <2>2, <3>1, Bystander DEF Moving, Lowering
  <2>4. CASE RbForce(p)
    <3>1. version' = version
      BY <2>4 DEF RbForce, Remember
    <3>2. /\ pc[p] \notin Moving /\ lock' = lock
          /\ tables' = tables /\ copies' = copies /\ Goto(p, "down") /\ "down" \notin Moving
      BY <2>4 DEF RbForce, seed, Moving, Lowering
    <3> QED
      BY <1>1, <2>2, <3>1, <3>2, Bystander
  <2>5. CASE Down(p)
    <3>1. pc[p] \notin Moving /\ version' = version /\ tables' = tables /\ copies' = copies
      BY <2>5 DEF Down, Moving, Lowering
    <3>2. CASE lock' = p
      BY <2>2, <2>5, <3>2, Lower
    <3>3. CASE Exit(p)
      BY <1>1, <1>3, <1>4, <2>2, <3>1, <3>3, Bystander
    <3>4. CASE Goto(p, "stopped") /\ lock' = lock
      BY <1>1, <1>4, <2>2, <3>1, <3>4, Bystander
    <3> QED
      BY <2>5, <3>2, <3>3, <3>4 DEF Down
  <2>6. CASE DownTimeout(p)
    <3>1. pc[p] \notin Moving /\ version' = version /\ tables' = tables /\ copies' = copies /\ Exit(p)
      BY <2>6 DEF DownTimeout, Moving, Lowering
    <3> QED
      BY <1>1, <1>3, <1>4, <2>2, <3>1, Bystander
  <2>7. CASE DownMark(p) \/ DropTable(p) \/ DownClean(p)
    BY <2>2, <2>7, Lower
  <2> QED
    BY <1>7, <2>3, <2>4, <2>5, <2>6, <2>7 DEF RollbackMigrations
<1>8. ASSUME NEW p \in Proc, DownCrash(p) PROVE FALSE
  BY <1>1, <1>8 DEF DownCrash
<1>9. ASSUME NEW p \in Proc, NEW q \in Proc, Deadlock(p, q) PROVE FALSE
  BY <1>1, <1>9 DEF Deadlock
<1>10. ASSUME UNCHANGED rvars PROVE Whole'
  <2>1. Whole /\ UNCHANGED <<pc, version, lock, tables, copies>>
    BY <1>2, <1>10 DEF rvars, vars, schema, seed
  <2> QED
    BY <2>1 DEF Whole, Exact, AtTheEnds, EmptyOnTheWayUp, Filled, NoCopy
<1> QED
  BY <1>5, <1>6, <1>7, <1>8, <1>9, <1>10 DEF RNext

(***************************************************************************)
(* SeedData looks at countries alone and never finds half a seed: with     *)
(* any number of processes migrating, seeding and rolling back together, a *)
(* database that has every table has the seed in all of them or in none,   *)
(* unless somebody died or forced the version of a process still at work.  *)
(***************************************************************************)
THEOREM SeedWholeInvariant == RSpec => []SeedWhole
<1>1. RInit => RTyped /\ RSeedInv /\ AboveInv /\ WholeInv
  BY RInitTyped, RInitSeed, RInitAbove, RInitWhole
<1>2. (RTyped /\ RSeedInv /\ AboveInv /\ WholeInv) /\ [RNext]_rvars
          => (RTyped /\ RSeedInv /\ AboveInv /\ WholeInv)'
  BY RTypedStep, RSeedStep, AboveStep, WholeStep
<1>3. WholeInv => SeedWhole
  BY DEF WholeInv, Whole, Filled, SeedWhole
<1> QED
  BY <1>1, <1>2, <1>3, PTL DEF RSpec
=============================================================================
