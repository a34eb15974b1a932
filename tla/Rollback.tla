------------------------------ MODULE Rollback ------------------------------
(***************************************************************************)
(* RollbackMigrations beside the processes of Startup.  Only the tests     *)
(* call it, on the database that everything else uses.  It takes the same  *)
(* steps as RunMigrations in the other direction: version k - 1 is         *)
(* recorded as dirty, the file that drops table k is run, version k - 1 is *)
(* recorded as clean.  Version 0, below the first file, is what            *)
(* golang-migrate calls no version: clean, it is an empty schema_migrations*)
(* table; dirty, Up and Down refuse it, but m.Version() reports nothing    *)
(* dirty, so that neither function of migrate.go forces it.                *)
(***************************************************************************)
EXTENDS Startup

CONSTANT MaxRollbacks    \* bound: calls of RollbackMigrations

(* Every table but the first two refers to countries.                      *)
ASSUME RollbackAssumption == /\ \A k \in 3..M : 1 \in Needs[k]
                             /\ MaxRollbacks \in Nat

VARIABLES rollbacks,
          stale          \* history: a version was forced that was no longer dirty

rvars == <<vars, rollbacks, stale>>

Backward == {"rbVersion", "rbForce", "down", "downMark", "drop", "downClean"}

RInit == Init /\ rollbacks = 0 /\ stale = FALSE

(* A process is started to roll back instead of to serve.                  *)
Call(p) == /\ pc[p] = "stopped" /\ rollbacks < MaxRollbacks
           /\ rollbacks' = rollbacks + 1
           /\ Goto(p, "rbVersion")
           /\ UNCHANGED <<seen, schema, seed, crashes, stale>>

RbVersion(p) == /\ pc[p] = "rbVersion"
                /\ IF dirty /\ version > 0
                   THEN seen' = [seen EXCEPT ![p] = version] /\ Goto(p, "rbForce")
                   ELSE UNCHANGED seen /\ Goto(p, "down")
                /\ UNCHANGED <<schema, seed, crashes, rollbacks, stale>>

(* What p forces may have been dirty when it looked and be so no longer.    *)
Remember(p) == stale' = (stale \/ ~dirty \/ version # seen[p])

RbForce(p) == /\ pc[p] = "rbForce" /\ lock = None
              /\ version' = seen[p] /\ dirty' = FALSE
              /\ Remember(p)
              /\ Goto(p, "down")
              /\ UNCHANGED <<seen, lock, tables, seed, crashes, rollbacks>>

(* m.Down(): ErrNoChange, if there is no version, is no error.             *)
Down(p) == /\ pc[p] = "down" /\ lock = None
           /\ \/ dirty /\ Exit(p)
              \/ ~dirty /\ version = 0 /\ Goto(p, "stopped") /\ UNCHANGED <<lock, seeder>>
              \/ ~dirty /\ version > 0 /\ Goto(p, "downMark") /\ lock' = p /\ UNCHANGED seeder
           /\ UNCHANGED <<seen, version, dirty, tables, copies, crashes, rollbacks, stale>>

DownTimeout(p) == /\ pc[p] \in {"rbForce", "down"} /\ lock # None
                  /\ Exit(p)
                  /\ UNCHANGED <<seen, version, dirty, tables, copies, crashes, rollbacks, stale>>

DownMark(p) == /\ pc[p] = "downMark"
               /\ version' = version - 1 /\ dirty' = TRUE
               /\ Goto(p, "drop")
               /\ UNCHANGED <<seen, lock, tables, seed, crashes, rollbacks, stale>>

(* DROP TABLE IF EXISTS, without CASCADE, is refused while another table   *)
(* refers to this one, and waits for a seed that has written to it or to a *)
(* table it refers to.                                                     *)
Dropped == version + 1
Referenced == \E k \in tables : Dropped \in Needs[k]
MustWait == /\ seeder # None
            /\ pc[seeder] = "seedCommit" \/ 1 \in {Dropped} \cup Needs[Dropped]

DropTable(p) ==
    /\ pc[p] = "drop" /\ ~MustWait
    /\ IF Dropped \in tables /\ Referenced
       THEN Exit(p) /\ UNCHANGED <<tables, copies>>
       ELSE /\ tables' = tables \ {Dropped}
            /\ copies' = [copies EXCEPT ![Dropped] = 0]
            /\ Goto(p, "downClean")
            /\ UNCHANGED <<lock, seeder>>
    /\ UNCHANGED <<seen, version, dirty, crashes, rollbacks, stale>>

(* Mutant: stops before the first migration.                               *)
DownCleanEarly(p) == /\ pc[p] = "downClean"
                     /\ dirty' = FALSE
                     /\ IF version > 1 THEN Goto(p, "downMark") /\ UNCHANGED lock
                                       ELSE Goto(p, "stopped") /\ lock' = None
                     /\ UNCHANGED <<seen, version, tables, seed, crashes, rollbacks, stale>>

(* Mutant: goes on below the first migration.                              *)
DownCleanNoEnd(p) == /\ pc[p] = "downClean"
                     /\ dirty' = FALSE
                     /\ IF version >= 0 THEN Goto(p, "downMark") /\ UNCHANGED lock
                                        ELSE Goto(p, "stopped") /\ lock' = None
                     /\ UNCHANGED <<seen, version, tables, seed, crashes, rollbacks, stale>>

DownClean(p) == /\ pc[p] = "downClean"
                /\ dirty' = FALSE
                /\ IF version > 0 THEN Goto(p, "downMark") /\ UNCHANGED lock
                                  ELSE Goto(p, "stopped") /\ lock' = None
                /\ UNCHANGED <<seen, version, tables, seed, crashes, rollbacks, stale>>

(* The DROP has locked its table and waits for the seed, the seed wants to *)
(* insert into that table: PostgreSQL aborts one of the two.               *)
Deadlock(p, q) ==
    /\ pc[p] = "seedRest" /\ pc[q] = "drop" /\ MustWait /\ Dropped \in tables
    /\ crashes < MaxCrashes /\ crashes' = crashes + 1
    /\ Exit(p) \/ Exit(q)
    /\ UNCHANGED <<seen, version, dirty, tables, copies, rollbacks, stale>>

(* As in Startup, the file a dead process was running may still be run.    *)
DownCrash(p) ==
    /\ pc[p] \in Backward /\ crashes < MaxCrashes
    /\ crashes' = crashes + 1
    /\ Exit(p)
    /\ \/ UNCHANGED <<tables, copies>>
       \/ /\ pc[p] = "drop" /\ ~MustWait /\ Dropped \in tables /\ ~Referenced
          /\ tables' = tables \ {Dropped}
          /\ copies' = [copies EXCEPT ![Dropped] = 0]
    /\ UNCHANGED <<seen, version, dirty, rollbacks, stale>>

RollbackMigrations(p) == \/ RbVersion(p) \/ RbForce(p) \/ Down(p) \/ DownTimeout(p)
                         \/ DownMark(p) \/ DropTable(p) \/ DownClean(p)

(* The steps of Startup.                                                   *)
Forward(p) == /\ Start(p) \/ Stop(p) \/ Migrate(p) \/ Seed(p) \/ Crash(p)
              /\ IF ForceVersion(p) THEN Remember(p) ELSE UNCHANGED stale
              /\ UNCHANGED rollbacks

RNext == \/ \E p \in Proc : Forward(p)
         \/ \E p \in Proc : Call(p) \/ RollbackMigrations(p) \/ DownCrash(p)
         \/ \E p, q \in Proc : Deadlock(p, q)

RSpec == RInit /\ [][RNext]_rvars

RFairness == \A p \in Proc :
    WF_rvars(\/ Forward(p) /\ (Start(p) \/ Migrate(p) \/ Seed(p))
             \/ RollbackMigrations(p))

RFairSpec == RSpec /\ RFairness

-----------------------------------------------------------------------------
(* Types; and nothing is seeded twice, or into a table that is not there.  *)
RTypeOK == /\ pc \in [Proc -> PC \cup Backward]
           /\ seen \in [Proc -> 0..M]
           /\ version \in 0..M /\ dirty \in BOOLEAN
           /\ lock \in Proc \cup {None} /\ seeder \in Proc \cup {None}
           /\ tables \subseteq Tables
           /\ copies \in [Tables -> 0..1]
           /\ \A t \in Tables \ tables : copies[t] = 0
           /\ crashes \in 0..MaxCrashes /\ rollbacks \in 0..MaxRollbacks
           /\ stale \in BOOLEAN

(* p's RollbackMigrations returns nil.                                     *)
Returns(p) == /\ pc'[p] = "stopped" /\ crashes' = crashes
              /\ pc[p] = "downClean" \/ (pc[p] = "down" /\ lock = None /\ ~dirty)

(* "all migrations rolled back": a rollback that returns without an error  *)
(* has left no table, whatever other processes do - unless one of them     *)
(* died on the way, or forced a version that was dirty only because        *)
(* another process was still at work.                                      *)
RolledBackClean ==
    [][\A p \in Proc : Returns(p) /\ crashes = 0 /\ ~stale => tables' = {}]_rvars

(* Nothing recorded, but dirty.                                            *)
NilDirty == version = 0 /\ dirty

(* countries has been emptied, another table of the seed has not: the seed *)
(* begins anew and meets payment_methods that are still there.             *)
HalfSeeded == copies[1] = 0 /\ \E t \in Tables : copies[t] > 0

(* SeedData counts countries and concludes that the other tables have their *)
(* rows, too.  So they do, although rollbacks empty them one by one and     *)
(* others start meanwhile - unless a rollback was cut short, or misled by a *)
(* version that somebody else forced.                                       *)
SeedWhole ==
    crashes = 0 /\ ~stale /\ tables = Tables => \A t \in Tables : copies[t] = copies[1]

(* After rollbacks, complete or not, a process that starts gets to serve:  *)
(* an interrupted one leaves tables that Up finds in its way, and each     *)
(* restart gets one of them further.  What it cannot mend is a version     *)
(* whose file never ran, a dirty database without a version, and half a    *)
(* seed.                                                                   *)
ServesAgain ==
    \A p \in Proc : \/ (pc[p] = "version") ~> (pc[p] = "serving")
                    \/ <>[](FileSkipped \/ NilDirty \/ HalfSeeded)
=============================================================================
