------------------------------ MODULE Startup ------------------------------
(***************************************************************************)
(* From main() to a serving process, for several processes that share one  *)
(* PostgreSQL database: RunMigrations over golang-migrate's version table  *)
(* and advisory lock, then SeedData, then the HTTP server.  Any error is   *)
(* log.Fatal, the container is restarted, and a process may die anywhere.  *)
(*                                                                         *)
(* Migration k creates table k: countries, payment_methods,                *)
(* payment_method_countries, transactions, integration_costs,              *)
(* country_payment_catalog.                                                *)
(***************************************************************************)
EXTENDS Naturals

CONSTANTS Proc,          \* server processes
          AutoMigrate,   \* those started with AUTO_MIGRATE=true
          M,             \* number of migrations, 6 in the repository
          Needs,         \* tables that the file of each migration refers to
          CrashPoints,   \* places where a process may die
          MaxCrashes,    \* bound: processes that die
          None

ASSUME StartupAssumption ==
    /\ AutoMigrate \subseteq Proc
    /\ M \in Nat \ {0}
    /\ Needs \in [1..M -> SUBSET (1..M)]
    /\ \A k \in 1..M : Needs[k] \subseteq 1..(k - 1)
    /\ MaxCrashes \in Nat
    /\ None \notin Proc

VARIABLES pc,            \* where each process is
          seen,          \* version that RunMigrations found dirty
          version, dirty,\* schema_migrations; version 0 stands for no row
          lock,          \* holder of the advisory lock
          tables,        \* tables that exist
          copies,        \* committed copies of the seed rows in each table
          seeder,        \* process whose transaction has inserted countries
          crashes

schema == <<version, dirty, lock, tables>>
seed == <<copies, seeder>>
vars == <<pc, seen, schema, seed, crashes>>

Tables == 1..M
Locked == {"mark", "apply", "clean"}
Inserted == {"seedRest", "seedCommit"}
PC == {"stopped", "version", "force", "up", "seed", "seedTx", "serving"}
          \cup Locked \cup Inserted

Init == /\ pc = [p \in Proc |-> "stopped"]
        /\ seen = [p \in Proc |-> 0]
        /\ version = 0 /\ dirty = FALSE
        /\ lock = None
        /\ tables = {}
        /\ copies = [t \in Tables |-> 0]
        /\ seeder = None
        /\ crashes = 0

Goto(p, where) == pc' = [pc EXCEPT ![p] = where]

(* log.Fatal, or death: PostgreSQL ends the sessions of the process.       *)
Exit(p) == /\ Goto(p, "stopped")
           /\ lock' = IF lock = p THEN None ELSE lock
           /\ seeder' = IF seeder = p THEN None ELSE seeder

-----------------------------------------------------------------------------
(* main.go *)

Start(p) == /\ pc[p] = "stopped"
            /\ Goto(p, IF p \in AutoMigrate THEN "version" ELSE "serving")
            /\ UNCHANGED <<seen, schema, seed, crashes>>

(* A signal, Shutdown and the end of main.                                 *)
Stop(p) == /\ pc[p] = "serving"
           /\ Goto(p, "stopped")
           /\ UNCHANGED <<seen, schema, seed, crashes>>

-----------------------------------------------------------------------------
(* RunMigrations. *)

(* Mutant: a dirty version is left alone.                                  *)
VersionNoForce(p) == /\ pc[p] = "version"
                     /\ Goto(p, "up")
                     /\ UNCHANGED <<seen, schema, seed, crashes>>

(* m.Version(), a read that takes no lock.  It calls a dirty database      *)
(* without a version clean.                                                *)
Version(p) == /\ pc[p] = "version"
              /\ IF dirty /\ version > 0
                 THEN seen' = [seen EXCEPT ![p] = version] /\ Goto(p, "force")
                 ELSE UNCHANGED seen /\ Goto(p, "up")
              /\ UNCHANGED <<schema, seed, crashes>>

(* Mutant: the version is forced without the lock.                         *)
ForceUnlocked(p) == /\ pc[p] = "force"
                    /\ version' = seen[p] /\ dirty' = FALSE
                    /\ Goto(p, "up")
                    /\ UNCHANGED <<seen, lock, tables, seed, crashes>>

(* m.Force(version) writes, under the lock, what was read without it.      *)
ForceVersion(p) == /\ pc[p] = "force" /\ lock = None
                   /\ version' = seen[p] /\ dirty' = FALSE
                   /\ Goto(p, "up")
                   /\ UNCHANGED <<seen, lock, tables, seed, crashes>>

(* m.Up() takes the lock and refuses a dirty version.                      *)
Up(p) == /\ pc[p] = "up" /\ lock = None
         /\ \/ dirty /\ Exit(p)
            \/ ~dirty /\ version = M /\ Goto(p, "seed") /\ UNCHANGED <<lock, seeder>>
            \/ ~dirty /\ version < M /\ Goto(p, "mark") /\ lock' = p /\ UNCHANGED seeder
         /\ UNCHANGED <<seen, version, dirty, tables, copies, crashes>>

(* Force and Up give up after 15 seconds without the lock.                 *)
LockTimeout(p) == /\ pc[p] \in {"force", "up"} /\ lock # None
                  /\ Exit(p)
                  /\ UNCHANGED <<seen, version, dirty, tables, copies, crashes>>

(* The next version is recorded as dirty before its file is run ...        *)
Mark(p) == /\ pc[p] = "mark"
           /\ version' = version + 1 /\ dirty' = TRUE
           /\ Goto(p, "apply")
           /\ UNCHANGED <<seen, lock, tables, seed, crashes>>

(* ... the file is one statement batch, applied whole or not at all ...    *)
Applicable == version \notin tables /\ Needs[version] \subseteq tables

Apply(p) == /\ pc[p] = "apply"
            /\ IF Applicable
               THEN Goto(p, "clean") /\ tables' = tables \cup {version} /\ UNCHANGED <<lock, seeder>>
               ELSE Exit(p) /\ UNCHANGED tables
            /\ UNCHANGED <<seen, version, dirty, copies, crashes>>

(* Mutant: goes on after the last migration.                               *)
CleanNoEnd(p) == /\ pc[p] = "clean"
                 /\ dirty' = FALSE
                 /\ Goto(p, "mark")
                 /\ UNCHANGED <<seen, version, lock, tables, seed, crashes>>

(* ... and then as clean; the last one gives the lock back.                *)
Clean(p) == /\ pc[p] = "clean"
            /\ dirty' = FALSE
            /\ IF version < M THEN Goto(p, "mark") /\ UNCHANGED lock
                              ELSE Goto(p, "seed") /\ lock' = None
            /\ UNCHANGED <<seen, version, tables, seed, crashes>>

-----------------------------------------------------------------------------
(* SeedData. *)

(* COUNT( * ) of countries, outside the transaction.                       *)
SeedCheck(p) == /\ pc[p] = "seed"
                /\ IF 1 \notin tables
                   THEN Exit(p)
                   ELSE /\ Goto(p, IF copies[1] > 0 THEN "serving" ELSE "seedTx")
                        /\ UNCHANGED <<lock, seeder>>
                /\ UNCHANGED <<seen, version, dirty, tables, copies, crashes>>

(* Mutant: countries go to the pool and not to the transaction.            *)
InsertCountriesOutsideTx(p) ==
    /\ pc[p] = "seedTx" /\ seeder = None
    /\ IF copies[1] > 0 \/ 1 \notin tables
       THEN Exit(p) /\ UNCHANGED copies
       ELSE /\ copies' = [copies EXCEPT ![1] = 1]
            /\ Goto(p, "seedRest") /\ seeder' = p /\ UNCHANGED lock
    /\ UNCHANGED <<seen, version, dirty, tables, crashes>>

(* The primary key makes a second seeder wait for the first one's          *)
(* transaction, and fail if it has committed; so does a table that is gone.*)
InsertCountries(p) == /\ pc[p] = "seedTx" /\ seeder = None
                      /\ IF copies[1] > 0 \/ 1 \notin tables
                         THEN Exit(p)
                         ELSE Goto(p, "seedRest") /\ seeder' = p /\ UNCHANGED lock
                      /\ UNCHANGED <<seen, version, dirty, tables, copies, crashes>>

(* Mutant: the error of an INSERT into a missing table is ignored.         *)
InsertRestUnchecked(p) == /\ pc[p] = "seedRest"
                          /\ Goto(p, "seedCommit")
                          /\ UNCHANGED <<seen, schema, seed, crashes>>

(* The other five tables: an error in any rolls the transaction back.      *)
(* Codes are unique in payment_methods as they are in countries.           *)
InsertRest(p) == /\ pc[p] = "seedRest"
                 /\ IF tables = Tables /\ (\A t \in Tables \cap {2} : copies[t] = 0)
                    THEN Goto(p, "seedCommit") /\ UNCHANGED <<lock, seeder>>
                    ELSE Exit(p)
                 /\ UNCHANGED <<seen, version, dirty, tables, copies, crashes>>

Publish == copies' = [t \in Tables |-> copies[t] + 1]

CommitSeed(p) == /\ pc[p] = "seedCommit"
                 /\ Publish /\ seeder' = None
                 /\ Goto(p, "serving")
                 /\ UNCHANGED <<seen, schema, crashes>>

-----------------------------------------------------------------------------
(* A process dies, or an error other than those above makes it exit.  What *)
(* it had sent may still be executed: the file of the migration it was     *)
(* running, or the COMMIT of the seed.                                     *)
Crash(p) == /\ pc[p] \in CrashPoints /\ crashes < MaxCrashes
            /\ crashes' = crashes + 1
            /\ Exit(p)
            /\ \/ UNCHANGED <<tables, copies>>
               \/ pc[p] = "apply" /\ Applicable /\ tables' = tables \cup {version} /\ UNCHANGED copies
               \/ pc[p] = "seedCommit" /\ Publish /\ UNCHANGED tables
            /\ UNCHANGED <<seen, version, dirty>>

Migrate(p) == \/ Version(p) \/ ForceVersion(p) \/ Up(p) \/ LockTimeout(p)
              \/ Mark(p) \/ Apply(p) \/ Clean(p)

Seed(p) == SeedCheck(p) \/ InsertCountries(p) \/ InsertRest(p) \/ CommitSeed(p)

Next == \E p \in Proc : Start(p) \/ Stop(p) \/ Migrate(p) \/ Seed(p) \/ Crash(p)

Spec == Init /\ [][Next]_vars

(* A process runs on, and Docker restarts one that exited ("restart:       *)
(* unless-stopped").  Nobody has to stop a server.                         *)
Fairness == \A p \in Proc : WF_vars(Start(p) \/ Migrate(p) \/ Seed(p))

FairSpec == Spec /\ Fairness

-----------------------------------------------------------------------------
TypeOK == /\ pc \in [Proc -> PC]
          /\ seen \in [Proc -> 0..M]
          /\ version \in 0..M /\ dirty \in BOOLEAN
          /\ lock \in Proc \cup {None} /\ seeder \in Proc \cup {None}
          /\ tables \subseteq Tables
          /\ copies \in [Tables -> Nat]
          /\ crashes \in 0..MaxCrashes

(* seeds_test.go: running twice does not duplicate.  Processes that race   *)
(* between the COUNT and the INSERTs, and commits whose process died,      *)
(* leave one whole copy of the seed, or none.                              *)
SeededOnce == \E n \in {0, 1} : \A t \in Tables : copies[t] = n

(* A process that migrates before it serves finds every table, with the    *)
(* seed in it, even when RunMigrations has recorded a migration that never *)
(* ran: the seed's transaction is what stops it.                           *)
ServingComplete ==
    \A p \in AutoMigrate : pc[p] = "serving" => tables = Tables /\ copies[1] = 1

(* Without a crash the recorded version tells what is in the database,     *)
(* although Force writes back a version read before it had the lock.       *)
VersionTruthful ==
    crashes = 0 => \A k \in 1..version : k \in tables \/ (dirty /\ k = version)

(* Once the seed is in, no later start, race, retry or crash changes the   *)
(* schema or the seed rows again.                                          *)
SeededIsStable == [][copies[1] > 0 => UNCHANGED <<tables, copies>>]_vars

(* A version is recorded whose file never ran and never will.              *)
FileSkipped == \E k \in 1..version : k \notin tables /\ ~(dirty /\ k = version)

(* A process that starts gets to serve, however often it loses a race for  *)
(* the lock, the version or the seed and whichever process dies where;     *)
(* only a migration that was forced clean without its file stops it.       *)
EventuallyServes ==
    \A p \in Proc : \/ (pc[p] = "version") ~> (pc[p] = "serving")
                    \/ <>[]FileSkipped

(* migrate_test.go: after RunMigrations without an error every table       *)
(* exists.                                                                 *)
MigratedComplete == \A p \in Proc : pc[p] = "seed" => tables = Tables
=============================================================================
