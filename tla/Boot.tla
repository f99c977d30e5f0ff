-------------------------------- MODULE Boot --------------------------------
(***************************************************************************)
(* How a process of the API or a dedicated worker comes up and goes down:  *)
(* main of apps/api/src/server.ts with the migrator and the seed it runs   *)
(* first, main of apps/worker/src/worker.ts, and their shutdown.  Several  *)
(* instances boot at once when a deploy overlaps the one it replaces.  A   *)
(* rejected main ends the process and the platform starts it again.        *)
(***************************************************************************)
EXTENDS FiniteSetsExt, Integers

CONSTANTS
    Instances,          \* processes
    Dedicated,          \* the one that is apps/worker when the API has no consumers
    LastMigration,      \* migrations/*.sql, numbered in their lexical order
    LastRow,            \* rows of the seed, numbered in the order of its inserts
    MaxStops            \* bound: processes that crash or are told to stop

ASSUME BootConstants ==
    /\ Dedicated \in Instances
    /\ {LastMigration, LastRow} \subseteq Nat \ {0}
    /\ MaxStops \in Nat

VARIABLES
    flags,      \* SEED_ON_BOOT, MIGRATE_ON_BOOT, RUN_WORKER_IN_PROCESS
    pc,         \* what an instance is doing
    done,       \* runMigrations: what an instance has found or put in the table
    table,      \* _kobo_migrations exists
    objects,    \* the migrations whose tables and types exist
    recorded,   \* _kobo_migrations
    rows,       \* the rows of the seed that exist
    at,         \* runSeed: the row an instance has come to
    stops       \* how much of the bound is spent

database == <<table, objects, recorded, rows>>
bootVars == <<flags, pc, done, database, at, stops>>

Migrations == 1..LastMigration
SeedRows == 1..LastRow

(* SEED_ON_BOOT migrates, too.                                             *)
Flags == [seed : BOOLEAN, migrate : BOOLEAN, worker : BOOLEAN]

(* RUN_WORKER_IN_PROCESS: one instance does everything, or a worker of its *)
(* own does the jobs.                                                      *)
Apis == IF flags.worker THEN Instances ELSE Instances \ {Dedicated}

(* Without both flags a job of the deployment has done it beforehand.      *)
Prepared == flags.seed \/ flags.migrate

BootInit ==
    /\ flags \in {f \in Flags : f.seed => f.migrate}
    /\ pc = [i \in Instances |-> "down"]
    /\ done = [i \in Instances |-> {}]
    /\ table = ~Prepared
    /\ objects = IF Prepared THEN {} ELSE Migrations
    /\ recorded = objects
    /\ rows = IF Prepared THEN {} ELSE SeedRows
    /\ at = [i \in Instances |-> 1]
    /\ stops = 0

-----------------------------------------------------------------------------
Goto(i, label) == pc' = [pc EXCEPT ![i] = label]

(* The process has ended, and what main held with it.                      *)
Ended(i) ==
    /\ Goto(i, "down")
    /\ done' = [done EXCEPT ![i] = {}]
    /\ at' = [at EXCEPT ![i] = 1]

(* "void main()": nobody catches.                                          *)
Throw(i) == Ended(i)

Enter(i, label) == Goto(i, label) /\ UNCHANGED <<done, at>>

Start(i) ==
    /\ pc[i] = "down"
    /\ Goto(i, IF i \in Apis /\ Prepared THEN "connected" ELSE "ready")
    /\ UNCHANGED <<flags, done, database, at, stops>>

(* CREATE TABLE IF NOT EXISTS looks first; the catalog refuses the second  *)
(* of two that found nothing.                                              *)
LookForTable(i) ==
    /\ pc[i] = "connected"
    /\ Goto(i, IF table THEN "reading" ELSE "creating")
    /\ UNCHANGED <<flags, done, database, at, stops>>

CreateTable(i) ==
    /\ pc[i] = "creating"
    /\ IF table THEN Throw(i) ELSE Enter(i, "reading")
    /\ table' = TRUE
    /\ UNCHANGED <<flags, objects, recorded, rows, stops>>

ReadDone(i) ==
    /\ pc[i] = "reading"
    /\ done' = [done EXCEPT ![i] = recorded]
    /\ Goto(i, "migrating")
    /\ UNCHANGED <<flags, database, at, stops>>

File(i) == Min(Migrations \ done[i])

(* Mutant: the script is not in the transaction that records it.           *)
RunScriptAtOnce(i) ==
    /\ pc[i] = "migrating"
    /\ done[i] # Migrations
    /\ IF File(i) \in objects THEN Throw(i) ELSE Enter(i, "recording")
    /\ objects' = objects \cup {File(i)}
    /\ UNCHANGED <<flags, table, recorded, rows, stops>>

(* BEGIN and the script.  It waits for another instance's uncommitted run  *)
(* of the same script, and fails when the objects exist.                   *)
RunScript(i) ==
    /\ pc[i] = "migrating"
    /\ done[i] # Migrations
    /\ \A j \in Instances \ {i} : pc[j] = "recording" => File(j) # File(i)
    /\ IF File(i) \in objects THEN Throw(i) ELSE Enter(i, "recording")
    /\ UNCHANGED <<flags, database, stops>>

(* INSERT INTO _kobo_migrations and COMMIT.                                *)
Record(i) ==
    /\ pc[i] = "recording"
    /\ objects' = objects \cup {File(i)}
    /\ recorded' = recorded \cup {File(i)}
    /\ done' = [done EXCEPT ![i] = @ \cup {File(i)}]
    /\ Goto(i, "migrating")
    /\ UNCHANGED <<flags, table, rows, at, stops>>

MigrationsDone(i) ==
    /\ pc[i] = "migrating"
    /\ done[i] = Migrations
    /\ done' = [done EXCEPT ![i] = {}]
    /\ Goto(i, IF flags.seed THEN "seeding" ELSE "ready")
    /\ UNCHANGED <<flags, database, at, stops>>

(* Mutant: a row that exists means that everything after it does.          *)
SeedRowOrLeave(i) ==
    /\ pc[i] = "seeding"
    /\ IF at[i] \in rows \/ at[i] = LastRow
         THEN Goto(i, "ready") /\ at' = [at EXCEPT ![i] = 1]
         ELSE at' = [at EXCEPT ![i] = @ + 1] /\ UNCHANGED pc
    /\ rows' = rows \cup {at[i]}
    /\ UNCHANGED <<flags, done, table, objects, recorded, stops>>

(* The operators, and of each demo customer its row, its account and its   *)
(* invoice: statements of their own, ON CONFLICT DO NOTHING.               *)
SeedRow(i) ==
    /\ pc[i] = "seeding"
    /\ rows' = rows \cup {at[i]}
    /\ IF at[i] = LastRow
         THEN Goto(i, "ready") /\ at' = [at EXCEPT ![i] = 1]
         ELSE at' = [at EXCEPT ![i] = @ + 1] /\ UNCHANGED pc
    /\ UNCHANGED <<flags, done, table, objects, recorded, stops>>

(* app.listen; then the consumers, in this process or in a worker's own.   *)
Listen(i) ==
    /\ pc[i] = "ready"
    /\ i \in Apis
    /\ Goto(i, "listening")
    /\ UNCHANGED <<flags, done, database, at, stops>>

StartWorkers(i) ==
    /\ \/ i \notin Apis /\ pc[i] = "ready"
       \/ i \in Apis /\ pc[i] = "listening" /\ flags.worker
    /\ Goto(i, "working")
    /\ UNCHANGED <<flags, done, database, at, stops>>

-----------------------------------------------------------------------------
Listening(i) == i \in Apis /\ pc[i] \in {"listening", "working"}

(* SIGTERM: no new request; then the jobs end and the connections close.   *)
Terminate(i) ==
    /\ stops < MaxStops
    /\ pc[i] \in {"listening", "working"}
    /\ Goto(i, "closing")
    /\ stops' = stops + 1
    /\ UNCHANGED <<flags, done, database, at>>

Exit(i) ==
    /\ pc[i] = "closing"
    /\ Ended(i)
    /\ UNCHANGED <<flags, database, stops>>

(* The process ends where it is; Postgres rolls the open transaction back. *)
Crash(i) ==
    /\ stops < MaxStops
    /\ pc[i] # "down"
    /\ Ended(i)
    /\ stops' = stops + 1
    /\ UNCHANGED <<flags, database>>

BootStep(i) ==
    \/ Start(i)
    \/ LookForTable(i)
    \/ CreateTable(i)
    \/ ReadDone(i)
    \/ RunScript(i)
    \/ Record(i)
    \/ MigrationsDone(i)
    \/ SeedRow(i)
    \/ Listen(i)
    \/ StartWorkers(i)

-----------------------------------------------------------------------------
BootTypeOK ==
    /\ flags \in Flags
    /\ pc \in [Instances -> {"down", "connected", "creating", "reading", "migrating",
                             "recording", "seeding", "ready", "listening", "working",
                             "closing"}]
    /\ done \in [Instances -> SUBSET Migrations]
    /\ table \in BOOLEAN
    /\ objects \subseteq Migrations
    /\ recorded \subseteq Migrations
    /\ rows \subseteq SeedRows
    /\ at \in [Instances -> SeedRows]
    /\ stops \in 0..MaxStops

(* "Idempotent: re-running applies only new files" (migrate.ts): with       *)
(* instances that race and die between two statements, what is recorded is *)
(* what exists, a prefix of the files, so that no restart is refused.       *)
MigratedInOrder ==
    /\ objects = recorded
    /\ \A f \in recorded : 1..f \subseteq recorded
    /\ \A i, j \in Instances :
          pc[i] = "recording" /\ pc[j] = "recording" => i = j

(* "safe to call on every boot" (seed.ts): an API that takes requests has   *)
(* the whole schema, and the whole demo data when it seeds, also when an   *)
(* earlier boot has died half way through the seed.                        *)
ServesReady ==
    \A i \in Apis :
        Listening(i) =>
            /\ recorded = Migrations
            /\ flags.seed => rows = SeedRows

=============================================================================
