--------------------------- MODULE Onboarding_proofs ---------------------------
(***************************************************************************)
(* Proofs about Onboarding: however many instances boot, die and restart,  *)
(* with however many migrations and rows of the seed, the schema grows     *)
(* file by file and an API that listens has all of it; and whatever else   *)
(* fails, the answer to an onboarding request tells what happened.         *)
(***************************************************************************)
EXTENDS Onboarding, TLAPS

-----------------------------------------------------------------------------
(* The migrations in a table are those up to some number, so the next file *)
(* is the next number.                                                     *)
Prefix(S) == \E n \in 0..LastMigration : S = 1..n

LEMMA NextFile ==
    ASSUME NEW n \in 0..LastMigration, 1..n # Migrations
    PROVE  n + 1 \in Migrations /\ Min(Migrations \ 1..n) = n + 1
  <1>1. LastMigration \in Nat \ {0}
    BY BootConstants
  <1>2. n < LastMigration
    BY <1>1 DEF Migrations
  <1>3. n + 1 \in Migrations \ 1..n
    BY <1>1, <1>2 DEF Migrations
  <1>4. \A f \in Migrations \ 1..n : n + 1 <= f
    BY <1>1 DEF Migrations
  <1>5. \A f \in Migrations \ 1..n :
            (\A g \in Migrations \ 1..n : f <= g) => f = n + 1
    BY <1>1, <1>3, <1>4 DEF Migrations
  <1>6. QED
    BY <1>3, <1>4, <1>5 DEF Min

(* What instances have seen done is done, in order; the one that is about  *)
(* to record a file has seen everything and is alone.                      *)
SchemaInv ==
    /\ objects = recorded
    /\ Prefix(recorded)
    /\ \A i \in Instances : Prefix(done[i]) /\ done[i] \subseteq recorded
    /\ \A i \in Instances : pc[i] = "recording" => done[i] = recorded /\ done[i] # Migrations
    /\ \A i, j \in Instances : pc[i] = "recording" /\ pc[j] = "recording" => i = j

(* How far an instance can be, given the schema and the rows.              *)
ReadyInv ==
    /\ flags.seed => flags.migrate
    /\ ~Prepared => recorded = Migrations
    /\ \A i \in Instances :
          /\ pc[i] # "seeding" => at[i] = 1
          /\ pc[i] = "seeding" =>
                flags.seed /\ recorded = Migrations /\ 1..(at[i] - 1) \subseteq rows
          /\ i \in Apis /\ pc[i] \in {"ready", "listening", "working"} =>
                recorded = Migrations /\ (flags.seed => rows = SeedRows)

BootInv == BootTypeOK /\ SchemaInv /\ ReadyInv

LEMMA BootInitInv == BootInit => BootInv
  <1> SUFFICES ASSUME BootInit
               PROVE  BootInv
    OBVIOUS
  <1> USE DEF BootInit
  <1>1. BootTypeOK
    BY BootConstants DEF BootTypeOK, Flags, Migrations, SeedRows, Prepared
  <1>2. Prefix({}) /\ Prefix(Migrations)
    <2>1. {} = 1..0 /\ Migrations = 1..LastMigration
      BY DEF Migrations
    <2>2. 0 \in 0..LastMigration /\ LastMigration \in 0..LastMigration
      BY BootConstants
    <2>3. QED
      BY <2>1, <2>2 DEF Prefix
  <1>3. SchemaInv
    BY <1>2 DEF SchemaInv
  <1>4. ReadyInv
    BY DEF ReadyInv
  <1>5. QED
    BY <1>1, <1>3, <1>4 DEF BootInv

(* Every step of the booting, and every end of a process, keeps it.        *)
LEMMA BootInvStep ==
    ASSUME BootInv,
           \/ \E i \in Instances : BootStep(i) \/ Terminate(i) \/ Exit(i) \/ Crash(i)
           \/ UNCHANGED bootVars
    PROVE  BootInv'
  <1> USE DEF BootInv, database, Goto, Enter, Ended, Throw
  <1>n. Prefix({})
    <2>1. {} = 1..0 /\ 0 \in 0..LastMigration
      BY BootConstants
    <2>2. QED
      BY <2>1 DEF Prefix
  <1>c. /\ LastRow \in Nat \ {0} /\ MaxStops \in Nat /\ 1 \in SeedRows
    BY BootConstants DEF SeedRows
  <1>1. ASSUME NEW i \in Instances, Start(i)
        PROVE  BootInv'
    BY <1>1, <1>n DEF Start, BootTypeOK, SchemaInv, ReadyInv, Prepared, Apis
  <1>2. ASSUME NEW i \in Instances, LookForTable(i)
        PROVE  BootInv'
    BY <1>2 DEF LookForTable, BootTypeOK, SchemaInv, ReadyInv, Prepared, Apis
  <1>3. ASSUME NEW i \in Instances, CreateTable(i)
        PROVE  BootInv'
    <2>1. BootTypeOK'
      BY <1>3, <1>c DEF CreateTable, BootTypeOK
    <2>2. SchemaInv'
      BY <1>3, <1>n DEF CreateTable, BootTypeOK, SchemaInv
    <2>3. ReadyInv'
      BY <1>3 DEF CreateTable, BootTypeOK, ReadyInv, Prepared, Apis
    <2>4. QED
      BY <2>1, <2>2, <2>3
  <1>4. ASSUME NEW i \in Instances, ReadDone(i)
        PROVE  BootInv'
    BY <1>4 DEF ReadDone, BootTypeOK, SchemaInv, ReadyInv, Prepared, Apis
  <1>5. ASSUME NEW i \in Instances, RunScript(i)
        PROVE  BootInv'
    <2>1. PICK m \in 0..LastMigration : recorded = 1..m
      BY DEF SchemaInv, Prefix
    <2>2. PICK n \in 0..LastMigration : done[i] = 1..n
      BY DEF SchemaInv, Prefix
    <2>3. n + 1 \in Migrations /\ File(i) = n + 1
      BY <1>5, <2>2, NextFile DEF RunScript, File
    <2>4. CASE File(i) \in objects
      <3>1. BootTypeOK'
        BY <1>5, <1>c, <2>4 DEF RunScript, BootTypeOK
      <3>2. SchemaInv'
        BY <1>5, <1>n, <2>4 DEF RunScript, BootTypeOK, SchemaInv
      <3>3. ReadyInv'
        BY <1>5, <2>4 DEF RunScript, BootTypeOK, ReadyInv, Prepared, Apis
      <3>4. QED
        BY <3>1, <3>2, <3>3
    <2>5. CASE File(i) \notin objects
      <3>1. n + 1 \notin 1..m /\ 1..n \subseteq 1..m
        BY <2>1, <2>2, <2>3, <2>5 DEF SchemaInv
      <3>2. done[i] = recorded
        <4>1. n = m
          BY <3>1, BootConstants
        <4>2. QED
          BY <2>1, <2>2, <4>1
      <3>3. \A j \in Instances \ {i} : pc[j] # "recording"
        BY <1>5, <3>2 DEF RunScript, SchemaInv, File
      <3>4. SchemaInv'
        BY <1>5, <2>5, <3>2, <3>3 DEF RunScript, SchemaInv, BootTypeOK
      <3>5. QED
        BY <1>5, <2>5, <3>4 DEF RunScript, BootTypeOK, ReadyInv, Prepared, Apis
    <2>6. QED
      BY <2>4, <2>5
  <1>6. ASSUME NEW i \in Instances, Record(i)
        PROVE  BootInv'
    <2>1. PICK m \in 0..LastMigration : recorded = 1..m /\ done[i] = 1..m /\ 1..m # Migrations
      BY <1>6 DEF Record, SchemaInv, Prefix
    <2>2. m + 1 \in Migrations /\ File(i) = m + 1
      BY <2>1, NextFile DEF File
    <2>3. 1..(m + 1) = 1..m \cup {m + 1} /\ m + 1 \in 0..LastMigration
      BY <2>2, BootConstants DEF Migrations
    <2>4. /\ recorded' = 1..(m + 1) /\ objects' = recorded'
          /\ done' = [done EXCEPT ![i] = 1..(m + 1)]
          /\ recorded \subseteq recorded'
      BY <1>6, <2>1, <2>2, <2>3 DEF Record, SchemaInv
    <2>5. \A j \in Instances : pc'[j] # "recording"
      BY <1>6 DEF Record, SchemaInv, BootTypeOK
    <2>6. SchemaInv'
      <3>1. Prefix(recorded)'
        BY <2>3, <2>4 DEF Prefix
      <3>2. \A j \in Instances : (Prefix(done[j]) /\ done[j] \subseteq recorded)'
        BY <2>3, <2>4 DEF SchemaInv, BootTypeOK, Prefix
      <3>3. QED
        BY <2>4, <2>5, <3>1, <3>2 DEF SchemaInv
    <2>7. recorded # Migrations
      BY <2>1
    <2>8. ReadyInv'
      BY <1>6, <2>7 DEF Record, ReadyInv, Prepared, Apis, BootTypeOK
    <2>9. BootTypeOK'
      BY <1>6, <2>2 DEF Record, BootTypeOK
    <2>10. QED
      BY <2>6, <2>8, <2>9
  <1>7. ASSUME NEW i \in Instances, MigrationsDone(i)
        PROVE  BootInv'
    <2>1. recorded = Migrations
      BY <1>7 DEF MigrationsDone, SchemaInv, BootTypeOK
    <2>2. BootTypeOK' /\ SchemaInv'
      BY <1>7, <1>n DEF MigrationsDone, BootTypeOK, SchemaInv
    <2>3. at[i] = 1 /\ 1..(at[i] - 1) = {}
      BY <1>7 DEF MigrationsDone, ReadyInv
    <2>4. ReadyInv'
      BY <1>7, <2>1, <2>3 DEF MigrationsDone, ReadyInv, Prepared, Apis, BootTypeOK
    <2>5. QED
      BY <2>2, <2>4
  <1>8. ASSUME NEW i \in Instances, SeedRow(i)
        PROVE  BootInv'
    <2>1. at[i] \in SeedRows /\ at[i] \in 1..LastRow /\ rows \subseteq SeedRows
      BY <1>c DEF BootTypeOK, SeedRows
    <2>2. /\ 1..(at[i] - 1) \cup {at[i]} \subseteq rows'
          /\ rows \subseteq rows' /\ rows' \subseteq SeedRows
      BY <1>8, <2>1 DEF SeedRow, ReadyInv
    <2>3. \A f \in 1..at[i] : f \in rows'
      BY <1>c, <2>1, <2>2
    <2>4. at[i] = LastRow => rows' = SeedRows
      BY <2>2, <2>3 DEF SeedRows
    <2>5. at[i] # LastRow => at[i] + 1 \in SeedRows /\ 1..((at[i] + 1) - 1) \subseteq rows'
      BY <1>c, <2>1, <2>3 DEF SeedRows
    <2>6. BootTypeOK'
      BY <1>8, <1>c, <2>2, <2>5 DEF SeedRow, BootTypeOK
    <2>7. SchemaInv'
      BY <1>8 DEF SeedRow, SchemaInv, BootTypeOK
    <2>8. flags' = flags /\ recorded' = recorded /\ flags.seed /\ recorded = Migrations
      BY <1>8 DEF SeedRow, ReadyInv
    <2>9. \A j \in Instances : (pc[j] = "seeding" => 1..(at[j] - 1) \subseteq rows)'
      BY <1>8, <2>1, <2>2, <2>5 DEF SeedRow, ReadyInv, BootTypeOK
    <2>10. \A j \in Instances :
               (j \in Apis /\ pc[j] \in {"ready", "listening", "working"} => rows = SeedRows)'
      BY <1>8, <2>2, <2>4, <2>8 DEF SeedRow, ReadyInv, BootTypeOK, Apis
    <2>11. \A j \in Instances : (pc[j] # "seeding" => at[j] = 1)'
      BY <1>8 DEF SeedRow, ReadyInv, BootTypeOK
    <2>12. ReadyInv'
      BY <2>8, <2>9, <2>10, <2>11 DEF ReadyInv, Prepared
    <2>13. QED
      BY <2>6, <2>7, <2>12
  <1>9. ASSUME NEW i \in Instances, Listen(i)
        PROVE  BootInv'
    BY <1>9 DEF Listen, BootTypeOK, SchemaInv, ReadyInv, Prepared, Apis
  <1>10. ASSUME NEW i \in Instances, StartWorkers(i)
         PROVE  BootInv'
    BY <1>10 DEF StartWorkers, BootTypeOK, SchemaInv, ReadyInv, Prepared, Apis
  <1>11. ASSUME NEW i \in Instances, Terminate(i)
         PROVE  BootInv'
    BY <1>11, <1>c DEF Terminate, BootTypeOK, SchemaInv, ReadyInv, Prepared, Apis
  <1>12. ASSUME NEW i \in Instances, Exit(i) \/ Crash(i)
         PROVE  BootInv'
    <2>1. BootTypeOK'
      BY <1>12, <1>c DEF Exit, Crash, BootTypeOK
    <2>2. SchemaInv'
      BY <1>12, <1>n DEF Exit, Crash, BootTypeOK, SchemaInv
    <2>3. ReadyInv'
      BY <1>12 DEF Exit, Crash, BootTypeOK, ReadyInv, Prepared, Apis
    <2>4. QED
      BY <2>1, <2>2, <2>3
  <1>13. CASE UNCHANGED bootVars
    BY <1>13 DEF bootVars, BootTypeOK, SchemaInv, ReadyInv, Prepared, Apis
  <1>14. QED
    BY <1>1, <1>2, <1>3, <1>4, <1>5, <1>6, <1>7, <1>8, <1>9, <1>10, <1>11, <1>12, <1>13
    DEF BootStep

-----------------------------------------------------------------------------
(* The steps of Onboarding that are not Boot's leave its variables alone.  *)
LEMMA BootPart ==
    ASSUME [Next]_vars
    PROVE  \/ \E i \in Instances : BootStep(i) \/ Terminate(i) \/ Exit(i) \/ Crash(i)
           \/ UNCHANGED bootVars
  <1>1. ASSUME NEW i \in Instances, Boots(i) \/ Closes(i) \/ Exits(i) \/ Crashes(i)
        PROVE  BootStep(i) \/ Terminate(i) \/ Exit(i) \/ Crash(i)
    BY <1>1 DEF Boots, Closes, Exits, Crashes
  <1>2. ASSUME NEW r \in Requests,
               \/ \E kind \in Kinds : Submit(r, kind)
               \/ Serve(r) \/ NombaFails(r) \/ NombaRefuses(r) \/ InsertThrows(r)
               \/ ResponseLost(r)
        PROVE  UNCHANGED bootVars
    BY <1>2 DEF Submit, Serve, Accept, NombaAnswers, InsertCustomer, InsertAccount, Respond,
                NombaFails, NombaRefuses, InsertThrows, ResponseLost, Reply
  <1>3. Pay \/ Webhook \/ Poll \/ Reconcile \/ UNCHANGED vars => UNCHANGED bootVars
    BY DEF Pay, Webhook, Poll, Reconcile, vars
  <1>4. QED
    BY <1>1, <1>2, <1>3 DEF Next

(* The inductive invariant of the boots, among all the other steps.        *)
THEOREM BootInvariance == Spec => []BootInv
  <1>1. Init => BootInv
    BY BootInitInv DEF Init
  <1>2. BootInv /\ [Next]_vars => BootInv'
    BY BootInvStep, BootPart
  <1>3. QED
    BY <1>1, <1>2, PTL DEF Spec

(* migrate.ts: with any number of instances that race and die, what is     *)
(* recorded is what exists, and a prefix of the files.                     *)
THEOREM MigratedInOrderAlways == Spec => []MigratedInOrder
  <1>1. ASSUME BootInv
        PROVE  MigratedInOrder
    <2>1. PICK m \in 0..LastMigration : recorded = 1..m
      BY <1>1 DEF BootInv, SchemaInv, Prefix
    <2>2. \A f \in 1..m : 1..f \subseteq 1..m
      BY BootConstants
    <2>3. QED
      BY <1>1, <2>1, <2>2 DEF BootInv, SchemaInv, MigratedInOrder
  <1>2. QED
    BY <1>1, BootInvariance, PTL

(* server.ts, seed.ts: an API that takes requests has every migration and, *)
(* when it seeds, every row.                                               *)
THEOREM ServesReadyAlways == Spec => []ServesReady
  <1>1. BootInv => ServesReady
    BY DEF BootInv, ReadyInv, ServesReady, Listening, Apis
  <1>2. QED
    BY <1>1, BootInvariance, PTL

-----------------------------------------------------------------------------
(* What has become of the rows up to a number: each is created or failed,  *)
(* and not both.                                                           *)
CreatedRows(row) == {ref[2] : ref \in row.created}

Accounted(row, upto) ==
    /\ CreatedRows(row) \cup row.failed = FirstRow(row.kind)..upto
    /\ CreatedRows(row) \cap row.failed = {}

RequestType ==
    [pc : {"idle", "sent", "calling", "customer", "account", "answering", "over"},
     kind : Kinds, server : SUBSET Instances, row : 0..Len(Roster), attempt : 0..Retries,
     created : SUBSET Refs, failed : SUBSET (0..Len(Roster))]

(* A request at a row has accounted for those before it, one that is about *)
(* to answer for all of them.                                              *)
Progress(row) ==
    /\ row.pc \in {"sent", "calling", "customer", "account"} =>
          /\ row.row \in FirstRow(row.kind)..FinalRow(row.kind)
          /\ Accounted(row, row.row - 1)
    /\ row.pc = "answering" => Accounted(row, FinalRow(row.kind))

LEMMA Rows ==
    ASSUME NEW kind \in Kinds
    PROVE  /\ FirstRow(kind) \in 0..1 /\ FinalRow(kind) \in 0..Len(Roster)
           /\ FirstRow(kind) <= FinalRow(kind)
           /\ Len(Roster) \in Nat \ {0} /\ Retries \in Nat
  BY OnboardingConstants DEF FirstRow, FinalRow

(* The next row, or the end, when the present one is accounted for.        *)
After(row) ==
    IF row.row < FinalRow(row.kind)
    THEN [row EXCEPT !.pc = "calling", !.row = @ + 1, !.attempt = 0]
    ELSE [row EXCEPT !.pc = "answering"]

LEMMA AfterProgress ==
    ASSUME NEW row \in RequestType, row.row \in FirstRow(row.kind)..FinalRow(row.kind),
           Accounted(row, row.row)
    PROVE  /\ After(row) \in RequestType /\ Progress(After(row))
           /\ After(row).created = row.created
           /\ After(row).pc \in {"calling", "answering"}
  <1>1. row.kind \in Kinds /\ row.row \in 0..Len(Roster)
    BY DEF RequestType
  <1>2. CASE row.row < FinalRow(row.kind)
    <2> DEFINE next == [row EXCEPT !.pc = "calling", !.row = @ + 1, !.attempt = 0]
    <2>1. row.row + 1 \in 0..Len(Roster) /\ 0 \in 0..Retries
          /\ row.row + 1 \in FirstRow(row.kind)..FinalRow(row.kind) /\ (row.row + 1) - 1 = row.row
      BY <1>1, <1>2, Rows
    <2>2. next \in RequestType /\ After(row) = next
      BY <1>2, <2>1 DEF RequestType, After
    <2>3. /\ next.pc = "calling" /\ next.row = row.row + 1 /\ next.kind = row.kind
          /\ next.created = row.created /\ next.failed = row.failed
      BY DEF RequestType
    <2> HIDE DEF next
    <2>4. Progress(next)
      BY <2>1, <2>3 DEF Progress, Accounted, CreatedRows
    <2>5. QED
      BY <2>2, <2>3, <2>4
  <1>3. CASE ~(row.row < FinalRow(row.kind))
    <2> DEFINE next == [row EXCEPT !.pc = "answering"]
    <2>1. row.row = FinalRow(row.kind)
      BY <1>1, <1>3, Rows
    <2>2. next \in RequestType /\ After(row) = next
      BY <1>3 DEF RequestType, After
    <2>3. /\ next.pc = "answering" /\ next.kind = row.kind
          /\ next.created = row.created /\ next.failed = row.failed
      BY DEF RequestType
    <2> HIDE DEF next
    <2>4. Progress(next)
      BY <2>1, <2>3 DEF Progress, Accounted, CreatedRows
    <2>5. QED
      BY <2>2, <2>3, <2>4
  <1>4. QED
    BY <1>2, <1>3

(* A row that throws, and one that gets its account.                       *)
Failed(row) == [row EXCEPT !.failed = @ \cup {row.row}]
WithAccount(row, ref) == [row EXCEPT !.created = @ \cup {ref}]

LEMMA RowAccounted ==
    ASSUME NEW row \in RequestType, row.pc \in {"calling", "customer", "account"}, Progress(row),
           NEW ref \in Refs, ref[2] = row.row
    PROVE  /\ Failed(row) \in RequestType /\ Failed(row).row = row.row
           /\ Failed(row).kind = row.kind /\ Failed(row).created = row.created
           /\ Accounted(Failed(row), row.row)
           /\ WithAccount(row, ref) \in RequestType /\ WithAccount(row, ref).row = row.row
           /\ WithAccount(row, ref).kind = row.kind
           /\ WithAccount(row, ref).created = row.created \cup {ref}
           /\ Accounted(WithAccount(row, ref), row.row)
  <1>1. row.kind \in Kinds /\ row.row \in 0..Len(Roster)
    BY DEF RequestType
  <1>2. Failed(row) \in RequestType /\ WithAccount(row, ref) \in RequestType
    BY <1>1 DEF RequestType, Failed, WithAccount
  <1>3. /\ Failed(row).row = row.row /\ Failed(row).kind = row.kind
        /\ Failed(row).created = row.created /\ Failed(row).failed = row.failed \cup {row.row}
        /\ WithAccount(row, ref).row = row.row /\ WithAccount(row, ref).kind = row.kind
        /\ WithAccount(row, ref).created = row.created \cup {ref}
        /\ WithAccount(row, ref).failed = row.failed
    BY DEF RequestType, Failed, WithAccount
  <1>4. /\ row.row \in FirstRow(row.kind)..FinalRow(row.kind)
        /\ CreatedRows(row) \cup row.failed = FirstRow(row.kind)..(row.row - 1)
        /\ CreatedRows(row) \cap row.failed = {}
    BY DEF Progress, Accounted
  <1>5. /\ FirstRow(row.kind)..row.row = FirstRow(row.kind)..(row.row - 1) \cup {row.row}
        /\ row.row \notin FirstRow(row.kind)..(row.row - 1)
    BY <1>1, <1>4, Rows
  <1>6. /\ CreatedRows(Failed(row)) = CreatedRows(row)
        /\ CreatedRows(WithAccount(row, ref)) = CreatedRows(row) \cup {row.row}
    BY <1>3 DEF CreatedRows
  <1>7. Accounted(Failed(row), row.row) /\ Accounted(WithAccount(row, ref), row.row)
    BY <1>3, <1>4, <1>5, <1>6 DEF Accounted
  <1>8. QED
    BY <1>2, <1>3, <1>7

-----------------------------------------------------------------------------
(* A request and its answer: what it has created is in the tables, what it *)
(* is about to create lacks only the step it is at, and once it has been   *)
(* answered it is over.                                                    *)
Sound(r) ==
    /\ Progress(request[r])
    /\ request[r].created \subseteq accounts \cap customers \cap vas
    /\ request[r].pc \in {"customer", "account"} => Ref(r) \in accounts
    /\ request[r].pc = "account" => Ref(r) \in customers
    /\ request[r].pc \in {"idle", "sent", "over"} => request[r].server = {}
    /\ answer[r].status # "none" => request[r].pc = "over"

Truthful(r) ==
    answer[r].status = "report" =>
        LET reported == {ref[2] : ref \in answer[r].created} IN
        /\ reported \cup answer[r].failed
              = FirstRow(request[r].kind)..FinalRow(request[r].kind)
        /\ reported \cap answer[r].failed = {}
        /\ answer[r].created \subseteq accounts \cap customers \cap vas

RequestInv ==
    /\ request \in [Requests -> RequestType]
    /\ DOMAIN answer = Requests
    /\ answer = [r \in Requests |-> answer[r]]
    /\ \A r \in Requests : Sound(r) /\ Truthful(r)

LEMMA RefType ==
    ASSUME NEW r \in Requests, request[r] \in RequestType, Progress(request[r]),
           request[r].pc \in {"calling", "customer", "account"}
    PROVE  Ref(r) \in Refs /\ Ref(r)[2] = request[r].row
  <1>1. request[r].kind \in Kinds /\ request[r].row \in 0..Len(Roster)
    BY DEF RequestType
  <1>2. request[r].row \in FirstRow(request[r].kind)..FinalRow(request[r].kind)
    BY DEF Progress
  <1>3. request[r].kind = "given" => request[r].row = 0
    BY <1>1, <1>2 DEF FirstRow, FinalRow
  <1>4. QED
    BY <1>1, <1>3 DEF Ref, Refs

(* A step that concerns one request and its tables at most leaves what is  *)
(* known of the others.                                                    *)
LEMMA OthersSound ==
    ASSUME RequestInv, NEW r \in Requests,
           accounts \subseteq accounts', customers \subseteq customers', vas \subseteq vas',
           NEW row \in RequestType, request' = [request EXCEPT ![r] = row],
           Sound(r)', Truthful(r)',
           \/ UNCHANGED answer
           \/ \E reply : answer' = [answer EXCEPT ![r] = reply]
    PROVE  RequestInv'
  <1>1. request' \in [Requests -> RequestType]
    BY DEF RequestInv
  <1>2. DOMAIN answer' = Requests /\ answer' = [q \in Requests |-> answer'[q]]
    BY DEF RequestInv
  <1>3. ASSUME NEW q \in Requests, q # r
        PROVE  Sound(q)' /\ Truthful(q)'
    <2>1. request'[q] = request[q] /\ answer'[q] = answer[q]
      BY <1>3 DEF RequestInv
    <2>2. Sound(q) /\ Truthful(q)
      BY DEF RequestInv
    <2>3. Ref(q)' = Ref(q)
      BY <2>1 DEF Ref
    <2>4. Sound(q)'
      BY <2>1, <2>2, <2>3 DEF Sound
    <2>5. Truthful(q)'
      BY <2>1, <2>2 DEF Truthful
    <2>6. QED
      BY <2>4, <2>5
  <1>4. QED
    BY <1>1, <1>2, <1>3 DEF RequestInv

(* The row that has been dealt with is followed by the next or the answer. *)
LEMMA ContinueSound ==
    ASSUME RequestInv, NEW r \in Requests, NEW row \in RequestType, Continue(r, row),
           row.row \in FirstRow(row.kind)..FinalRow(row.kind), Accounted(row, row.row),
           accounts \subseteq accounts', customers \subseteq customers', vas \subseteq vas',
           row.created \subseteq accounts' \cap customers' \cap vas',
           request[r].pc \in {"calling", "customer", "account"}, UNCHANGED answer
    PROVE  RequestInv'
  <1>1. request' = [request EXCEPT ![r] = After(row)]
    BY DEF Continue, After
  <1>2. /\ After(row) \in RequestType /\ Progress(After(row))
        /\ After(row).created = row.created /\ After(row).pc \in {"calling", "answering"}
    BY AfterProgress
  <1>3. request'[r] = After(row) /\ answer[r].status = "none"
    BY <1>1 DEF RequestInv, Sound
  <1>4. Sound(r)'
    BY <1>2, <1>3 DEF Sound
  <1>5. Truthful(r)'
    BY <1>3 DEF Truthful
  <1>6. QED
    BY <1>1, <1>2, <1>4, <1>5, OthersSound

LEMMA RowThrowsSound ==
    ASSUME RequestInv, NEW r \in Requests, RowThrows(r),
           accounts \subseteq accounts', customers \subseteq customers', vas \subseteq vas',
           request[r].pc \in {"calling", "customer", "account"}, UNCHANGED answer
    PROVE  RequestInv'
  <1>1. request[r] \in RequestType /\ Sound(r)
    BY DEF RequestInv
  <1>2. Ref(r) \in Refs /\ Ref(r)[2] = request[r].row
    BY <1>1, RefType DEF Sound
  <1>3. /\ Failed(request[r]) \in RequestType /\ Failed(request[r]).row = request[r].row
        /\ Failed(request[r]).kind = request[r].kind
        /\ Failed(request[r]).created = request[r].created
        /\ Accounted(Failed(request[r]), request[r].row)
    BY <1>1, <1>2, RowAccounted DEF Sound
  <1>4. Continue(r, Failed(request[r]))
    BY DEF RowThrows, Failed
  <1>5. request[r].row \in FirstRow(request[r].kind)..FinalRow(request[r].kind)
    BY <1>1 DEF Sound, Progress
  <1>6. request[r].created \subseteq accounts' \cap customers' \cap vas'
    BY <1>1 DEF Sound
  <1>7. QED
    BY <1>3, <1>4, <1>5, <1>6, ContinueSound

(* A request that stays at its row.                                        *)
LEMMA SameRowSound ==
    ASSUME RequestInv, NEW r \in Requests, NEW row \in RequestType,
           request' = [request EXCEPT ![r] = row], UNCHANGED answer,
           request[r].pc \in {"sent", "calling", "customer", "account"},
           row.pc \in {"calling", "customer", "account"},
           row.kind = request[r].kind, row.row = request[r].row,
           row.created = request[r].created, row.failed = request[r].failed,
           accounts \subseteq accounts', customers \subseteq customers', vas \subseteq vas',
           row.pc \in {"customer", "account"} => Ref(r) \in accounts',
           row.pc = "account" => Ref(r) \in customers'
    PROVE  RequestInv'
  <1>1. Sound(r) /\ request'[r] = row
    BY DEF RequestInv
  <1>2. Progress(row)
    BY <1>1 DEF Sound, Progress, Accounted, CreatedRows
  <1>3. Ref(r)' = Ref(r)
    BY <1>1 DEF Ref
  <1>4. answer[r].status = "none"
    BY <1>1 DEF Sound
  <1>5. Sound(r)' /\ Truthful(r)'
    BY <1>1, <1>2, <1>3, <1>4 DEF Sound, Truthful
  <1>6. QED
    BY <1>5, OthersSound

(* An answered request is over.                                            *)
LEMMA ReplySound ==
    ASSUME RequestInv, NEW r \in Requests, NEW reply, Reply(r, reply),
           reply.status = "report" =>
               /\ reply.created = request[r].created
               /\ reply.failed = request[r].failed
    PROVE  RequestInv'
  <1> DEFINE row == Over(request[r])
  <1>1. request[r] \in RequestType /\ Sound(r) /\ request[r].pc = "answering"
    BY DEF RequestInv, Reply, At
  <1>0. request[r].kind \in Kinds /\ 0 \in 0..Len(Roster) /\ 0 \in 0..Retries
    BY <1>1, OnboardingConstants DEF RequestType
  <1>2. /\ row \in RequestType
        /\ row.pc = "over" /\ row.kind = request[r].kind /\ row.created = {} /\ row.server = {}
    BY <1>0 DEF Over, NotSent, RequestType
  <1>3. request' = [request EXCEPT ![r] = row] /\ answer' = [answer EXCEPT ![r] = reply]
    BY DEF Reply
  <1> HIDE DEF row
  <1>4. request'[r] = row /\ answer'[r] = reply /\ UNCHANGED <<accounts, customers, vas>>
    BY <1>3 DEF RequestInv, Reply, tables
  <1>5. Sound(r)'
    BY <1>2, <1>4 DEF Sound, Progress
  <1>6. Truthful(r)'
    BY <1>1, <1>2, <1>4 DEF Truthful, Sound, Progress, Accounted, CreatedRows
  <1>7. QED
    BY <1>2, <1>3, <1>4, <1>5, <1>6, OthersSound

-----------------------------------------------------------------------------
(* Every step of a request keeps it, whatever Nomba and the tables do.     *)
LEMMA RequestInvStep ==
    ASSUME RequestInv, [Next]_vars
    PROVE  RequestInv'
  <1> USE DEF tables
  <1>r. ASSUME NEW r \in Requests
        PROVE  /\ request[r] \in RequestType /\ Sound(r) /\ Truthful(r)
               /\ request[r].kind \in Kinds /\ request[r].row \in 0..Len(Roster)
    BY DEF RequestInv, RequestType
  <1>0. NotSent \in RequestType /\ 0 \in 0..Len(Roster) /\ 0 \in 0..Retries
    BY OnboardingConstants DEF NotSent, RequestType, Kinds
  <1>1. ASSUME NEW r \in Requests, NEW kind \in Kinds, Submit(r, kind)
        PROVE  RequestInv'
    <2> DEFINE row == [NotSent EXCEPT !.pc = "sent", !.kind = kind, !.row = FirstRow(kind)]
    <2>1. FirstRow(kind) \in FirstRow(kind)..FinalRow(kind) /\ FirstRow(kind) \in 0..Len(Roster)
          /\ FirstRow(kind)..(FirstRow(kind) - 1) = {}
      BY Rows
    <2>2. row \in RequestType
      BY <1>0, <2>1 DEF RequestType
    <2>3. /\ row.pc = "sent" /\ row.kind = kind /\ row.row = FirstRow(kind)
          /\ row.created = {} /\ row.failed = {} /\ row.server = {}
      BY DEF NotSent
    <2>4. request' = [request EXCEPT ![r] = row] /\ request[r].pc = "idle"
      BY <1>1 DEF Submit, At
    <2> HIDE DEF row
    <2>5. Progress(row)
      BY <2>1, <2>3 DEF Progress, Accounted, CreatedRows
    <2>6. request'[r] = row /\ UNCHANGED <<answer, accounts, customers, vas>>
      BY <1>1, <2>4 DEF Submit, RequestInv
    <2>7. answer[r].status = "none"
      BY <1>r, <2>4 DEF Sound
    <2>8. Sound(r)' /\ Truthful(r)'
      BY <2>3, <2>5, <2>6, <2>7 DEF Sound, Truthful
    <2>9. QED
      BY <2>2, <2>4, <2>6, <2>8, OthersSound
  <1>2. ASSUME NEW r \in Requests, Accept(r)
        PROVE  RequestInv'
    <2>1. PICK i \in Apis : request' = [request EXCEPT ![r].pc = "calling", ![r].server = {i}]
      BY <1>2 DEF Accept
    <2> DEFINE row == [request[r] EXCEPT !.pc = "calling", !.server = {i}]
    <2>2. row \in RequestType
      BY <1>r, <2>1 DEF RequestType, Apis
    <2>3. /\ row.pc = "calling" /\ row.kind = request[r].kind /\ row.row = request[r].row
          /\ row.created = request[r].created /\ row.failed = request[r].failed
      BY <1>r DEF RequestType
    <2>4. request' = [request EXCEPT ![r] = row] /\ request[r].pc = "sent"
          /\ UNCHANGED <<answer, accounts, customers, vas>>
      BY <1>2, <2>1 DEF Accept, At
    <2> HIDE DEF row
    <2>5. QED
      BY <2>2, <2>3, <2>4, SameRowSound
  <1>3. ASSUME NEW r \in Requests, NombaAnswers(r)
        PROVE  RequestInv'
    <2> DEFINE row == [request[r] EXCEPT !.pc = "customer"]
    <2>1. row \in RequestType
      BY <1>r DEF RequestType
    <2>2. /\ row.pc = "customer" /\ row.kind = request[r].kind /\ row.row = request[r].row
          /\ row.created = request[r].created /\ row.failed = request[r].failed
      BY <1>r DEF RequestType
    <2>3. request' = [request EXCEPT ![r] = row] /\ request[r].pc = "calling"
          /\ accounts' = accounts \cup {Ref(r)} /\ UNCHANGED <<answer, customers, vas>>
      BY <1>3 DEF NombaAnswers, At
    <2> HIDE DEF row
    <2>4. QED
      BY <2>1, <2>2, <2>3, SameRowSound
  <1>4. ASSUME NEW r \in Requests, NombaFails(r)
        PROVE  RequestInv'
    <2>1. request[r].pc = "calling" /\ accounts \subseteq accounts'
          /\ UNCHANGED <<answer, customers, vas>>
      BY <1>4 DEF NombaFails, At
    <2>2. CASE request[r].attempt < Retries
      <3> DEFINE row == [request[r] EXCEPT !.attempt = @ + 1]
      <3>0. request[r].attempt + 1 \in 0..Retries
        BY <1>r, <2>2, OnboardingConstants DEF RequestType
      <3>1. row \in RequestType
        BY <1>r, <3>0 DEF RequestType
      <3>2. /\ row.pc = request[r].pc /\ row.kind = request[r].kind /\ row.row = request[r].row
            /\ row.created = request[r].created /\ row.failed = request[r].failed
        BY <1>r DEF RequestType
      <3>3. request' = [request EXCEPT ![r] = row]
        BY <1>4, <2>2 DEF NombaFails
      <3> HIDE DEF row
      <3>4. QED
        BY <2>1, <3>1, <3>2, <3>3, SameRowSound
    <2>3. CASE ~(request[r].attempt < Retries)
      <3>1. RowThrows(r)
        BY <1>4, <2>3 DEF NombaFails
      <3>2. QED
        BY <2>1, <3>1, RowThrowsSound
    <2>4. QED
      BY <2>2, <2>3
  <1>5. ASSUME NEW r \in Requests, NombaRefuses(r)
        PROVE  RequestInv'
    BY <1>5, RowThrowsSound DEF NombaRefuses, At
  <1>6. ASSUME NEW r \in Requests, InsertCustomer(r)
        PROVE  RequestInv'
    <2>1. request[r].pc = "customer" /\ customers' = customers \cup {Ref(r)}
          /\ UNCHANGED <<answer, accounts, vas>> /\ Ref(r) \in accounts
      BY <1>6, <1>r DEF InsertCustomer, At, Sound
    <2>2. CASE Ref(r) \in customers
      <3>1. RowThrows(r)
        BY <1>6, <2>2 DEF InsertCustomer
      <3>2. QED
        BY <2>1, <3>1, RowThrowsSound
    <2>3. CASE Ref(r) \notin customers
      <3> DEFINE row == [request[r] EXCEPT !.pc = "account"]
      <3>1. row \in RequestType
        BY <1>r DEF RequestType
      <3>2. /\ row.pc = "account" /\ row.kind = request[r].kind /\ row.row = request[r].row
            /\ row.created = request[r].created /\ row.failed = request[r].failed
        BY <1>r DEF RequestType
      <3>3. request' = [request EXCEPT ![r] = row]
        BY <1>6, <2>3 DEF InsertCustomer
      <3> HIDE DEF row
      <3>4. QED
        BY <2>1, <3>1, <3>2, <3>3, SameRowSound
    <2>4. QED
      BY <2>2, <2>3
  <1>7. ASSUME NEW r \in Requests, InsertAccount(r)
        PROVE  RequestInv'
    <2> DEFINE row == WithAccount(request[r], Ref(r))
    <2>1. request[r].pc = "account" /\ vas' = vas \cup {Ref(r)}
          /\ UNCHANGED <<answer, accounts, customers>>
          /\ Continue(r, row)
      BY <1>7 DEF InsertAccount, At, WithAccount
    <2>2. Ref(r) \in Refs /\ Ref(r)[2] = request[r].row
      BY <1>r, <2>1, RefType DEF Sound
    <2>3. /\ row \in RequestType /\ row.row = request[r].row /\ row.kind = request[r].kind
          /\ row.created = request[r].created \cup {Ref(r)}
          /\ Accounted(row, request[r].row)
      BY <1>r, <2>1, <2>2, RowAccounted DEF Sound
    <2> HIDE DEF row
    <2>4. request[r].row \in FirstRow(request[r].kind)..FinalRow(request[r].kind)
      BY <1>r, <2>1 DEF Sound, Progress
    <2>5. row.created \subseteq accounts' \cap customers' \cap vas'
      BY <1>r, <2>1, <2>3 DEF Sound
    <2>6. QED
      BY <2>1, <2>3, <2>4, <2>5, ContinueSound
  <1>8. ASSUME NEW r \in Requests, InsertThrows(r)
        PROVE  RequestInv'
    <2>1. /\ request[r].pc \in {"calling", "customer", "account"} /\ RowThrows(r)
          /\ accounts \subseteq accounts' /\ customers \subseteq customers' /\ vas \subseteq vas'
          /\ UNCHANGED answer
      BY <1>8 DEF InsertThrows
    <2>2. QED
      BY <2>1, RowThrowsSound
  <1>9. ASSUME NEW r \in Requests, Respond(r)
        PROVE  RequestInv'
    <2> DEFINE reply == IF request[r].kind # "roster" /\ request[r].failed # {}
                        THEN Failure
                        ELSE [status |-> "report", created |-> request[r].created,
                              failed |-> request[r].failed]
    <2>1. Reply(r, reply)
      BY <1>9 DEF Respond
    <2>2. reply.status = "report" =>
              reply.created = request[r].created /\ reply.failed = request[r].failed
      BY DEF Failure, NoAnswer
    <2> HIDE DEF reply
    <2>3. QED
      BY <2>1, <2>2, ReplySound
  <1>10. ASSUME NEW r \in Requests, ResponseLost(r)
         PROVE  RequestInv'
    <2>1. Reply(r, Failure) /\ Failure.status = "error"
      BY <1>10 DEF ResponseLost, Failure, NoAnswer
    <2>2. QED
      BY <2>1, ReplySound
  <1>11. ASSUME NEW i \in Instances, Crashes(i)
         PROVE  RequestInv'
    <2>1. ASSUME NEW r \in Requests
          PROVE  Over(request[r]) \in RequestType
      BY <1>r, <1>0 DEF Over, NotSent, RequestType
    <2>2. /\ request' = [r \in Requests |->
                            IF r \in ServedBy(i) THEN Over(request[r]) ELSE request[r]]
          /\ answer' = [r \in Requests |-> IF r \in ServedBy(i) THEN Failure ELSE answer[r]]
          /\ UNCHANGED <<accounts, customers, vas>>
      BY <1>11 DEF Crashes
    <2>3. request' \in [Requests -> RequestType]
      BY <1>r, <2>1, <2>2
    <2>4. DOMAIN answer' = Requests /\ answer' = [r \in Requests |-> answer'[r]]
      BY <2>2
    <2>5. ASSUME NEW r \in Requests
          PROVE  Sound(r)' /\ Truthful(r)'
      <3>1. CASE r \in ServedBy(i)
        <4>1. /\ request'[r] = Over(request[r]) /\ Over(request[r]).pc = "over"
              /\ Over(request[r]).created = {} /\ Over(request[r]).server = {}
              /\ answer'[r].status = "error"
          BY <2>2, <3>1 DEF Over, NotSent, Failure, NoAnswer
        <4>2. QED
          BY <4>1 DEF Sound, Progress, Truthful
      <3>2. CASE r \notin ServedBy(i)
        <4>1. request'[r] = request[r] /\ answer'[r] = answer[r]
          BY <2>2, <3>2
        <4>2. Ref(r)' = Ref(r)
          BY <4>1 DEF Ref
        <4>3. QED
          BY <1>r, <2>2, <4>1, <4>2 DEF Sound, Truthful
      <3>3. QED
        BY <3>1, <3>2
    <2>6. QED
      BY <2>3, <2>4, <2>5 DEF RequestInv
  <1>12. CASE UNCHANGED <<request, answer, tables>>
    BY <1>12 DEF RequestInv, Sound, Truthful, Ref
  <1>13. ASSUME NEW i \in Instances, Boots(i) \/ Closes(i) \/ Exits(i)
         PROVE  UNCHANGED <<request, answer, tables>>
    BY <1>13 DEF Boots, Closes, Exits
  <1>14. Pay \/ Webhook \/ Poll \/ Reconcile \/ UNCHANGED vars
         => UNCHANGED <<request, answer, tables>>
    BY DEF Pay, Webhook, Poll, Reconcile, vars
  <1>15. QED
    BY <1>1, <1>2, <1>3, <1>4, <1>5, <1>6, <1>7, <1>8, <1>9, <1>10, <1>11, <1>12, <1>13, <1>14
    DEF Next, Serve

(* What a request has made, and what its answer says, fit together at each *)
(* step of each row.                                                       *)
THEOREM RequestInvariance == Spec => []RequestInv
  <1>1. ASSUME Init
        PROVE  RequestInv
    <2>1. NotSent \in RequestType
      BY OnboardingConstants DEF NotSent, RequestType, Kinds
    <2>2. request \in [Requests -> RequestType]
      BY <1>1, <2>1 DEF Init
    <2>3. DOMAIN answer = Requests /\ answer = [r \in Requests |-> answer[r]]
      BY <1>1 DEF Init
    <2>4. ASSUME NEW r \in Requests
          PROVE  Sound(r) /\ Truthful(r)
      BY <1>1 DEF Init, Sound, Truthful, Progress, NotSent, NoAnswer
    <2>5. QED
      BY <2>2, <2>3, <2>4 DEF RequestInv
  <1>2. RequestInv /\ [Next]_vars => RequestInv'
    BY RequestInvStep
  <1>3. QED
    BY <1>1, <1>2, PTL DEF Spec

(* What the console is told about an onboarding request is what happened:  *)
(* app.ts and school.ts, for any roster, retries, failures and restarts.   *)
THEOREM ReportTruthfulAlways == Spec => []ReportTruthful
  <1>1. RequestInv => ReportTruthful
    BY DEF RequestInv, Truthful, ReportTruthful
  <1>2. QED
    BY <1>1, RequestInvariance, PTL

-----------------------------------------------------------------------------
(* The safe half of MoneyArrives: a number that was reported has its       *)
(* customer, so that a payment to it is never put into suspense.           *)
NeverOrphan == payment.stage # "orphan"

(* Only a report names numbers, and a number that has been paid to has its *)
(* customer and its account, which nothing removes.                        *)
PaidTo(money, known) ==
    /\ money = [to |-> money.to, stage |-> money.stage]
    /\ money.stage # "none" => money.to \subseteq known
    /\ money.stage # "orphan"

PaidInv ==
    /\ \A r \in Requests : answer[r].status # "report" => answer[r].created = {}
    /\ PaidTo(payment, customers \cap vas)

(* The tables only grow, and an answer that is not a report is empty.      *)
LEMMA TablesGrow ==
    ASSUME [Next]_vars
    PROVE  customers \subseteq customers' /\ vas \subseteq vas'
  <1>1. ASSUME NEW r \in Requests,
               \/ \E kind \in Kinds : Submit(r, kind)
               \/ Serve(r) \/ NombaFails(r) \/ NombaRefuses(r) \/ InsertThrows(r)
               \/ ResponseLost(r)
        PROVE  customers \subseteq customers' /\ vas \subseteq vas'
    BY <1>1 DEF Submit, Serve, Accept, NombaAnswers, InsertCustomer, InsertAccount, Respond,
       NombaFails, NombaRefuses, InsertThrows, ResponseLost, Reply, tables
  <1>2. ASSUME NEW i \in Instances, Boots(i) \/ Closes(i) \/ Exits(i) \/ Crashes(i)
        PROVE  customers \subseteq customers' /\ vas \subseteq vas'
    BY <1>2 DEF Boots, Closes, Exits, Crashes, tables
  <1>3. Pay \/ Webhook \/ Poll \/ Reconcile \/ UNCHANGED vars
        => customers \subseteq customers' /\ vas \subseteq vas'
    BY DEF Pay, Webhook, Poll, Reconcile, vars, tables
  <1>4. QED
    BY <1>1, <1>2, <1>3 DEF Next

(* An answer changes when its request ends, and only then.                 *)
LEMMA AnswersStep ==
    ASSUME RequestInv, PaidInv, [Next]_vars, NEW q \in Requests
    PROVE  answer'[q].status # "report" => answer'[q].created = {}
  <1>r. DOMAIN answer = Requests /\ answer = [r \in Requests |-> answer[r]]
    BY DEF RequestInv
  <1>f. Failure.status = "error" /\ Failure.created = {}
    BY DEF Failure, NoAnswer
  <1>1. ASSUME NEW r \in Requests, Respond(r) \/ ResponseLost(r)
        PROVE  answer'[q].status # "report" => answer'[q].created = {}
    <2>1. PICK reply : /\ Reply(r, reply)
                       /\ reply.status # "report" => reply.created = {}
      <3>1. CASE ResponseLost(r)
        BY <1>f, <3>1 DEF ResponseLost
      <3>2. CASE Respond(r) /\ request[r].kind # "roster" /\ request[r].failed # {}
        BY <1>f, <3>2 DEF Respond
      <3>3. CASE Respond(r) /\ ~(request[r].kind # "roster" /\ request[r].failed # {})
        BY <3>3 DEF Respond
      <3>4. QED
        BY <1>1, <3>1, <3>2, <3>3
    <2>2. answer' = [answer EXCEPT ![r] = reply]
      BY <2>1 DEF Reply
    <2>3. answer'[q] = IF q = r THEN reply ELSE answer[q]
      BY <1>r, <2>2
    <2>4. QED
      BY <2>1, <2>3 DEF PaidInv
  <1>2. ASSUME NEW i \in Instances, Crashes(i)
        PROVE  answer'[q].status # "report" => answer'[q].created = {}
    <2>1. answer'[q] = IF q \in ServedBy(i) THEN Failure ELSE answer[q]
      BY <1>2 DEF Crashes
    <2>2. QED
      BY <1>f, <2>1 DEF PaidInv
  <1>3. ASSUME UNCHANGED answer
        PROVE  answer'[q].status # "report" => answer'[q].created = {}
    BY <1>3 DEF PaidInv
  <1>4. ASSUME NEW r \in Requests,
               \/ \E kind \in Kinds : Submit(r, kind)
               \/ Accept(r) \/ NombaAnswers(r) \/ InsertCustomer(r) \/ InsertAccount(r)
               \/ NombaFails(r) \/ NombaRefuses(r) \/ InsertThrows(r)
        PROVE  UNCHANGED answer
    BY <1>4 DEF Submit, Accept, NombaAnswers, InsertCustomer, InsertAccount, NombaFails,
       NombaRefuses, InsertThrows
  <1>5. ASSUME NEW i \in Instances, Boots(i) \/ Closes(i) \/ Exits(i)
        PROVE  UNCHANGED answer
    BY <1>5 DEF Boots, Closes, Exits
  <1>6. Pay \/ Webhook \/ Poll \/ Reconcile \/ UNCHANGED vars => UNCHANGED answer
    BY DEF Pay, Webhook, Poll, Reconcile, vars
  <1>7. QED
    BY <1>1, <1>2, <1>3, <1>4, <1>5, <1>6 DEF Next, Serve

(* Only the steps of the payment change it.                                *)
LEMMA PaymentSteps ==
    ASSUME [Next]_vars
    PROVE  Pay \/ Webhook \/ Poll \/ Reconcile \/ UNCHANGED payment
  <1>1. ASSUME NEW r \in Requests,
               \/ \E kind \in Kinds : Submit(r, kind)
               \/ Serve(r) \/ NombaFails(r) \/ NombaRefuses(r) \/ InsertThrows(r)
               \/ ResponseLost(r)
        PROVE  UNCHANGED payment
    BY <1>1 DEF Submit, Serve, Accept, NombaAnswers, InsertCustomer, InsertAccount, Respond,
       NombaFails, NombaRefuses, InsertThrows, ResponseLost, Reply
  <1>2. ASSUME NEW i \in Instances, Boots(i) \/ Closes(i) \/ Exits(i) \/ Crashes(i)
        PROVE  UNCHANGED payment
    BY <1>2 DEF Boots, Closes, Exits, Crashes
  <1>3. QED
    BY <1>1, <1>2 DEF Next, vars

LEMMA PaidStep ==
    ASSUME RequestInv, PaidInv, [Next]_vars
    PROVE  PaidInv'
  <1>1. customers \subseteq customers' /\ vas \subseteq vas'
    BY TablesGrow
  <1>2. \A r \in Requests : answer'[r].status # "report" => answer'[r].created = {}
    BY AnswersStep
  <1> DEFINE Holds == PaidTo(payment', customers' \cap vas')
  <1>3. ASSUME Pay PROVE Holds
    <2>1. PICK ref \in Reported : payment' = [to |-> {ref}, stage |-> "paid"]
      BY <1>3 DEF Pay
    <2>2. PICK r \in Requests : ref \in answer[r].created
      BY <2>1 DEF Reported
    <2>3. answer[r].status = "report"
      BY <2>2 DEF PaidInv
    <2>4. answer[r].created \subseteq customers \cap vas
      BY <2>3 DEF RequestInv, Truthful
    <2>5. PaidTo([to |-> {ref}, stage |-> "paid"], customers' \cap vas')
      BY <1>1, <2>2, <2>4 DEF PaidTo
    <2>6. QED
      BY <2>1, <2>5
  <1>4. ASSUME NEW stage \in {"referenced", "numbered", "credited"},
               payment.stage # "none", payment' = [payment EXCEPT !.stage = stage]
        PROVE  Holds
    <2>1. /\ payment = [to |-> payment.to, stage |-> payment.stage]
          /\ payment.to \subseteq customers' \cap vas'
      BY <1>1, <1>4 DEF PaidInv, PaidTo
    <2>2. payment' = [to |-> payment.to, stage |-> stage]
      BY <1>4, <2>1
    <2>3. PaidTo([to |-> payment.to, stage |-> stage], customers' \cap vas')
      BY <2>1 DEF PaidTo
    <2>4. QED
      BY <2>2, <2>3
  <1>5. ASSUME Webhook \/ Poll PROVE Holds
    BY <1>4, <1>5 DEF Webhook, Poll
  <1>6. ASSUME Reconcile PROVE Holds
    <2>1. payment.stage # "none" /\ payment.to \subseteq vas
      BY <1>6 DEF Reconcile, PaidInv, PaidTo
    <2>2. payment' = [payment EXCEPT !.stage = "credited"]
      BY <1>6, <2>1 DEF Reconcile
    <2>3. QED
      BY <1>4, <2>1, <2>2
  <1>7. ASSUME UNCHANGED payment PROVE Holds
    <2>1. PaidTo(payment, customers' \cap vas')
      BY <1>1 DEF PaidInv, PaidTo
    <2>2. QED
      BY <1>7, <2>1
  <1>8. Holds
    BY <1>3, <1>5, <1>6, <1>7, PaymentSteps
  <1>9. QED
    BY <1>2, <1>8 DEF PaidInv

(* app.ts, school.ts and reconcile-runner.ts, resolve(): money sent to a   *)
(* number the console has reported is never put into suspense, by webhook  *)
(* or by poll, whatever fails or restarts meanwhile.                       *)
THEOREM NeverOrphanAlways == Spec => []NeverOrphan
  <1>1. Init => PaidInv
    BY DEF Init, PaidInv, PaidTo, NoAnswer
  <1>2. RequestInv /\ PaidInv /\ [Next]_vars => PaidInv'
    BY PaidStep
  <1>3. PaidInv => NeverOrphan
    BY DEF PaidInv, PaidTo, NeverOrphan
  <1>4. QED
    BY <1>1, <1>2, <1>3, RequestInvariance, PTL DEF Spec

-----------------------------------------------------------------------------
(* Types.  What the two invariants leave open: a number has a customer and *)
(* a customer an account at Nomba, and the answers are about references.   *)
AnswerType ==
    [status : {"none", "error", "report"}, created : SUBSET Refs,
     failed : SUBSET (0..Len(Roster))]

PaymentType ==
    [to : {{}} \cup {{ref} : ref \in Refs},
     stage : {"none", "paid", "referenced", "numbered", "credited", "orphan"}]

TablesNested == vas \subseteq customers /\ customers \subseteq accounts /\ accounts \subseteq Refs

MadeInv ==
    /\ TablesNested
    /\ answer \in [Requests -> AnswerType]
    /\ payment \in PaymentType
    /\ errors \in 0..MaxErrors

(* The three steps of a row come in the order of the tables.               *)
LEMMA NestedStep ==
    ASSUME RequestInv, TablesNested, [Next]_vars
    PROVE  TablesNested'
  <1> USE DEF TablesNested
  <1>1. ASSUME NEW r \in Requests, request[r].pc \in {"calling", "customer", "account"}
        PROVE  /\ Ref(r) \in Refs
               /\ request[r].pc \in {"customer", "account"} => Ref(r) \in accounts
               /\ request[r].pc = "account" => Ref(r) \in customers
    BY <1>1, RefType DEF RequestInv, Sound
  <1>2. ASSUME NEW r \in Requests, NombaAnswers(r) \/ NombaFails(r)
        PROVE  TablesNested'
    <2>1. /\ request[r].pc = "calling" /\ UNCHANGED <<customers, vas>>
          /\ accounts' = accounts \/ accounts' = accounts \cup {Ref(r)}
      BY <1>2 DEF NombaAnswers, NombaFails, At
    <2>2. QED
      BY <1>1, <2>1
  <1>3. ASSUME NEW r \in Requests, InsertCustomer(r) \/ InsertAccount(r) \/ InsertThrows(r)
        PROVE  TablesNested'
    <2>1. /\ UNCHANGED accounts
          /\ \/ UNCHANGED <<customers, vas>>
             \/ /\ request[r].pc = "customer" /\ customers' = customers \cup {Ref(r)}
                /\ UNCHANGED vas
             \/ /\ request[r].pc = "account" /\ vas' = vas \cup {Ref(r)}
                /\ UNCHANGED customers
      BY <1>3 DEF InsertCustomer, InsertAccount, InsertThrows, At
    <2>2. QED
      BY <1>1, <2>1
  <1>4. ASSUME UNCHANGED tables
        PROVE  TablesNested'
    BY <1>4 DEF tables
  <1>5. ASSUME NEW r \in Requests,
               \/ \E kind \in Kinds : Submit(r, kind)
               \/ Accept(r) \/ Respond(r) \/ NombaRefuses(r) \/ ResponseLost(r)
        PROVE  UNCHANGED tables
    BY <1>5 DEF Submit, Accept, Respond, NombaRefuses, ResponseLost, Reply
  <1>6. ASSUME NEW i \in Instances, Boots(i) \/ Closes(i) \/ Exits(i) \/ Crashes(i)
        PROVE  UNCHANGED tables
    BY <1>6 DEF Boots, Closes, Exits, Crashes
  <1>7. Pay \/ Webhook \/ Poll \/ Reconcile \/ UNCHANGED vars => UNCHANGED tables
    BY DEF Pay, Webhook, Poll, Reconcile, vars
  <1>8. QED
    BY <1>2, <1>3, <1>4, <1>5, <1>6, <1>7 DEF Next, Serve

(* A report is made of what its request has noted.                         *)
LEMMA AnswersTyped ==
    ASSUME RequestInv, answer \in [Requests -> AnswerType], [Next]_vars
    PROVE  answer' \in [Requests -> AnswerType]
  <1>f. Failure \in AnswerType
    BY DEF Failure, NoAnswer, AnswerType
  <1>1. ASSUME NEW r \in Requests, Respond(r) \/ ResponseLost(r)
        PROVE  answer' \in [Requests -> AnswerType]
    <2>1. [status |-> "report", created |-> request[r].created,
           failed |-> request[r].failed] \in AnswerType
      <3>1. request[r] \in RequestType
        BY DEF RequestInv
      <3>2. QED
        BY <3>1 DEF RequestType, AnswerType
    <2>2. PICK reply \in AnswerType : Reply(r, reply)
      <3>1. CASE ResponseLost(r)
        BY <1>f, <3>1 DEF ResponseLost
      <3>2. CASE Respond(r) /\ request[r].kind # "roster" /\ request[r].failed # {}
        BY <1>f, <3>2 DEF Respond
      <3>3. CASE Respond(r) /\ ~(request[r].kind # "roster" /\ request[r].failed # {})
        BY <2>1, <3>3 DEF Respond
      <3>4. QED
        BY <1>1, <3>1, <3>2, <3>3
    <2>3. answer' = [answer EXCEPT ![r] = reply]
      BY <2>2 DEF Reply
    <2>4. QED
      BY <2>3
  <1>2. ASSUME NEW i \in Instances, Crashes(i)
        PROVE  answer' \in [Requests -> AnswerType]
    <2>1. answer' = [r \in Requests |-> IF r \in ServedBy(i) THEN Failure ELSE answer[r]]
      BY <1>2 DEF Crashes
    <2>2. QED
      BY <1>f, <2>1
  <1>3. ASSUME NEW r \in Requests,
               \/ \E kind \in Kinds : Submit(r, kind)
               \/ Accept(r) \/ NombaAnswers(r) \/ InsertCustomer(r) \/ InsertAccount(r)
               \/ NombaFails(r) \/ NombaRefuses(r) \/ InsertThrows(r)
        PROVE  UNCHANGED answer
    BY <1>3 DEF Submit, Accept, NombaAnswers, InsertCustomer, InsertAccount, NombaFails,
       NombaRefuses, InsertThrows
  <1>4. ASSUME NEW i \in Instances, Boots(i) \/ Closes(i) \/ Exits(i)
        PROVE  UNCHANGED answer
    BY <1>4 DEF Boots, Closes, Exits
  <1>5. Pay \/ Webhook \/ Poll \/ Reconcile \/ UNCHANGED vars => UNCHANGED answer
    BY DEF Pay, Webhook, Poll, Reconcile, vars
  <1>6. QED
    BY <1>1, <1>2, <1>3, <1>4, <1>5 DEF Next, Serve

(* A payment goes to one reported number.                                  *)
LEMMA PaymentTyped ==
    ASSUME answer \in [Requests -> AnswerType], payment \in PaymentType, [Next]_vars
    PROVE  payment' \in PaymentType
  <1>1. ASSUME Pay
        PROVE  payment' \in PaymentType
    <2>1. PICK ref \in Reported : payment' = [to |-> {ref}, stage |-> "paid"]
      BY <1>1 DEF Pay
    <2>2. ref \in Refs
      BY <2>1 DEF Reported, AnswerType
    <2>3. QED
      BY <2>1, <2>2 DEF PaymentType
  <1>2. ASSUME Webhook \/ Poll \/ Reconcile
        PROVE  payment' \in PaymentType
    <2>1. \E stage \in {"referenced", "numbered", "credited", "orphan"} :
             payment' = [payment EXCEPT !.stage = stage]
      BY <1>2 DEF Webhook, Poll, Reconcile
    <2>2. QED
      BY <2>1 DEF PaymentType
  <1>3. QED
    BY <1>1, <1>2, PaymentSteps

(* Errors are counted up to their bound.                                   *)
LEMMA ErrorsTyped ==
    ASSUME errors \in 0..MaxErrors, [Next]_vars
    PROVE  errors' \in 0..MaxErrors
  <1>1. Error => errors' \in 0..MaxErrors
    BY OnboardingConstants DEF Error
  <1>2. ASSUME NEW r \in Requests,
               \/ \E kind \in Kinds : Submit(r, kind)
               \/ Serve(r) \/ NombaFails(r) \/ NombaRefuses(r) \/ InsertThrows(r)
               \/ ResponseLost(r)
        PROVE  UNCHANGED errors \/ Error
    BY <1>2 DEF Submit, Serve, Accept, NombaAnswers, InsertCustomer, InsertAccount, Respond,
       NombaFails, NombaRefuses, InsertThrows, ResponseLost
  <1>3. ASSUME NEW i \in Instances, Boots(i) \/ Closes(i) \/ Exits(i) \/ Crashes(i)
        PROVE  UNCHANGED errors
    BY <1>3 DEF Boots, Closes, Exits, Crashes
  <1>4. Pay \/ Webhook \/ Poll \/ Reconcile \/ UNCHANGED vars => UNCHANGED errors
    BY DEF Pay, Webhook, Poll, Reconcile, vars
  <1>5. QED
    BY <1>1, <1>2, <1>3, <1>4 DEF Next

(* Instances, requests, answers and tables stay well typed; a customer is  *)
(* never without its account at Nomba nor a number without its customer    *)
(* (app.ts, school.ts), whatever fails between the three steps.            *)
THEOREM TypeCorrect == Spec => []TypeOK
  <1>1. Init => MadeInv
    BY OnboardingConstants DEF Init, MadeInv, TablesNested, AnswerType, PaymentType, NoAnswer, Refs
  <1>2. RequestInv /\ MadeInv /\ [Next]_vars => MadeInv'
    BY NestedStep, AnswersTyped, PaymentTyped, ErrorsTyped DEF MadeInv
  <1>3. BootInv /\ RequestInv /\ MadeInv => TypeOK
    BY DEF BootInv, RequestInv, MadeInv, TablesNested, TypeOK, RequestType, AnswerType,
       PaymentType
  <1>4. QED
    BY <1>1, <1>2, <1>3, BootInvariance, RequestInvariance, PTL DEF Spec

-----------------------------------------------------------------------------
(* What the rule dialog sends for a choice it was offered is the tag that  *)
(* the choice was made from.                                               *)
LEMMA ChoiceIsTag ==
    ASSUME NEW w, \A x, y \in w.value : x = y
    PROVE  MatchTag(Label(RosterTag(w))) = RosterTag(w)
  <1> DEFINE tag == RosterTag(w)
  <1>1. CASE w.value \in {{}, {"true"}}
    <2>1. tag = [key |-> w.key, type |-> "boolean", text |-> "true"]
      BY <1>1 DEF RosterTag
    <2> HIDE DEF tag
    <2>2. Label(tag) = [key |-> w.key, value |-> {}]
      BY <2>1 DEF Label
    <2>3. RosterTag([key |-> w.key, value |-> {}])
             = [key |-> w.key, type |-> "boolean", text |-> "true"]
      BY DEF RosterTag
    <2>4. QED
      BY <2>1, <2>2, <2>3 DEF MatchTag, tag
  <1>2. CASE w.value = {"false"}
    <2>1. tag = [key |-> w.key, type |-> "boolean", text |-> "false"]
      BY <1>2 DEF RosterTag
    <2> HIDE DEF tag
    <2>2. Label(tag) = [key |-> w.key, value |-> {"false"}]
      BY <2>1 DEF Label
    <2>3. RosterTag([key |-> w.key, value |-> {"false"}])
             = [key |-> w.key, type |-> "boolean", text |-> "false"]
      BY DEF RosterTag
    <2>4. QED
      BY <2>1, <2>2, <2>3 DEF MatchTag, tag
  <1>3. CASE w.value \notin {{}, {"true"}, {"false"}}
    <2>1. PICK x \in w.value : w.value = {x}
      BY <1>3
    <2>2. tag = [key |-> w.key, type |-> "string", text |-> x]
      BY <1>3, <2>1 DEF RosterTag
    <2> HIDE DEF tag
    <2>3. Label(tag) = [key |-> w.key, value |-> {x}]
      BY <2>2 DEF Label
    <2>4. RosterTag([key |-> w.key, value |-> {x}])
             = [key |-> w.key, type |-> "string", text |-> x]
      BY <1>3, <2>1 DEF RosterTag
    <2>5. QED
      BY <2>2, <2>3, <2>4 DEF MatchTag, tag
  <1>4. QED
    BY <1>1, <1>2, <1>3

(* school/rules/page.tsx, "Tags come from the roster": a rule from a tag   *)
(* that was offered reaches exactly the students it was offered for,       *)
(* whatever the roster says and whichever keys and values its rows share.  *)
THEOREM TagReachesAlways == Spec => []TagReaches
  <1> DEFINE metadata(ref) == Metadata(Roster[ref[2]])
             labels(ref) == {Label(tag) : tag \in metadata(ref)}
             reaches(ref, label) ==
                Fee!MatchesMetadata([match |-> {MatchTag(label)}], metadata(ref))
             students == {ref \in customers : ref[2] \in DOMAIN Roster}
  <1>1. ASSUME NEW ref, ref[2] \in DOMAIN Roster, NEW tag \in metadata(ref)
        PROVE  MatchTag(Label(tag)) = tag
    <2>1. PICK k \in DOMAIN Roster[ref[2]] : tag = RosterTag(Roster[ref[2]][k])
      BY <1>1 DEF Metadata
    <2>2. \A x, y \in Roster[ref[2]][k].value : x = y
      BY <1>1, RosterAssumption
    <2>3. QED
      BY <2>1, <2>2, ChoiceIsTag
  <1>2. ASSUME NEW ref, ref[2] \in DOMAIN Roster, NEW other, other[2] \in DOMAIN Roster,
               NEW label \in labels(other)
        PROVE  reaches(ref, label) <=> label \in labels(ref)
    <2>1. PICK tag \in metadata(other) : label = Label(tag)
      OBVIOUS
    <2>2. MatchTag(label) = tag
      BY <1>1, <1>2, <2>1
    <2>3. \A t \in metadata(ref) : MatchTag(Label(t)) = t
      BY <1>1, <1>2
    <2> HIDE DEF metadata
    <2>4. reaches(ref, label) <=> tag \in metadata(ref)
      BY <2>2 DEF Fee!MatchesMetadata
    <2>5. QED
      BY <2>1, <2>2, <2>3, <2>4
  <1>3. TagReaches
    <2>1. TagReaches <=> \A label \in UNION {labels(ref) : ref \in students} :
                            \A ref \in students : reaches(ref, label) <=> label \in labels(ref)
      BY DEF TagReaches
    <2> HIDE DEF labels, reaches, metadata
    <2>2. QED
      BY <1>2, <2>1
  <1>4. QED
    BY <1>3, PTL

=============================================================================
