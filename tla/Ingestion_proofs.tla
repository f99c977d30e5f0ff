-------------------------- MODULE Ingestion_proofs --------------------------
(***************************************************************************)
(* Ingestion is type correct, posts a session's money at most once, marks  *)
(* nothing processed that is not posted, and implements ExactlyOnceCredit, *)
(* for all sets of sessions and workers and all bounds.                    *)
(***************************************************************************)
EXTENDS Ingestion, TLAPS

(* A step keeps every variable in its type: one case per action.           *)
LEMMA TypeStep ==
    ASSUME TypeOK, [Next]_vars
    PROVE  TypeOK'
  <1> USE BoundsAssumption, NoSessionAssumption
          DEF TypeOK, bankVars, dbVars, producerVars, queueVars, workerVars, boundVars
  <1>1. ASSUME NEW s \in Sessions, NEW outcome \in {"paid", "failed", "reversed"},
               Settle(s, outcome)
        PROVE  TypeOK'
    BY <1>1 DEF Settle
  <1>2. ASSUME NEW s \in Sessions, NEW e \in Events,
               ReceiveWebhook(s, e)
        PROVE  TypeOK'
    BY <1>2 DEF ReceiveWebhook, InsertRawEvent, Announced, Events
  <1>3. ASSUME NEW s \in Sessions,
               Enqueue(s)
        PROVE  TypeOK'
    BY <1>3 DEF Enqueue, AddJob
  <1>4. ASSUME NEW s \in Sessions,
               EnqueueLost(s)
        PROVE  TypeOK'
    BY <1>4 DEF EnqueueLost
  <1>5. ASSUME NEW s \in Sessions,
               BackfillCheck(s)
        PROVE  TypeOK'
    BY <1>5 DEF BackfillCheck
  <1>6. ASSUME NEW s \in Sessions,
               BackfillInsert(s)
        PROVE  TypeOK'
    BY <1>6 DEF BackfillInsert, InsertRawEvent, Events
  <1>7. ASSUME NEW s \in Sessions,
               SweepEnqueue(s)
        PROVE  TypeOK'
    BY <1>7 DEF SweepEnqueue, AddJob
  <1>8. ASSUME NEW s \in Sessions,
               StalledByCrash(s)
        PROVE  TypeOK'
    BY <1>8 DEF StalledByCrash, RecoverStalled
  <1>9. ASSUME NEW s \in Sessions,
               StalledBySlowness(s)
        PROVE  TypeOK'
    BY <1>9 DEF StalledBySlowness, RecoverStalled
  <1>10. ASSUME BackfillList
        PROVE  TypeOK'
    BY <1>10 DEF BackfillList, Listed
  <1>11. ASSUME SweepSelect
        PROVE  TypeOK'
    BY <1>11 DEF SweepSelect, Stuck
  <1>12. ASSUME CronAborts
        PROVE  TypeOK'
    BY <1>12 DEF CronAborts
  <1>13. ASSUME NEW w \in Workers,
               LoadEvent(w)
        PROVE  TypeOK'
    <2>1. event[w] \in Sessions
      BY <1>13 DEF LoadEvent
    <2>2. processed' \in [Sessions -> BOOLEAN]
      <3> HIDE DEF TypeOK
      <3>1. processed' = processed \/ MarkProcessed(event[w])
        BY <1>13 DEF LoadEvent
      <3>2. processed \in [Sessions -> BOOLEAN]
        BY DEF TypeOK
      <3>3. QED
        BY <2>1, <3>1, <3>2 DEF MarkProcessed
    <2>3. /\ pc' \in [Workers -> {"idle", "taken", "credit", "gated", "reversal", "done"}]
          /\ \A v \in Workers : pc'[v] # "idle" => event[v] # NoSession
      BY <1>13, <2>1 DEF LoadEvent
    <2>4. UNCHANGED <<bankVars, rawEvent, payment, credits, contras, producerVars,
                      queueVars, event, boundVars>>
      BY <1>13 DEF LoadEvent
    <2>5. QED
      BY <2>2, <2>3, <2>4
  <1>14. ASSUME NEW w \in Workers,
               SessionGate(w)
        PROVE  TypeOK'
    <2>1. event[w] \in Sessions
      BY <1>14 DEF SessionGate
    <2>2. processed' \in [Sessions -> BOOLEAN]
      BY <1>14 DEF SessionGate, MarkProcessed
    <2>3. /\ pc' \in [Workers -> {"idle", "taken", "credit", "gated", "reversal", "done"}]
          /\ \A v \in Workers : pc'[v] # "idle" => event[v] # NoSession
      BY <1>14, <2>1 DEF SessionGate
    <2>4. UNCHANGED <<bankVars, rawEvent, payment, credits, contras, producerVars,
                      queueVars, event, boundVars>>
      BY <1>14 DEF SessionGate
    <2>5. QED
      BY <2>2, <2>3, <2>4
  <1>15. ASSUME NEW w \in Workers,
               CommitCredit(w)
        PROVE  TypeOK'
    BY <1>15 DEF CommitCredit, MarkProcessed
  <1>16. ASSUME NEW w \in Workers,
               CommitConflict(w)
        PROVE  TypeOK'
    BY <1>16 DEF CommitConflict, EndJob
  <1>17. ASSUME NEW w \in Workers,
               ReverseCredit(w)
        PROVE  TypeOK'
    BY <1>17 DEF ReverseCredit, MarkProcessed
  <1>18. ASSUME NEW w \in Workers,
               CompleteJob(w)
        PROVE  TypeOK'
    BY <1>18 DEF CompleteJob, EndJob
  <1>19. ASSUME NEW w \in Workers, NEW s \in Sessions,
               TakeJob(w, s)
        PROVE  TypeOK'
    BY <1>19, NoWorkerAssumption DEF TakeJob
  <1>20. ASSUME NEW w \in Workers,
               JobThrows(w)
        PROVE  TypeOK'
    BY <1>20 DEF JobThrows, EndJob
  <1>21. ASSUME NEW w \in Workers,
               WorkerCrash(w)
        PROVE  TypeOK'
    BY <1>21 DEF WorkerCrash
  <1>22. CASE UNCHANGED vars
    BY <1>22 DEF vars
  <1>23. QED
    BY <1>1, <1>2, <1>3, <1>4, <1>5, <1>6, <1>7, <1>8, <1>9, <1>10, <1>11, <1>12,
       <1>13, <1>14, <1>15, <1>16, <1>17, <1>18, <1>19, <1>20, <1>21, <1>22
       DEF Next, SessionStep, WorkerStep

(* The variables of the receiver, the tables, the queue and the workers    *)
(* have their types in every reachable state, for all constants.           *)
THEOREM TypeCorrect == Spec => []TypeOK
  <1>1. Init => TypeOK
    BY BoundsAssumption DEF Init, TypeOK
  <1>2. TypeOK /\ [Next]_vars => TypeOK'
    BY TypeStep
  <1>3. QED
    BY <1>1, <1>2, PTL DEF Spec

-----------------------------------------------------------------------------
(* The inductive invariant.  Its first part says that a row of payments    *)
(* and the history of the ledger agree.  The second and the third say what *)
(* a raw_event, a listed transfer and a running execution know about the   *)
(* bank and the tables: rows are never rewritten, so what an execution     *)
(* read before its transaction still holds inside it.                      *)
Posted(s) ==
    \/ payment[s] = "none" /\ credits[s] = 0 /\ contras[s] = 0
    \/ payment[s] = "reconciled" /\ credits[s] = 1 /\ contras[s] = 0
    \/ payment[s] = "refunded" /\ credits[s] = 1 /\ contras[s] = 1

RowInv ==
    \A s \in Sessions :
        /\ rawEvent[s] = "payment_success" => bank[s] \in {"paid", "reversed"}
        /\ rawEvent[s] = "payment_reversal" => bank[s] = "reversed"
        /\ poll[s] # "idle" => bank[s] \in {"paid", "reversed"}
        /\ processed[s] => rawEvent[s] # "none"

WorkInv ==
    \A w \in Workers :
        /\ pc[w] \in {"credit", "gated"} => rawEvent[event[w]] = "payment_success"
        /\ pc[w] = "reversal" => rawEvent[event[w]] = "payment_reversal"
        /\ pc[w] = "done" => processed[event[w]]

PostedInv == \A s \in Sessions : Posted(s)

Inv ==
    /\ PostedInv
    /\ RowInv
    /\ WorkInv
    /\ ProcessedIsPosted
    /\ CompletedIsProcessed

IInv == TypeOK /\ Inv

(* A step preserves the invariant: one case per action.                    *)
LEMMA InvStep ==
    ASSUME IInv, [Next]_vars
    PROVE  Inv'
  <1> USE NoSessionAssumption
          DEF IInv, Inv, TypeOK, PostedInv, Posted, RowInv, WorkInv, ProcessedIsPosted,
              CompletedIsProcessed, bankVars, dbVars, producerVars, queueVars,
              workerVars, boundVars
  <1>1. ASSUME NEW s \in Sessions, NEW outcome \in {"paid", "failed", "reversed"},
               Settle(s, outcome)
        PROVE  Inv'
    BY <1>1 DEF Settle
  <1>2. ASSUME NEW s \in Sessions, NEW e \in Events,
               ReceiveWebhook(s, e)
        PROVE  Inv'
    BY <1>2 DEF ReceiveWebhook, InsertRawEvent, Announced, Events
  <1>3. ASSUME NEW s \in Sessions,
               Enqueue(s)
        PROVE  Inv'
    BY <1>3 DEF Enqueue, AddJob
  <1>4. ASSUME NEW s \in Sessions,
               EnqueueLost(s)
        PROVE  Inv'
    BY <1>4 DEF EnqueueLost
  <1>5. ASSUME NEW s \in Sessions,
               BackfillCheck(s)
        PROVE  Inv'
    BY <1>5 DEF BackfillCheck
  <1>6. ASSUME NEW s \in Sessions,
               BackfillInsert(s)
        PROVE  Inv'
    BY <1>6 DEF BackfillInsert, InsertRawEvent, Events
  <1>7. ASSUME NEW s \in Sessions,
               SweepEnqueue(s)
        PROVE  Inv'
    BY <1>7 DEF SweepEnqueue, AddJob
  <1>8. ASSUME NEW s \in Sessions,
               StalledByCrash(s)
        PROVE  Inv'
    BY <1>8 DEF StalledByCrash, RecoverStalled
  <1>9. ASSUME NEW s \in Sessions,
               StalledBySlowness(s)
        PROVE  Inv'
    BY <1>9 DEF StalledBySlowness, RecoverStalled
  <1>10. ASSUME BackfillList
        PROVE  Inv'
    BY <1>10 DEF BackfillList, Listed
  <1>11. ASSUME SweepSelect
        PROVE  Inv'
    BY <1>11 DEF SweepSelect, Stuck
  <1>12. ASSUME CronAborts
        PROVE  Inv'
    BY <1>12 DEF CronAborts
  <1>13. ASSUME NEW w \in Workers,
               LoadEvent(w)
        PROVE  Inv'
    BY <1>13 DEF LoadEvent, MarkProcessed
  <1>14. ASSUME NEW w \in Workers,
               SessionGate(w)
        PROVE  Inv'
    BY <1>14 DEF SessionGate, MarkProcessed
  <1>15. ASSUME NEW w \in Workers,
               CommitCredit(w)
        PROVE  Inv'
    BY <1>15 DEF CommitCredit, MarkProcessed
  <1>16. ASSUME NEW w \in Workers,
               CommitConflict(w)
        PROVE  Inv'
    BY <1>16 DEF CommitConflict, EndJob
  <1>17. ASSUME NEW w \in Workers,
               ReverseCredit(w)
        PROVE  Inv'
    BY <1>17 DEF ReverseCredit, MarkProcessed
  <1>18. ASSUME NEW w \in Workers,
               CompleteJob(w)
        PROVE  Inv'
    BY <1>18 DEF CompleteJob, EndJob
  <1>19. ASSUME NEW w \in Workers, NEW s \in Sessions,
               TakeJob(w, s)
        PROVE  Inv'
    BY <1>19, NoWorkerAssumption DEF TakeJob
  <1>20. ASSUME NEW w \in Workers,
               JobThrows(w)
        PROVE  Inv'
    BY <1>20 DEF JobThrows, EndJob
  <1>21. ASSUME NEW w \in Workers,
               WorkerCrash(w)
        PROVE  Inv'
    BY <1>21 DEF WorkerCrash
  <1>22. CASE UNCHANGED vars
    BY <1>22 DEF vars
  <1> HIDE DEF IInv, Inv, TypeOK, PostedInv, Posted, RowInv, WorkInv, ProcessedIsPosted,
               CompletedIsProcessed
  <1>23. QED
    BY <1>1, <1>2, <1>3, <1>4, <1>5, <1>6, <1>7, <1>8, <1>9, <1>10, <1>11, <1>12,
       <1>13, <1>14, <1>15, <1>16, <1>17, <1>18, <1>19, <1>20, <1>21, <1>22
       DEF Next, SessionStep, WorkerStep

(* The invariant holds in every reachable state.                           *)
THEOREM Invariance == Spec => []IInv
  <1>1. Init => IInv
    BY BoundsAssumption
       DEF Init, IInv, Inv, TypeOK, PostedInv, Posted, RowInv, WorkInv,
           ProcessedIsPosted, CompletedIsProcessed
  <1>2. IInv /\ [Next]_vars => IInv'
    BY TypeStep, InvStep DEF IInv
  <1>3. QED
    BY <1>1, <1>2, PTL DEF Spec

(* No session's money is posted twice, and payments has a row exactly for  *)
(* what was posted, for any number of deliveries, executions and crashes.  *)
THEOREM CreditedOnceAlways == Spec => []CreditedOnce
  <1>1. IInv => CreditedOnce
    BY DEF IInv, Inv, TypeOK, PostedInv, Posted, CreditedOnce
  <1>2. QED
    BY <1>1, Invariance, PTL

(* An event that is marked processed has been posted.                      *)
THEOREM ProcessedIsPostedAlways == Spec => []ProcessedIsPosted
  <1>1. IInv => ProcessedIsPosted
    BY DEF IInv, Inv
  <1>2. QED
    BY <1>1, Invariance, PTL

(* A job that is kept as completed does not block an unprocessed event.    *)
THEOREM CompletedIsProcessedAlways == Spec => []CompletedIsProcessed
  <1>1. IInv => CompletedIsProcessed
    BY DEF IInv, Inv
  <1>2. QED
    BY <1>1, Invariance, PTL

-----------------------------------------------------------------------------
(* A step of Ingestion is a step of ExactlyOnceCredit or leaves bank,      *)
(* credits and contras alone.                                              *)
LEMMA PromiseStep ==
    ASSUME IInv, [Next]_vars
    PROVE  [Promise!Next]_(Promise!vars)
  <1> USE DEF IInv, Inv, TypeOK, PostedInv, Posted, RowInv, WorkInv, bankVars, dbVars,
              producerVars, queueVars, workerVars, boundVars, Promise!vars
  <1>1. ASSUME NEW s \in Sessions, NEW outcome \in {"paid", "failed", "reversed"},
               Settle(s, outcome)
        PROVE  [Promise!Next]_(Promise!vars)
    <2>1. Promise!Settle(s, outcome)
      BY <1>1 DEF Settle, Promise!Settle
    <2>2. QED
      BY <2>1 DEF Promise!Next
  <1>2. ASSUME NEW s \in Sessions, NEW e \in Events,
               ReceiveWebhook(s, e)
        PROVE  [Promise!Next]_(Promise!vars)
    BY <1>2 DEF ReceiveWebhook, InsertRawEvent, Announced, Events
  <1>3. ASSUME NEW s \in Sessions,
               Enqueue(s)
        PROVE  [Promise!Next]_(Promise!vars)
    BY <1>3 DEF Enqueue, AddJob
  <1>4. ASSUME NEW s \in Sessions,
               EnqueueLost(s)
        PROVE  [Promise!Next]_(Promise!vars)
    BY <1>4 DEF EnqueueLost
  <1>5. ASSUME NEW s \in Sessions,
               BackfillCheck(s)
        PROVE  [Promise!Next]_(Promise!vars)
    BY <1>5 DEF BackfillCheck
  <1>6. ASSUME NEW s \in Sessions,
               BackfillInsert(s)
        PROVE  [Promise!Next]_(Promise!vars)
    BY <1>6 DEF BackfillInsert, InsertRawEvent, Events
  <1>7. ASSUME NEW s \in Sessions,
               SweepEnqueue(s)
        PROVE  [Promise!Next]_(Promise!vars)
    BY <1>7 DEF SweepEnqueue, AddJob
  <1>8. ASSUME NEW s \in Sessions,
               StalledByCrash(s)
        PROVE  [Promise!Next]_(Promise!vars)
    BY <1>8 DEF StalledByCrash, RecoverStalled
  <1>9. ASSUME NEW s \in Sessions,
               StalledBySlowness(s)
        PROVE  [Promise!Next]_(Promise!vars)
    BY <1>9 DEF StalledBySlowness, RecoverStalled
  <1>10. ASSUME BackfillList
        PROVE  [Promise!Next]_(Promise!vars)
    BY <1>10 DEF BackfillList, Listed
  <1>11. ASSUME SweepSelect
        PROVE  [Promise!Next]_(Promise!vars)
    BY <1>11 DEF SweepSelect, Stuck
  <1>12. ASSUME CronAborts
        PROVE  [Promise!Next]_(Promise!vars)
    BY <1>12 DEF CronAborts
  <1>13. ASSUME NEW w \in Workers,
               LoadEvent(w)
        PROVE  [Promise!Next]_(Promise!vars)
    BY <1>13 DEF LoadEvent, MarkProcessed
  <1>14. ASSUME NEW w \in Workers,
               SessionGate(w)
        PROVE  [Promise!Next]_(Promise!vars)
    BY <1>14 DEF SessionGate, MarkProcessed
  <1>15. ASSUME NEW w \in Workers,
               CommitCredit(w)
        PROVE  [Promise!Next]_(Promise!vars)
    <2> DEFINE s == event[w]
    <2>1. s \in Sessions
      BY NoSessionAssumption, <1>15 DEF CommitCredit
    <2>2. bank[s] \in {"paid", "reversed"} /\ credits[s] = 0
      BY <1>15, <2>1 DEF CommitCredit
    <2>3. credits' = [credits EXCEPT ![s] = 1]
      BY <1>15, <2>2 DEF CommitCredit
    <2>4. UNCHANGED <<bank, contras>>
      BY <1>15 DEF CommitCredit
    <2>5. Promise!Credit(s)
      BY <2>2, <2>3, <2>4 DEF Promise!Credit
    <2>6. QED
      BY <2>1, <2>5 DEF Promise!Next
  <1>16. ASSUME NEW w \in Workers,
               CommitConflict(w)
        PROVE  [Promise!Next]_(Promise!vars)
    BY <1>16 DEF CommitConflict, EndJob
  <1>17. ASSUME NEW w \in Workers,
               ReverseCredit(w)
        PROVE  [Promise!Next]_(Promise!vars)
    <2> DEFINE s == event[w]
    <2>1. s \in Sessions
      BY NoSessionAssumption, <1>17 DEF ReverseCredit
    <2>2. UNCHANGED <<bank, credits>>
      BY <1>17 DEF ReverseCredit
    <2>3. CASE payment[s] = "reconciled"
      <3>1. bank[s] = "reversed" /\ credits[s] = 1 /\ contras[s] = 0
        BY <1>17, <2>1, <2>3 DEF ReverseCredit
      <3>2. contras' = [contras EXCEPT ![s] = 1]
        BY <1>17, <2>3, <3>1 DEF ReverseCredit
      <3>3. Promise!Unwind(s)
        BY <2>2, <3>1, <3>2 DEF Promise!Unwind
      <3>4. QED
        BY <2>1, <3>3 DEF Promise!Next
    <2>4. CASE payment[s] # "reconciled"
      BY <1>17, <2>2, <2>4 DEF ReverseCredit
    <2>5. QED
      BY <2>3, <2>4
  <1>18. ASSUME NEW w \in Workers,
               CompleteJob(w)
        PROVE  [Promise!Next]_(Promise!vars)
    BY <1>18 DEF CompleteJob, EndJob
  <1>19. ASSUME NEW w \in Workers, NEW s \in Sessions,
               TakeJob(w, s)
        PROVE  [Promise!Next]_(Promise!vars)
    BY <1>19, NoWorkerAssumption DEF TakeJob
  <1>20. ASSUME NEW w \in Workers,
               JobThrows(w)
        PROVE  [Promise!Next]_(Promise!vars)
    BY <1>20 DEF JobThrows, EndJob
  <1>21. ASSUME NEW w \in Workers,
               WorkerCrash(w)
        PROVE  [Promise!Next]_(Promise!vars)
    BY <1>21 DEF WorkerCrash
  <1>22. CASE UNCHANGED vars
    BY <1>22 DEF vars
  <1>23. QED
    BY <1>1, <1>2, <1>3, <1>4, <1>5, <1>6, <1>7, <1>8, <1>9, <1>10, <1>11, <1>12,
       <1>13, <1>14, <1>15, <1>16, <1>17, <1>18, <1>19, <1>20, <1>21, <1>22
       DEF Next, SessionStep, WorkerStep

(* Ingestion implements the promise: the initial states agree, and every   *)
(* step is Settle, Credit, Unwind or a stuttering step of the abstraction. *)
THEOREM IngestionImplementsExactlyOnce == Spec => ExactlyOnce
  <1>1. Init => Promise!Init
    BY DEF Init, Promise!Init
  <1>2. IInv /\ [Next]_vars => [Promise!Next]_(Promise!vars)
    BY PromiseStep
  <1>3. QED
    BY <1>1, <1>2, Invariance, PTL DEF Spec, ExactlyOnce, Promise!Spec

-----------------------------------------------------------------------------
(* What of EventsDrain is a safety property.  As long as nothing crashes,  *)
(* stalls or throws, an event that has to be handled is in somebody's      *)
(* hands: its inserter's, the queue's, or an execution's.  The sweeper is  *)
(* needed for nothing else.                                                *)
InHand ==
    faults = 0 /\ throws = 0 =>
        \A s \in Sessions : rawEvent[s] \in Enqueued /\ ~processed[s] =>
            \/ s \in enqueuing
            \/ job[s] = "waiting"
            \/ \E w \in Workers : holder[s] = w /\ event[w] = s /\ pc[w] # "idle"

(* And whatever happens, an unprocessed event is out of the sweeper's      *)
(* reach, behind a failed job, only after an exception or after its job    *)
(* was found stalled too often.  A conflict of two executions at the       *)
(* UNIQUE key fails a job, too, but behind it the event is processed.      *)
StuckForAReason ==
    \A s \in Sessions : job[s] \in {"completed", "failed"} /\ ~processed[s] =>
        job[s] = "failed" /\ (throws > 0 \/ stalls[s] = MaxStalledCount)

(* Without faults an execution holds the lock of its job, so it is the only *)
(* one and meets no conflict, and no add is lost.                          *)
Undisturbed ==
    faults = 0 /\ throws = 0 =>
        /\ \A w \in Workers : pc[w] # "idle" => holder[event[w]] = w
        /\ \A s \in Sessions : \A w \in Workers :
              holder[s] = w => event[w] = s /\ pc[w] # "idle"
        /\ \A w \in Workers : pc[w] = "gated" => payment[event[w]] = "none"
        /\ \A s \in Sessions : job[s] # "failed"
        /\ \A s \in Sessions :
              rawEvent[s] \in Enqueued => s \in enqueuing \/ job[s] # "none"

(* A payment and the mark on its event are written together.               *)
PostedIsProcessed == \A s \in Sessions : payment[s] # "none" => processed[s]

HandInv == Undisturbed /\ PostedIsProcessed /\ StuckForAReason

(* Only CommitCredit makes a payment, and it marks the event with it.       *)
LEMMA MarkStep ==
    ASSUME IInv, PostedIsProcessed, [Next]_vars
    PROVE  PostedIsProcessed'
  <1> USE NoSessionAssumption, NoWorkerAssumption, BoundsAssumption
          DEF IInv, Inv, TypeOK, PostedInv, Posted, PostedIsProcessed, bankVars, dbVars, producerVars, queueVars,
              workerVars, boundVars
  <1>1. ASSUME NEW s \in Sessions, NEW outcome \in {"paid", "failed", "reversed"},
               Settle(s, outcome)
        PROVE  PostedIsProcessed'
    BY <1>1 DEF Settle
  <1>2. ASSUME NEW s \in Sessions, NEW e \in Events,
               ReceiveWebhook(s, e)
        PROVE  PostedIsProcessed'
    BY <1>2 DEF ReceiveWebhook, InsertRawEvent, Enqueued
  <1>3. ASSUME NEW s \in Sessions,
               Enqueue(s)
        PROVE  PostedIsProcessed'
    BY <1>3 DEF Enqueue, AddJob
  <1>4. ASSUME NEW s \in Sessions,
               EnqueueLost(s)
        PROVE  PostedIsProcessed'
    BY <1>4 DEF EnqueueLost
  <1>5. ASSUME NEW s \in Sessions,
               BackfillCheck(s)
        PROVE  PostedIsProcessed'
    BY <1>5 DEF BackfillCheck
  <1>6. ASSUME NEW s \in Sessions,
               BackfillInsert(s)
        PROVE  PostedIsProcessed'
    BY <1>6 DEF BackfillInsert, InsertRawEvent
  <1>7. ASSUME NEW s \in Sessions,
               SweepEnqueue(s)
        PROVE  PostedIsProcessed'
    BY <1>7 DEF SweepEnqueue, AddJob
  <1>8. ASSUME NEW s \in Sessions,
               StalledByCrash(s)
        PROVE  PostedIsProcessed'
    BY <1>8 DEF StalledByCrash, RecoverStalled, HolderRuns
  <1>9. ASSUME NEW s \in Sessions,
               StalledBySlowness(s)
        PROVE  PostedIsProcessed'
    BY <1>9 DEF StalledBySlowness, RecoverStalled
  <1>10. ASSUME BackfillList
        PROVE  PostedIsProcessed'
    BY <1>10 DEF BackfillList
  <1>11. ASSUME SweepSelect
        PROVE  PostedIsProcessed'
    BY <1>11 DEF SweepSelect
  <1>12. ASSUME CronAborts
        PROVE  PostedIsProcessed'
    BY <1>12 DEF CronAborts
  <1>13. ASSUME NEW w \in Workers,
               LoadEvent(w)
        PROVE  PostedIsProcessed'
    BY <1>13 DEF LoadEvent, MarkProcessed
  <1>14. ASSUME NEW w \in Workers,
               SessionGate(w)
        PROVE  PostedIsProcessed'
    BY <1>14 DEF SessionGate, MarkProcessed
  <1>15. ASSUME NEW w \in Workers,
               CommitCredit(w)
        PROVE  PostedIsProcessed'
    BY <1>15 DEF CommitCredit, MarkProcessed
  <1>16. ASSUME NEW w \in Workers,
               CommitConflict(w)
        PROVE  PostedIsProcessed'
    BY <1>16 DEF CommitConflict, EndJob
  <1>17. ASSUME NEW w \in Workers,
               ReverseCredit(w)
        PROVE  PostedIsProcessed'
    BY <1>17 DEF ReverseCredit, MarkProcessed
  <1>18. ASSUME NEW w \in Workers,
               CompleteJob(w)
        PROVE  PostedIsProcessed'
    BY <1>18 DEF CompleteJob, EndJob
  <1>19. ASSUME NEW w \in Workers, NEW s \in Sessions,
               TakeJob(w, s)
        PROVE  PostedIsProcessed'
    BY <1>19 DEF TakeJob
  <1>20. ASSUME NEW w \in Workers,
               JobThrows(w)
        PROVE  PostedIsProcessed'
    BY <1>20 DEF JobThrows, EndJob
  <1>21. ASSUME NEW w \in Workers,
               WorkerCrash(w)
        PROVE  PostedIsProcessed'
    BY <1>21 DEF WorkerCrash
  <1>22. CASE UNCHANGED vars
    BY <1>22 DEF vars
  <1> HIDE DEF IInv, Inv, TypeOK, RowInv, WorkInv, PostedInv, Posted, CompletedIsProcessed, ProcessedIsPosted, PostedIsProcessed
  <1>23. QED
    BY <1>1, <1>2, <1>3, <1>4, <1>5, <1>6, <1>7, <1>8, <1>9, <1>10, <1>11, <1>12,
       <1>13, <1>14, <1>15, <1>16, <1>17, <1>18, <1>19, <1>20, <1>21, <1>22
       DEF Next, SessionStep, WorkerStep

(* A job is left behind completed with its event marked, failed by an      *)
(* exception or the stalled check, or by a conflict with a marked event.   *)
LEMMA ReasonStep ==
    ASSUME IInv, PostedIsProcessed, StuckForAReason, [Next]_vars
    PROVE  StuckForAReason'
  <1> USE NoSessionAssumption, NoWorkerAssumption, BoundsAssumption
          DEF IInv, Inv, TypeOK, WorkInv, PostedIsProcessed, StuckForAReason, bankVars, dbVars, producerVars, queueVars,
              workerVars, boundVars
  <1>1. ASSUME NEW s \in Sessions, NEW outcome \in {"paid", "failed", "reversed"},
               Settle(s, outcome)
        PROVE  StuckForAReason'
    BY <1>1 DEF Settle
  <1>2. ASSUME NEW s \in Sessions, NEW e \in Events,
               ReceiveWebhook(s, e)
        PROVE  StuckForAReason'
    BY <1>2 DEF ReceiveWebhook, InsertRawEvent, Enqueued
  <1>3. ASSUME NEW s \in Sessions,
               Enqueue(s)
        PROVE  StuckForAReason'
    BY <1>3 DEF Enqueue, AddJob
  <1>4. ASSUME NEW s \in Sessions,
               EnqueueLost(s)
        PROVE  StuckForAReason'
    BY <1>4 DEF EnqueueLost
  <1>5. ASSUME NEW s \in Sessions,
               BackfillCheck(s)
        PROVE  StuckForAReason'
    BY <1>5 DEF BackfillCheck
  <1>6. ASSUME NEW s \in Sessions,
               BackfillInsert(s)
        PROVE  StuckForAReason'
    BY <1>6 DEF BackfillInsert, InsertRawEvent
  <1>7. ASSUME NEW s \in Sessions,
               SweepEnqueue(s)
        PROVE  StuckForAReason'
    BY <1>7 DEF SweepEnqueue, AddJob
  <1>8. ASSUME NEW s \in Sessions,
               StalledByCrash(s)
        PROVE  StuckForAReason'
    BY <1>8 DEF StalledByCrash, RecoverStalled, HolderRuns
  <1>9. ASSUME NEW s \in Sessions,
               StalledBySlowness(s)
        PROVE  StuckForAReason'
    BY <1>9 DEF StalledBySlowness, RecoverStalled
  <1>10. ASSUME BackfillList
        PROVE  StuckForAReason'
    BY <1>10 DEF BackfillList
  <1>11. ASSUME SweepSelect
        PROVE  StuckForAReason'
    BY <1>11 DEF SweepSelect
  <1>12. ASSUME CronAborts
        PROVE  StuckForAReason'
    BY <1>12 DEF CronAborts
  <1>13. ASSUME NEW w \in Workers,
               LoadEvent(w)
        PROVE  StuckForAReason'
    BY <1>13 DEF LoadEvent, MarkProcessed
  <1>14. ASSUME NEW w \in Workers,
               SessionGate(w)
        PROVE  StuckForAReason'
    BY <1>14 DEF SessionGate, MarkProcessed
  <1>15. ASSUME NEW w \in Workers,
               CommitCredit(w)
        PROVE  StuckForAReason'
    BY <1>15 DEF CommitCredit, MarkProcessed
  <1>16. ASSUME NEW w \in Workers,
               CommitConflict(w)
        PROVE  StuckForAReason'
    BY <1>16 DEF CommitConflict, EndJob
  <1>17. ASSUME NEW w \in Workers,
               ReverseCredit(w)
        PROVE  StuckForAReason'
    BY <1>17 DEF ReverseCredit, MarkProcessed
  <1>18. ASSUME NEW w \in Workers,
               CompleteJob(w)
        PROVE  StuckForAReason'
    BY <1>18 DEF CompleteJob, EndJob
  <1>19. ASSUME NEW w \in Workers, NEW s \in Sessions,
               TakeJob(w, s)
        PROVE  StuckForAReason'
    BY <1>19 DEF TakeJob
  <1>20. ASSUME NEW w \in Workers,
               JobThrows(w)
        PROVE  StuckForAReason'
    BY <1>20 DEF JobThrows, EndJob
  <1>21. ASSUME NEW w \in Workers,
               WorkerCrash(w)
        PROVE  StuckForAReason'
    BY <1>21 DEF WorkerCrash
  <1>22. CASE UNCHANGED vars
    BY <1>22 DEF vars
  <1> HIDE DEF IInv, Inv, TypeOK, RowInv, WorkInv, PostedInv, Posted, CompletedIsProcessed, ProcessedIsPosted, StuckForAReason
  <1>23. QED
    BY <1>1, <1>2, <1>3, <1>4, <1>5, <1>6, <1>7, <1>8, <1>9, <1>10, <1>11, <1>12,
       <1>13, <1>14, <1>15, <1>16, <1>17, <1>18, <1>19, <1>20, <1>21, <1>22
       DEF Next, SessionStep, WorkerStep

(* Without faults a job is handed to one execution and comes back from it. *)
LEMMA UndisturbedStep ==
    ASSUME IInv, Undisturbed, [Next]_vars
    PROVE  Undisturbed'
  <1> USE NoSessionAssumption, NoWorkerAssumption, BoundsAssumption
          DEF IInv, Inv, TypeOK, RowInv, WorkInv, Undisturbed, bankVars, dbVars, producerVars, queueVars,
              workerVars, boundVars
  <1>1. ASSUME NEW s \in Sessions, NEW outcome \in {"paid", "failed", "reversed"},
               Settle(s, outcome)
        PROVE  Undisturbed'
    BY <1>1 DEF Settle
  <1>2. ASSUME NEW s \in Sessions, NEW e \in Events,
               ReceiveWebhook(s, e)
        PROVE  Undisturbed'
    BY <1>2 DEF ReceiveWebhook, InsertRawEvent, Enqueued
  <1>3. ASSUME NEW s \in Sessions,
               Enqueue(s)
        PROVE  Undisturbed'
    BY <1>3 DEF Enqueue, AddJob
  <1>4. ASSUME NEW s \in Sessions,
               EnqueueLost(s)
        PROVE  Undisturbed'
    BY <1>4 DEF EnqueueLost
  <1>5. ASSUME NEW s \in Sessions,
               BackfillCheck(s)
        PROVE  Undisturbed'
    BY <1>5 DEF BackfillCheck
  <1>6. ASSUME NEW s \in Sessions,
               BackfillInsert(s)
        PROVE  Undisturbed'
    BY <1>6 DEF BackfillInsert, InsertRawEvent
  <1>7. ASSUME NEW s \in Sessions,
               SweepEnqueue(s)
        PROVE  Undisturbed'
    BY <1>7 DEF SweepEnqueue, AddJob
  <1>8. ASSUME NEW s \in Sessions,
               StalledByCrash(s)
        PROVE  Undisturbed'
    BY <1>8 DEF StalledByCrash, RecoverStalled, HolderRuns
  <1>9. ASSUME NEW s \in Sessions,
               StalledBySlowness(s)
        PROVE  Undisturbed'
    BY <1>9 DEF StalledBySlowness, RecoverStalled
  <1>10. ASSUME BackfillList
        PROVE  Undisturbed'
    BY <1>10 DEF BackfillList
  <1>11. ASSUME SweepSelect
        PROVE  Undisturbed'
    BY <1>11 DEF SweepSelect
  <1>12. ASSUME CronAborts
        PROVE  Undisturbed'
    BY <1>12 DEF CronAborts
  <1>13. ASSUME NEW w \in Workers,
               LoadEvent(w)
        PROVE  Undisturbed'
    BY <1>13 DEF LoadEvent, MarkProcessed
  <1>14. ASSUME NEW w \in Workers,
               SessionGate(w)
        PROVE  Undisturbed'
    BY <1>14 DEF SessionGate, MarkProcessed
  <1>15. ASSUME NEW w \in Workers,
               CommitCredit(w)
        PROVE  Undisturbed'
    BY <1>15 DEF CommitCredit, MarkProcessed
  <1>16. ASSUME NEW w \in Workers,
               CommitConflict(w)
        PROVE  Undisturbed'
    BY <1>16 DEF CommitConflict, EndJob
  <1>17. ASSUME NEW w \in Workers,
               ReverseCredit(w)
        PROVE  Undisturbed'
    BY <1>17 DEF ReverseCredit, MarkProcessed
  <1>18. ASSUME NEW w \in Workers,
               CompleteJob(w)
        PROVE  Undisturbed'
    BY <1>18 DEF CompleteJob, EndJob
  <1>19. ASSUME NEW w \in Workers, NEW s \in Sessions,
               TakeJob(w, s)
        PROVE  Undisturbed'
    BY <1>19 DEF TakeJob
  <1>20. ASSUME NEW w \in Workers,
               JobThrows(w)
        PROVE  Undisturbed'
    BY <1>20 DEF JobThrows, EndJob
  <1>21. ASSUME NEW w \in Workers,
               WorkerCrash(w)
        PROVE  Undisturbed'
    BY <1>21 DEF WorkerCrash
  <1>22. CASE UNCHANGED vars
    BY <1>22 DEF vars
  <1> HIDE DEF IInv, Inv, TypeOK, RowInv, WorkInv, PostedInv, Posted, CompletedIsProcessed, ProcessedIsPosted, Undisturbed
  <1>23. QED
    BY <1>1, <1>2, <1>3, <1>4, <1>5, <1>6, <1>7, <1>8, <1>9, <1>10, <1>11, <1>12,
       <1>13, <1>14, <1>15, <1>16, <1>17, <1>18, <1>19, <1>20, <1>21, <1>22
       DEF Next, SessionStep, WorkerStep

(* Nothing is lost without a fault, and a failed job has a reason, for all *)
(* sets of sessions and workers.                                           *)
THEOREM HandInvariance == Spec => []HandInv
  <1>1. Init => HandInv
    BY BoundsAssumption, NoWorkerAssumption
       DEF Init, HandInv, Undisturbed, PostedIsProcessed, StuckForAReason, Enqueued
  <1>2. IInv /\ HandInv /\ [Next]_vars => HandInv'
    BY MarkStep, ReasonStep, UndisturbedStep DEF HandInv
  <1>3. QED
    BY <1>1, <1>2, Invariance, PTL DEF Spec

(* An event that is to be handled waits for nobody but those who have it,  *)
(* unless something crashed, stalled or threw.                             *)
THEOREM InHandAlways == Spec => []InHand
  <1>1. IInv /\ HandInv => InHand
    <2> SUFFICES ASSUME IInv, HandInv, faults = 0, throws = 0,
                        NEW s \in Sessions, rawEvent[s] \in Enqueued, ~processed[s],
                        s \notin enqueuing, job[s] # "waiting"
                 PROVE  \E w \in Workers : holder[s] = w /\ event[w] = s /\ pc[w] # "idle"
      BY DEF InHand
    <2>1. Undisturbed /\ TypeOK /\ CompletedIsProcessed
      BY DEF IInv, Inv, HandInv
    <2>2. job[s] \notin {"none", "failed", "completed"}
      BY <2>1 DEF Undisturbed, CompletedIsProcessed
    <2>3. job[s] = "active"
      BY <2>1, <2>2 DEF TypeOK
    <2>4. holder[s] \in Workers
      BY <2>1, <2>3 DEF TypeOK
    <2>5. QED
      BY <2>1, <2>4 DEF Undisturbed
  <1>2. QED
    BY <1>1, Invariance, HandInvariance, PTL

(* An event that no later add can reach threw, or stalled too often        *)
(* (finding 2 of README.md is the first kind).                             *)
THEOREM StuckForAReasonAlways == Spec => []StuckForAReason
  <1>1. HandInv => StuckForAReason
    BY DEF HandInv
  <1>2. QED
    BY <1>1, HandInvariance, PTL

=============================================================================
