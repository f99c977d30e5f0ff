------------------------------ MODULE Ingestion ------------------------------
(***************************************************************************)
(* From a transfer at Nomba to a posted credit: the webhook receiver of    *)
(* apps/api, the raw_events and payments tables, the BullMQ reconcile      *)
(* queue, the reconcile workers, the backfill poller and the sweeper.      *)
(*                                                                         *)
(* raw_events.session_id and payments.session_id are UNIQUE, so both       *)
(* tables are functions of the session; a BullMQ job has the id of its     *)
(* raw_event, so the queue is one as well.  Webhooks may be lost,          *)
(* duplicated and reordered: Nomba may deliver anything it has announced,  *)
(* at any time, any number of times, or never.  What a credit does to      *)
(* invoices and accounts is the business of Ledger.tla.                    *)
(***************************************************************************)
EXTENDS Naturals, FiniteSets

CONSTANTS
    Sessions,           \* NIBSS session ids, one per inbound transfer
    Workers,            \* concurrent executions of the reconcile consumer
    NoSession,          \* the event of a worker that runs no job
    NoWorker,           \* the lock holder of a job nobody runs
    MaxStalledCount,    \* BullMQ's maxStalledCount, 1 unless it is set
    SweepLimit,         \* .limit(500) of the sweeper
    MaxFaults,          \* bound: lost enqueues, crashes and stalls
    MaxThrows           \* bound: exceptions out of a reconcile job

ASSUME NoSessionAssumption == NoSession \notin Sessions
ASSUME NoWorkerAssumption == NoWorker \notin Workers
ASSUME BoundsAssumption ==
    {MaxStalledCount, SweepLimit, MaxFaults, MaxThrows} \subseteq Nat

VARIABLES
    bank,               \* Nomba: the fate of the transfer
    told,               \* history: reversals whose webhook was answered 200
    rawEvent,           \* raw_events.event_type, "none" when there is no row
    processed,          \* raw_events.processed_at is set
    payment,            \* payments.status, "none" when there is no row
    credits,            \* history: credits posted to the ledger
    contras,            \* history: credits unwound in the ledger
    enqueuing,          \* rows whose inserter has still to call queue.add
    poll,               \* the backfill poller's progress on a listed transfer
    sweepBatch,         \* rows the running sweep selected and has to enqueue
    job,                \* BullMQ: state of the job of the session's raw_event
    stalls,             \* BullMQ: how often the job was found stalled
    holder,             \* BullMQ: the execution that holds the job's lock
    pc,                 \* where each execution of the processor is
    event,              \* the raw_event it processes
    faults, throws      \* how much of MaxFaults and MaxThrows is spent

bankVars == <<bank, told>>
dbVars == <<rawEvent, processed, payment, credits, contras>>
producerVars == <<enqueuing, poll, sweepBatch>>
queueVars == <<job, stalls, holder>>
workerVars == <<pc, event>>
boundVars == <<faults, throws>>
vars == <<bankVars, dbVars, producerVars, queueVars, workerVars, boundVars>>

Events == {"payment_success", "payment_failed", "payment_reversal"}

(* isInboundVirtualAccountCredit or ACTIONABLE: enqueued on receipt.       *)
Enqueued == {"payment_success", "payment_reversal"}

Init ==
    /\ bank = [s \in Sessions |-> "none"]
    /\ told = {}
    /\ rawEvent = [s \in Sessions |-> "none"]
    /\ processed = [s \in Sessions |-> FALSE]
    /\ payment = [s \in Sessions |-> "none"]
    /\ credits = [s \in Sessions |-> 0]
    /\ contras = [s \in Sessions |-> 0]
    /\ enqueuing = {}
    /\ poll = [s \in Sessions |-> "idle"]
    /\ sweepBatch = {}
    /\ job = [s \in Sessions |-> "none"]
    /\ stalls = [s \in Sessions |-> 0]
    /\ holder = [s \in Sessions |-> NoWorker]
    /\ pc = [w \in Workers |-> "idle"]
    /\ event = [w \in Workers |-> NoSession]
    /\ faults = 0
    /\ throws = 0

-----------------------------------------------------------------------------
(* Nomba: the transfer is settled, rejected, or reversed later.            *)

Settle(s, outcome) ==
    /\ \/ bank[s] = "none" /\ outcome \in {"paid", "failed"}
       \/ bank[s] = "paid" /\ outcome = "reversed"
    /\ bank' = [bank EXCEPT ![s] = outcome]
    /\ UNCHANGED <<told, dbVars, producerVars, queueVars, workerVars, boundVars>>

(* The webhooks Nomba has sent; all carry the transfer's own session id.   *)
Announced(s) ==
    CASE bank[s] = "none" -> {}
      [] bank[s] = "paid" -> {"payment_success"}
      [] bank[s] = "failed" -> {"payment_failed"}
      [] bank[s] = "reversed" -> {"payment_success", "payment_reversal"}

(* Its Transactions API lists every transfer that brought money in.        *)
Listed(s) == bank[s] \in {"paid", "reversed"}

-----------------------------------------------------------------------------
(* Producers: webhook receiver, backfill poller, sweeper.                  *)

(* INSERT ... ON CONFLICT (session_id) DO NOTHING, then the row is new.    *)
InsertRawEvent(s, e) ==
    /\ rawEvent[s] = "none"
    /\ rawEvent' = [rawEvent EXCEPT ![s] = e]
    /\ UNCHANGED <<processed, payment, credits, contras>>

(* POST /webhooks/nomba.  A webhook for a session that has a row already   *)
(* is answered 200 like the others, and nothing else happens.              *)
ReceiveWebhook(s, e) ==
    /\ e \in Announced(s)
    /\ \/ /\ InsertRawEvent(s, e)
          /\ enqueuing' = IF e \in Enqueued THEN enqueuing \cup {s} ELSE enqueuing
       \/ /\ rawEvent[s] # "none"
          /\ UNCHANGED <<dbVars, enqueuing>>
    /\ told' = IF e = "payment_reversal" THEN told \cup {s} ELSE told
    /\ UNCHANGED <<bank, poll, sweepBatch, queueVars, workerVars, boundVars>>

(* Mutant: a job that is not waiting is added once more.                   *)
AddJobAgain(s) ==
    /\ job' = [job EXCEPT ![s] = "waiting"]
    /\ UNCHANGED <<stalls, holder>>

(* queue.add with jobId = rawEventId: a no-op while a job with that id     *)
(* exists in any state, the completed and the failed ones included.        *)
AddJob(s) ==
    /\ job' = IF job[s] = "none" THEN [job EXCEPT ![s] = "waiting"] ELSE job
    /\ UNCHANGED <<stalls, holder>>

Enqueue(s) ==
    /\ s \in enqueuing
    /\ enqueuing' = enqueuing \ {s}
    /\ AddJob(s)
    /\ UNCHANGED <<bankVars, dbVars, poll, sweepBatch, workerVars, boundVars>>

(* The process dies, or Redis is down, after the insert: no job.           *)
EnqueueLost(s) ==
    /\ faults < MaxFaults
    /\ s \in enqueuing
    /\ enqueuing' = enqueuing \ {s}
    /\ faults' = faults + 1
    /\ UNCHANGED <<bankVars, dbVars, poll, sweepBatch, queueVars, workerVars, throws>>

(* The backfill cron lists the transactions of the active accounts ...     *)
BackfillList ==
    /\ \A s \in Sessions : poll[s] = "idle"
    /\ poll' = [s \in Sessions |-> IF Listed(s) THEN "listed" ELSE "idle"]
    /\ UNCHANGED <<bankVars, dbVars, enqueuing, sweepBatch, queueVars, workerVars, boundVars>>

(* Mutant: the seen check is inverted.                                     *)
BackfillCheckInverted(s) ==
    /\ poll[s] = "listed"
    /\ poll' = [poll EXCEPT ![s] = IF payment[s] = "none" THEN "idle" ELSE "unseen"]
    /\ UNCHANGED <<bankVars, dbVars, enqueuing, sweepBatch, queueVars, workerVars, boundVars>>

(* ... skips the transfers that have a payment ...                         *)
BackfillCheck(s) ==
    /\ poll[s] = "listed"
    /\ poll' = [poll EXCEPT ![s] = IF payment[s] # "none" THEN "idle" ELSE "unseen"]
    /\ UNCHANGED <<bankVars, dbVars, enqueuing, sweepBatch, queueVars, workerVars, boundVars>>

(* ... and inserts a synthetic payment_success for the others.             *)
BackfillInsert(s) ==
    /\ poll[s] = "unseen"
    /\ poll' = [poll EXCEPT ![s] = "idle"]
    /\ \/ /\ InsertRawEvent(s, "payment_success")
          /\ enqueuing' = enqueuing \cup {s}
       \/ /\ rawEvent[s] # "none"
          /\ UNCHANGED <<dbVars, enqueuing>>
    /\ UNCHANGED <<bankVars, sweepBatch, queueVars, workerVars, boundVars>>

(* Mutant: the sweep looks only for the events the receiver enqueues.      *)
StuckActionable == {s \in Sessions : rawEvent[s] \in Enqueued /\ ~processed[s]}

(* Valid rows that were never processed; the sixty seconds of grace are    *)
(* left out, so the sweep may race every row that is still being handled.  *)
Stuck == {s \in Sessions : rawEvent[s] # "none" /\ ~processed[s]}

SweepSelect ==
    /\ sweepBatch = {}
    /\ \E batch \in SUBSET Stuck :
          /\ batch # {}
          /\ \/ batch = Stuck /\ Cardinality(Stuck) <= SweepLimit
             \/ Cardinality(Stuck) > SweepLimit /\ Cardinality(batch) = SweepLimit
          /\ sweepBatch' = batch
    /\ UNCHANGED <<bankVars, dbVars, enqueuing, poll, queueVars, workerVars, boundVars>>

SweepEnqueue(s) ==
    /\ s \in sweepBatch
    /\ sweepBatch' = sweepBatch \ {s}
    /\ AddJob(s)
    /\ UNCHANGED <<bankVars, dbVars, enqueuing, poll, workerVars, boundVars>>

(* The cron job dies or throws half way; the next run starts over.         *)
CronAborts ==
    /\ faults < MaxFaults
    /\ sweepBatch # {} \/ \E s \in Sessions : poll[s] # "idle"
    /\ sweepBatch' = {}
    /\ poll' = [s \in Sessions |-> "idle"]
    /\ faults' = faults + 1
    /\ UNCHANGED <<bankVars, dbVars, enqueuing, queueVars, workerVars, throws>>

-----------------------------------------------------------------------------
(* BullMQ: hand out, complete, fail and recover jobs.                      *)

TakeJob(w, s) ==
    /\ pc[w] = "idle"
    /\ job[s] = "waiting"
    /\ job' = [job EXCEPT ![s] = "active"]
    /\ holder' = [holder EXCEPT ![s] = w]
    /\ pc' = [pc EXCEPT ![w] = "taken"]
    /\ event' = [event EXCEPT ![w] = s]
    /\ UNCHANGED <<bankVars, dbVars, producerVars, stalls, boundVars>>

(* The processor of w is over.  An execution that lost the lock cannot     *)
(* move the job any more.                                                  *)
EndJob(w, state) ==
    /\ job' = IF holder[event[w]] = w THEN [job EXCEPT ![event[w]] = state] ELSE job
    /\ holder' = IF holder[event[w]] = w
                   THEN [holder EXCEPT ![event[w]] = NoWorker] ELSE holder
    /\ pc' = [pc EXCEPT ![w] = "idle"]
    /\ event' = [event EXCEPT ![w] = NoSession]
    /\ UNCHANGED stalls

CompleteJob(w) ==
    /\ pc[w] = "done"
    /\ EndJob(w, "completed")
    /\ UNCHANGED <<bankVars, dbVars, producerVars, boundVars>>

(* Mutant: the consumer swallows the exception.                            *)
JobThrowsSwallowed(w) ==
    /\ throws < MaxThrows
    /\ pc[w] \in {"taken", "credit", "gated", "reversal"}
    /\ EndJob(w, "completed")
    /\ throws' = throws + 1
    /\ UNCHANGED <<bankVars, dbVars, producerVars, faults>>

(* The processor throws (database, parse error): jobs are added without    *)
(* attempts, so the first failure is final.                                *)
JobThrows(w) ==
    /\ throws < MaxThrows
    /\ pc[w] \in {"taken", "credit", "gated", "reversal"}
    /\ EndJob(w, "failed")
    /\ throws' = throws + 1
    /\ UNCHANGED <<bankVars, dbVars, producerVars, faults>>

WorkerCrash(w) ==
    /\ faults < MaxFaults
    /\ pc[w] # "idle"
    /\ pc' = [pc EXCEPT ![w] = "idle"]
    /\ event' = [event EXCEPT ![w] = NoSession]
    /\ faults' = faults + 1
    /\ UNCHANGED <<bankVars, dbVars, producerVars, queueVars, throws>>

(* The lock expired: the job goes back to the queue, or to the failed set  *)
(* when that happened too often.                                           *)
RecoverStalled(s) ==
    /\ job[s] = "active"
    /\ IF stalls[s] < MaxStalledCount
         THEN /\ job' = [job EXCEPT ![s] = "waiting"]
              /\ stalls' = [stalls EXCEPT ![s] = @ + 1]
         ELSE /\ job' = [job EXCEPT ![s] = "failed"]
              /\ UNCHANGED stalls
    /\ holder' = [holder EXCEPT ![s] = NoWorker]
    /\ UNCHANGED <<bankVars, dbVars, producerVars, workerVars>>

HolderRuns(s) == \E w \in Workers : holder[s] = w /\ event[w] = s

(* The holder crashed and nobody renews the lock ...                       *)
StalledByCrash(s) ==
    /\ ~HolderRuns(s)
    /\ RecoverStalled(s)
    /\ UNCHANGED boundVars

(* ... or it is alive but slow, and goes on beside the second execution.   *)
StalledBySlowness(s) ==
    /\ faults < MaxFaults
    /\ HolderRuns(s)
    /\ RecoverStalled(s)
    /\ faults' = faults + 1
    /\ UNCHANGED throws

-----------------------------------------------------------------------------
(* processRawEvent: read the row, dispatch, one transaction per event.     *)

MarkProcessed(s) == processed' = [processed EXCEPT ![s] = TRUE]

(* Mutant: a transaction is taken for a credit whatever its event_type.    *)
LoadEventAnyType(w) ==
    LET s == event[w] IN
    /\ pc[w] = "taken"
    /\ pc' = [pc EXCEPT ![w] = IF processed[s] THEN "done" ELSE "credit"]
    /\ UNCHANGED <<bankVars, dbVars, producerVars, queueVars, event, boundVars>>

LoadEvent(w) ==
    LET s == event[w] IN
    /\ pc[w] = "taken"
    /\ \/ /\ processed[s]
          /\ pc' = [pc EXCEPT ![w] = "done"]
          /\ UNCHANGED processed
       \/ /\ ~processed[s]
          /\ rawEvent[s] = "payment_success"
          /\ pc' = [pc EXCEPT ![w] = "credit"]
          /\ UNCHANGED processed
       \/ /\ ~processed[s]
          /\ rawEvent[s] = "payment_reversal"
          /\ pc' = [pc EXCEPT ![w] = "reversal"]
          /\ UNCHANGED processed
       \/ /\ ~processed[s]
          /\ rawEvent[s] = "payment_failed"
          /\ pc' = [pc EXCEPT ![w] = "done"]
          /\ MarkProcessed(s)
    /\ UNCHANGED <<bankVars, rawEvent, payment, credits, contras>>
    /\ UNCHANGED <<producerVars, queueVars, event, boundVars>>

(* Mutant: the event is marked before, not in, the credit's transaction.   *)
SessionGateMarksEarly(w) ==
    LET s == event[w] IN
    /\ pc[w] = "credit"
    /\ pc' = [pc EXCEPT ![w] = IF payment[s] # "none" THEN "done" ELSE "gated"]
    /\ MarkProcessed(s)
    /\ UNCHANGED <<bankVars, rawEvent, payment, credits, contras>>
    /\ UNCHANGED <<producerVars, queueVars, event, boundVars>>

(* The idempotency gate of reconcileInboundCredit: a SELECT, which sees    *)
(* only what other transactions have committed.                            *)
SessionGate(w) ==
    LET s == event[w] IN
    /\ pc[w] = "credit"
    /\ \/ /\ payment[s] # "none"
          /\ MarkProcessed(s)
          /\ pc' = [pc EXCEPT ![w] = "done"]
       \/ /\ payment[s] = "none"
          /\ pc' = [pc EXCEPT ![w] = "gated"]
          /\ UNCHANGED processed
    /\ UNCHANGED <<bankVars, rawEvent, payment, credits, contras>>
    /\ UNCHANGED <<producerVars, queueVars, event, boundVars>>

(* Mutant: payments.session_id is not UNIQUE.                              *)
CommitCreditNotUnique(w) ==
    LET s == event[w] IN
    /\ pc[w] = "gated"
    /\ payment' = [payment EXCEPT ![s] = "reconciled"]
    /\ credits' = [credits EXCEPT ![s] = @ + 1]
    /\ MarkProcessed(s)
    /\ pc' = [pc EXCEPT ![w] = "done"]
    /\ UNCHANGED <<bankVars, rawEvent, contras, producerVars, queueVars, event, boundVars>>

(* Payment, postings and processed_at in one transaction.                  *)
CommitCredit(w) ==
    LET s == event[w] IN
    /\ pc[w] = "gated"
    /\ payment[s] = "none"
    /\ payment' = [payment EXCEPT ![s] = "reconciled"]
    /\ credits' = [credits EXCEPT ![s] = @ + 1]
    /\ MarkProcessed(s)
    /\ pc' = [pc EXCEPT ![w] = "done"]
    /\ UNCHANGED <<bankVars, rawEvent, contras, producerVars, queueVars, event, boundVars>>

(* Another execution committed since the gate: UNIQUE (session_id) aborts  *)
(* the transaction and the job fails.                                      *)
CommitConflict(w) ==
    /\ pc[w] = "gated"
    /\ payment[event[w]] # "none"
    /\ EndJob(w, "failed")
    /\ UNCHANGED <<bankVars, dbVars, producerVars, boundVars>>

(* reverseCredit: without a payment, or with a refunded one, only the      *)
(* event is marked.                                                        *)
ReverseCredit(w) ==
    LET s == event[w]
        unwinds == payment[s] = "reconciled"
    IN
    /\ pc[w] = "reversal"
    /\ payment' = IF unwinds THEN [payment EXCEPT ![s] = "refunded"] ELSE payment
    /\ contras' = IF unwinds THEN [contras EXCEPT ![s] = @ + 1] ELSE contras
    /\ MarkProcessed(s)
    /\ pc' = [pc EXCEPT ![w] = "done"]
    /\ UNCHANGED <<bankVars, rawEvent, credits, producerVars, queueVars, event, boundVars>>

-----------------------------------------------------------------------------
WorkerStep(w) ==
    \/ LoadEvent(w)
    \/ SessionGate(w)
    \/ CommitCredit(w)
    \/ CommitConflict(w)
    \/ ReverseCredit(w)
    \/ CompleteJob(w)

SessionStep(s) ==
    \/ \E outcome \in {"paid", "failed", "reversed"} : Settle(s, outcome)
    \/ \E e \in Events : ReceiveWebhook(s, e)
    \/ Enqueue(s)
    \/ EnqueueLost(s)
    \/ BackfillCheck(s)
    \/ BackfillInsert(s)
    \/ SweepEnqueue(s)
    \/ StalledByCrash(s)
    \/ StalledBySlowness(s)

Next ==
    \/ \E s \in Sessions : SessionStep(s)
    \/ BackfillList
    \/ SweepSelect
    \/ CronAborts
    \/ \E w \in Workers :
          \/ WorkerStep(w)
          \/ \E s \in Sessions : TakeJob(w, s)
          \/ JobThrows(w)
          \/ WorkerCrash(w)

Spec == Init /\ [][Next]_vars

(* What is scheduled happens: handlers finish, the cron fires every five   *)
(* minutes, consumers take jobs and the stalled check runs.  Nomba owes    *)
(* nothing: every webhook may be lost.                                     *)
Fairness ==
    /\ \A s \in Sessions :
          /\ WF_vars(Enqueue(s))
          /\ WF_vars(BackfillCheck(s))
          /\ WF_vars(BackfillInsert(s))
          /\ WF_vars(SweepEnqueue(s))
          /\ WF_vars(StalledByCrash(s))
          /\ WF_vars(\E w \in Workers : TakeJob(w, s))
    /\ WF_vars(BackfillList)
    /\ WF_vars(SweepSelect)
    /\ \A w \in Workers : WF_vars(WorkerStep(w))

FairSpec == Spec /\ Fairness

-----------------------------------------------------------------------------
(* Types of all variables; a running execution has an event, and a job is  *)
(* locked exactly while it is active.                                      *)
TypeOK ==
    /\ bank \in [Sessions -> {"none", "paid", "failed", "reversed"}]
    /\ told \in SUBSET Sessions
    /\ rawEvent \in [Sessions -> Events \cup {"none"}]
    /\ processed \in [Sessions -> BOOLEAN]
    /\ payment \in [Sessions -> {"none", "reconciled", "refunded"}]
    /\ credits \in [Sessions -> Nat]
    /\ contras \in [Sessions -> Nat]
    /\ enqueuing \in SUBSET Sessions
    /\ poll \in [Sessions -> {"idle", "listed", "unseen"}]
    /\ sweepBatch \in SUBSET Sessions
    /\ job \in [Sessions -> {"none", "waiting", "active", "completed", "failed"}]
    /\ stalls \in [Sessions -> 0..MaxStalledCount]
    /\ holder \in [Sessions -> Workers \cup {NoWorker}]
    /\ pc \in [Workers -> {"idle", "taken", "credit", "gated", "reversal", "done"}]
    /\ event \in [Workers -> Sessions \cup {NoSession}]
    /\ \A w \in Workers : pc[w] # "idle" => event[w] # NoSession
    /\ \A s \in Sessions : job[s] = "active" <=> holder[s] # NoWorker
    /\ faults \in 0..MaxFaults
    /\ throws \in 0..MaxThrows

(* "HARD idempotency anchor: no double-credit" (0001_init.sql): however    *)
(* often a webhook is delivered and however many executions of its job run *)
(* side by side, a session's money is posted at most once, and there is a  *)
(* payment row exactly for the sessions that were posted.                  *)
CreditedOnce ==
    \A s \in Sessions :
        /\ credits[s] <= 1
        /\ credits[s] = 1 <=> payment[s] # "none"

(* An event is marked processed in the transaction that handles it: a      *)
(* processed payment_success has its payment, so no crash or lost lock     *)
(* leaves an event that every retry skips although its money is missing.   *)
ProcessedIsPosted ==
    \A s \in Sessions :
        processed[s] /\ rawEvent[s] = "payment_success" => payment[s] # "none"

(* A job that BullMQ keeps as completed blocks every later add of the same *)
(* id, so it must not be there while its event is unprocessed: the sweeper *)
(* could never get it going again.                                         *)
CompletedIsProcessed ==
    \A s \in Sessions : job[s] = "completed" => processed[s]

(* Ingestion implements the abstract promise to the ledger.                *)
Promise == INSTANCE ExactlyOnceCredit WITH
    bank <- bank, credits <- credits, contras <- contras
ExactlyOnce == Promise!Spec

(* "Redis is only delivery; if it dies, the backfill/sweeper recovers"     *)
(* (app.ts): money received at Nomba is posted, even if every webhook is   *)
(* lost, unless Nomba takes it back first.                                 *)
PaidIsCredited ==
    \A s \in Sessions :
        bank[s] = "paid" ~> (payment[s] # "none" \/ bank[s] = "reversed")

(* "null = sweeper re-enqueues" (0001_init.sql): a persisted event does    *)
(* not stay unprocessed.                                                   *)
EventsDrain ==
    \A s \in Sessions : rawEvent[s] # "none" ~> processed[s]

(* "Append-only contra postings unwind the credit" (README): a credit that *)
(* Nomba reversed is unwound once the reversal's webhook was acknowledged. *)
ReversalUnwinds ==
    \A s \in Sessions :
        (s \in told /\ payment[s] = "reconciled") ~> payment[s] = "refunded"

=============================================================================
