---------------------------- MODULE RefundPayout ----------------------------
(***************************************************************************)
(* A refund from approval to payout: the approve endpoint of apps/api, the *)
(* payout job of apps/worker with its retries, Nomba's transfer and the    *)
(* payout webhooks.                                                        *)
(*                                                                         *)
(* Reads and writes of pending_refunds are separate statements without a   *)
(* transaction around them, so they are separate actions.  A slot is one   *)
(* execution of a payout job: a job that stalls while its execution is     *)
(* merely slow gets a second slot.                                         *)
(***************************************************************************)
EXTENDS Naturals

CONSTANTS
    Refunds,
    Handlers,           \* concurrent requests to POST /refunds/:id/approve
    Slots,              \* bound: executions of payout jobs
    NoRefund,
    MaxAttempts,        \* attempts of a payout job, 5 in the code
    MaxStalledCount,    \* BullMQ's default is 1
    Webhooks,           \* payout events Nomba delivers
    MaxFaults           \* bound: timeouts, database errors, lost answers, dead
                        \* processes and slow executions, together

ASSUME NoRefundAssumption == NoRefund \notin Refunds
ASSUME AttemptsAssumption == MaxAttempts \in Nat \ {0} /\ MaxStalledCount \in Nat
ASSUME PayoutBounds == MaxFaults \in Nat

VARIABLES
    status,             \* pending_refunds.status
    details,            \* the payment has the sender's bank details
    posted,             \* ledger: reversing entries posted for the refund
    transfer,           \* Nomba: the transfer with the refund's merchantTxRef
    finalised,          \* payout events of the refund the worker has processed
    handler,            \* approve requests in flight
    slot,               \* executions of payout jobs
    errors, crashes,    \* how much of the bounds is spent
    disturbed,          \* history: a stale write or overlapping executions
    unwritten           \* history: the last attempt could not write failed

vars == <<status, details, posted, transfer, finalised, handler, slot, errors,
          crashes, disturbed, unwritten>>

rowVars == <<status, details, posted>>
nombaVars == <<transfer, finalised>>
boundVars == <<errors, crashes>>
historyVars == <<disturbed, unwritten>>

IdleHandler == [pc |-> "idle", refund |-> NoRefund, read |-> "none"]
FreeSlot == [pc |-> "free", refund |-> NoRefund, attempt |-> 0, stalls |-> 0]

Init ==
    /\ status = [r \in Refunds |-> "pending_approval"]
    /\ details \in [Refunds -> BOOLEAN]
    /\ posted = [r \in Refunds |-> 0]
    /\ transfer = [r \in Refunds |-> "none"]
    /\ finalised = [r \in Refunds |-> {}]
    /\ handler = [h \in Handlers |-> IdleHandler]
    /\ slot = [j \in Slots |-> FreeSlot]
    /\ errors = 0
    /\ crashes = 0
    /\ disturbed = {}
    /\ unwritten = {}

-----------------------------------------------------------------------------
(* POST /refunds/:id/approve: read and check, write, enqueue.              *)

(* Mutant: a sent refund can be approved again.                            *)
ReadRefundAnyStatus(h, r) ==
    /\ handler[h].pc = "idle"
    /\ handler' = [handler EXCEPT ![h] = [pc |-> "checked", refund |-> r, read |-> status[r]]]
    /\ UNCHANGED <<rowVars, nombaVars, slot, boundVars, historyVars>>

ReadRefund(h, r) ==
    /\ handler[h].pc = "idle"
    /\ status[r] \in {"pending_approval", "failed"}
    /\ handler' = [handler EXCEPT ![h] = [pc |-> "checked", refund |-> r, read |-> status[r]]]
    /\ UNCHANGED <<rowVars, nombaVars, slot, boundVars, historyVars>>

WriteApproved(h) ==
    LET r == handler[h].refund IN
    /\ handler[h].pc = "checked"
    /\ status' = [status EXCEPT ![r] = "approved"]
    /\ handler' = [handler EXCEPT ![h].pc = "written"]
    /\ disturbed' = disturbed \cup IF status[r] # handler[h].read THEN {r} ELSE {}
    /\ UNCHANGED <<details, posted, nombaVars, slot, boundVars, unwritten>>

(* A job id per approval, so the job is always new.                        *)
EnqueuePayout(h) ==
    /\ handler[h].pc = "written"
    /\ \E j \in Slots :
          /\ slot[j].pc = "free"
          /\ slot' = [slot EXCEPT ![j] =
                [FreeSlot EXCEPT !.pc = "waiting", !.refund = handler[h].refund]]
    /\ handler' = [handler EXCEPT ![h] = IdleHandler]
    /\ UNCHANGED <<rowVars, nombaVars, boundVars, historyVars>>

(* The API dies, or Redis refuses the add, after the row was written.      *)
HandlerDies(h) ==
    /\ errors + crashes < MaxFaults
    /\ handler[h].pc \in {"checked", "written"}
    /\ handler' = [handler EXCEPT ![h] = IdleHandler]
    /\ crashes' = crashes + 1
    /\ UNCHANGED <<rowVars, nombaVars, slot, errors, historyVars>>

-----------------------------------------------------------------------------
(* processApprovedRefund.                                                  *)

Goto(j, label) == slot' = [slot EXCEPT ![j].pc = label]

EndExecution(j) == slot' = [slot EXCEPT ![j] = FreeSlot]

(* An execution between its read of the refund and its last write.         *)
InPayout(j) == slot[j].pc \in {"calling", "accepted", "rejected", "threw"}

Executing(j) == InPayout(j) \/ slot[j].pc = "done"

Overlapping(j) ==
    {slot[k].refund : k \in {k \in Slots \ {j} : InPayout(k)}} \cap {slot[j].refund}

(* A statement or a call returns, or throws out of the execution.          *)
Returns(j, label) == Goto(j, label) /\ UNCHANGED boundVars

Throws(j) ==
    /\ errors + crashes < MaxFaults
    /\ Goto(j, "threw")
    /\ errors' = errors + 1
    /\ UNCHANGED crashes

(* Reads the refund; only an approved one is payable, and only with the    *)
(* sender's bank details.  Either read may throw, whatever the status.     *)
StartPayout(j) ==
    LET r == slot[j].refund IN
    /\ slot[j].pc = "waiting"
    /\ \/ /\ status[r] = "approved"
          /\ Returns(j, IF details[r] THEN "calling" ELSE "rejected")
       \/ status[r] # "approved" /\ Returns(j, "done")
       \/ Throws(j)
    /\ disturbed' = disturbed \cup Overlapping(j)
    /\ UNCHANGED <<rowVars, nombaVars, handler, unwritten>>

(* transferToBank reaches Nomba.  merchantTxRef identifies the transfer, so *)
(* a repeated call reports the one that exists.                            *)
TransferAccepted(j) ==
    LET r == slot[j].refund IN
    /\ slot[j].pc = "calling"
    /\ transfer[r] \in {"none", "pending", "success"}
    /\ \/ transfer[r] = "none" /\ \E t \in {"pending", "success"} :
             transfer' = [transfer EXCEPT ![r] = t]
       \/ transfer[r] # "none" /\ UNCHANGED transfer
    /\ Goto(j, "accepted")
    /\ UNCHANGED <<rowVars, finalised, handler, boundVars, historyVars>>

(* A 4xx such as INSUFFICIENT_BALANCE, or a FAILED or REFUND result.       *)
TransferRejected(j) ==
    /\ slot[j].pc = "calling"
    /\ transfer[slot[j].refund] \in {"none", "failed", "returned"}
    /\ Goto(j, "rejected")
    /\ UNCHANGED <<rowVars, nombaVars, handler, boundVars, historyVars>>

(* Timeout, 429, 5xx: Nomba may have taken the transfer or not.            *)
TransferTimesOut(j) ==
    LET r == slot[j].refund IN
    /\ slot[j].pc = "calling"
    /\ \/ UNCHANGED transfer
       \/ transfer[r] = "none" /\ transfer' = [transfer EXCEPT ![r] = "pending"]
    /\ Throws(j)
    /\ UNCHANGED <<rowVars, finalised, handler, historyVars>>

(* sent and the reversing entry, in one transaction, whatever the status   *)
(* has become.  A COMMIT whose answer is lost throws all the same.         *)
CommitSent(j) ==
    LET r == slot[j].refund IN
    /\ slot[j].pc = "accepted"
    /\ status' = [status EXCEPT ![r] = "sent"]
    /\ posted' = [posted EXCEPT ![r] = @ + 1]
    /\ Returns(j, "done") \/ Throws(j)
    /\ UNCHANGED <<details, nombaVars, handler, historyVars>>

(* The transaction, or the update of markFailed, throws and wrote nothing. *)
CommitThrows(j) ==
    /\ slot[j].pc \in {"accepted", "rejected"}
    /\ Throws(j)
    /\ UNCHANGED <<rowVars, nombaVars, handler, historyVars>>

MarkFailed(j) ==
    /\ slot[j].pc = "rejected"
    /\ status' = [status EXCEPT ![slot[j].refund] = "failed"]
    /\ Returns(j, "done") \/ Throws(j)
    /\ UNCHANGED <<details, posted, nombaVars, handler, historyVars>>

(* Mutant: an off-by-one, the last attempt is not recognised as the last.  *)
RetryOrGiveUpTooLate(j) ==
    /\ slot[j].pc = "threw"
    /\ IF slot[j].attempt + 1 >= MaxAttempts
         THEN Goto(j, "done")   \* attemptsMade + 1 > attempts is never true
         ELSE slot' = [slot EXCEPT ![j].pc = "waiting", ![j].attempt = @ + 1]
    /\ UNCHANGED <<rowVars, nombaVars, handler, boundVars, historyVars>>

(* Mutant: the attempts are not counted against the limit.                 *)
RetryForever(j) ==
    /\ slot[j].pc = "threw"
    /\ slot' = [slot EXCEPT ![j].pc = "waiting", ![j].attempt = @ + 1]
    /\ UNCHANGED <<rowVars, nombaVars, handler, boundVars, historyVars>>

FinalAttempt(j) == slot[j].attempt + 1 >= MaxAttempts

(* BullMQ retries with backoff; when this was the final attempt, the       *)
(* consumer marks the refund failed, whatever its status: also one that an *)
(* attempt whose COMMIT went unheard has sent.  That this update took      *)
(* effect but threw makes no difference: the consumer rethrows anyway.     *)
RetryOrGiveUp(j) ==
    LET r == slot[j].refund IN
    /\ slot[j].pc = "threw"
    /\ IF FinalAttempt(j)
         THEN /\ status' = [status EXCEPT ![r] = "failed"]
              /\ disturbed' = disturbed \cup IF status[r] = "sent" THEN {r} ELSE {}
              /\ Goto(j, "done")
         ELSE /\ slot' = [slot EXCEPT ![j].pc = "waiting", ![j].attempt = @ + 1]
              /\ UNCHANGED <<status, disturbed>>
    /\ UNCHANGED <<details, posted, nombaVars, handler, boundVars, unwritten>>

(* The update of the final attempt throws and wrote nothing.  It ends the  *)
(* job, so it is bounded without a fault of its own.                       *)
GiveUpThrows(j) ==
    /\ slot[j].pc = "threw"
    /\ FinalAttempt(j)
    /\ Goto(j, "done")
    /\ unwritten' = unwritten \cup {slot[j].refund}
    /\ UNCHANGED <<rowVars, nombaVars, handler, boundVars, disturbed>>

(* The job leaves the queue, completed or failed.                          *)
JobEnds(j) ==
    /\ slot[j].pc = "done"
    /\ EndExecution(j)
    /\ UNCHANGED <<rowVars, nombaVars, handler, boundVars, historyVars>>

(* The worker dies.  BullMQ finds the job stalled and runs it again, or     *)
(* drops it to the failed set, past the catch, when that happened too often. *)
WorkerDies(j) ==
    /\ errors + crashes < MaxFaults
    /\ Executing(j)
    /\ IF slot[j].stalls < MaxStalledCount
         THEN slot' = [slot EXCEPT ![j].pc = "waiting", ![j].stalls = @ + 1]
         ELSE EndExecution(j)
    /\ crashes' = crashes + 1
    /\ UNCHANGED <<rowVars, nombaVars, handler, errors, historyVars>>

(* The worker is slow; the job is run again beside it.                     *)
WorkerStalls(j) ==
    /\ errors + crashes < MaxFaults
    /\ Executing(j)
    /\ slot[j].stalls < MaxStalledCount
    /\ \E k \in Slots :
          /\ slot[k].pc = "free"
          /\ slot' = [slot EXCEPT ![k] = [slot[j] EXCEPT !.pc = "waiting", !.stalls = @ + 1]]
    /\ crashes' = crashes + 1
    /\ UNCHANGED <<rowVars, nombaVars, handler, errors, historyVars>>

-----------------------------------------------------------------------------
(* Nomba settles the transfer and announces it; finalisePayout follows.    *)

SettleTransfer(r, outcome) ==
    /\ \/ transfer[r] = "pending" /\ outcome \in {"success", "failed"}
       \/ transfer[r] = "success" /\ outcome = "returned"
    /\ transfer' = [transfer EXCEPT ![r] = outcome]
    /\ UNCHANGED <<rowVars, finalised, handler, slot, boundVars, historyVars>>

Announced(r) ==
    CASE transfer[r] = "success" -> {"payout_success"}
      [] transfer[r] = "failed" -> {"payout_failed"}
      [] transfer[r] = "returned" -> {"payout_success", "payout_refund"}
      [] OTHER -> {}

(* An event is processed once (raw_events), also when it matches no row.   *)
FinalisePayout(r, e) ==
    LET next == IF e = "payout_success" THEN "sent" ELSE "failed" IN
    /\ e \in (Webhooks \cap Announced(r)) \ finalised[r]
    /\ finalised' = [finalised EXCEPT ![r] = @ \cup {e}]
    /\ IF status[r] \in {"approved", "sent"}
         THEN /\ status' = [status EXCEPT ![r] = next]
              /\ disturbed' = disturbed \cup IF status[r] # next THEN {r} ELSE {}
         ELSE UNCHANGED <<status, disturbed>>
    /\ UNCHANGED <<details, posted, transfer, handler, slot, boundVars, unwritten>>

-----------------------------------------------------------------------------
HandlerStep(h) == WriteApproved(h) \/ EnqueuePayout(h)

Execute(j) ==
    \/ StartPayout(j)
    \/ TransferAccepted(j)
    \/ TransferRejected(j)
    \/ TransferTimesOut(j)
    \/ CommitSent(j)
    \/ CommitThrows(j)
    \/ MarkFailed(j)
    \/ RetryOrGiveUp(j)
    \/ GiveUpThrows(j)
    \/ JobEnds(j)

Next ==
    \/ \E h \in Handlers :
          \/ \E r \in Refunds : ReadRefund(h, r)
          \/ HandlerStep(h)
          \/ HandlerDies(h)
    \/ \E j \in Slots :
          \/ Execute(j)
          \/ WorkerDies(j)
          \/ WorkerStalls(j)
    \/ \E r \in Refunds :
          \/ \E outcome \in {"success", "failed", "returned"} : SettleTransfer(r, outcome)
          \/ \E e \in {"payout_success", "payout_failed", "payout_refund"} :
                FinalisePayout(r, e)

Spec == Init /\ [][Next]_vars

(* Requests in flight go on and jobs are executed; nobody has to approve,  *)
(* and neither Nomba nor the network owes anything.                        *)
Fairness ==
    /\ \A h \in Handlers : WF_vars(HandlerStep(h))
    /\ \A j \in Slots : WF_vars(Execute(j))

FairSpec == Spec /\ Fairness

-----------------------------------------------------------------------------
Status == {"pending_approval", "approved", "sent", "failed"}

(* Types of the tables, the requests and the executions.                   *)
TypeOK ==
    /\ status \in [Refunds -> Status]
    /\ details \in [Refunds -> BOOLEAN]
    /\ posted \in [Refunds -> Nat]
    /\ transfer \in [Refunds -> {"none", "pending", "success", "failed", "returned"}]
    /\ finalised \in [Refunds -> SUBSET Webhooks]
    /\ handler \in [Handlers ->
          [pc : {"idle", "checked", "written"}, refund : Refunds \cup {NoRefund},
           read : Status \cup {"none"}]]
    /\ slot \in [Slots ->
          [pc : {"free", "waiting", "calling", "accepted", "rejected", "threw", "done"},
           refund : Refunds \cup {NoRefund}, attempt : 0..(MaxAttempts - 1),
           stalls : 0..MaxStalledCount]]
    /\ errors \in 0..MaxFaults
    /\ crashes \in 0..MaxFaults - errors
    /\ disturbed \in SUBSET Refunds
    /\ unwritten \in SUBSET Refunds

(* The credit liability "is drawn down by exactly what we paid out"        *)
(* (payout.ts): through timeouts, lost answers, retries, crashes and       *)
(* re-approvals a sent refund has one reversing entry and one transfer     *)
(* behind it, and a refund that is not sent has no entry, as long as no    *)
(* webhook changed the status, no approval wrote over a status it had not  *)
(* read, no two executions overlapped and no final attempt wrote failed    *)
(* over sent.                                                              *)
PostedIffSent ==
    \A r \in Refunds \ disturbed :
        /\ posted[r] = IF status[r] = "sent" THEN 1 ELSE 0
        /\ status[r] = "sent" => transfer[r] # "none"

(* The stage of RefundPromise that a status stands for.                    *)
StageOf == [pending_approval |-> "proposed", approved |-> "approved", sent |-> "paid",
            failed |-> "refused"]

Stage(r) == IF r \in disturbed THEN "contested" ELSE StageOf[status[r]]

Promise == INSTANCE RefundPromise WITH
    stage <- [r \in Refunds |-> Stage(r)],
    taken <- [r \in Refunds |-> r \notin disturbed /\ transfer[r] # "none"],
    drawn <- [r \in Refunds |-> IF r \in disturbed THEN 0 ELSE posted[r]]

(* A refund keeps RefundPromise until it is disturbed: approved before it   *)
(* is paid, the transfer taken before the credit is drawn down, and never  *)
(* reopened by a retry, a job that runs again or an approval that read it  *)
(* sent ("merchant_tx_ref idempotency" is for what failed, app.ts).  A     *)
(* COMMIT whose answer is lost keeps it too, unless the retries all throw: *)
(* then failed is written over sent, and the refund is contested.          *)
KeepsPromise == Promise!Spec

(* "never leave a refund silently stranded" (payout.ts): an approved       *)
(* refund becomes sent or failed, unless a process died or was slow on the *)
(* way, an approve request failed between its write and its add, or the    *)
(* update of the final attempt threw: the code strands these refunds.      *)
NotStranded ==
    \A r \in Refunds :
        status[r] = "approved" ~> status[r] # "approved" \/ crashes > 0 \/ r \in unwritten

(* "drawn down by exactly what we paid out" (payout.ts), unconditionally:  *)
(* a refund that reads sent, with no work left to do on it, has exactly    *)
(* one reversing entry.                                                    *)
DrawnDownExactly ==
    \A r \in Refunds :
        status[r] = "sent" /\ (\A j \in Slots : slot[j].refund # r) => posted[r] = 1

=============================================================================
