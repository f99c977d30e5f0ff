--------------------------- MODULE RefundPayout_proofs ---------------------------
(***************************************************************************)
(* Proofs about RefundPayout: for any number of refunds, requests,         *)
(* executions and faults, a refund that is not disturbed keeps             *)
(* RefundPromise, and is drawn down exactly when it is sent.               *)
(***************************************************************************)
EXTENDS RefundPayout, TLAPS

(* A request or an execution that is under way has its refund, and a       *)
(* request has read a status that may be approved.                         *)
AssignedInv ==
    /\ \A h \in Handlers :
          handler[h].pc # "idle" =>
              handler[h].refund \in Refunds /\ handler[h].read \in {"pending_approval", "failed"}
    /\ \A j \in Slots : slot[j].pc # "free" => slot[j].refund \in Refunds

(* An execution that is at work on an undisturbed refund is the only one,  *)
(* and what it takes for accepted was taken.  Until it writes or throws it *)
(* finds the refund approved; what it threw may have written after all.    *)
WorkInv ==
    \A j \in Slots : InPayout(j) /\ slot[j].refund \notin disturbed =>
        /\ slot[j].pc # "threw" => status[slot[j].refund] = "approved"
        /\ slot[j].pc = "accepted" => transfer[slot[j].refund] # "none"
        /\ \A k \in Slots \ {j} : InPayout(k) => slot[k].refund # slot[j].refund

(* What is written or enqueued was approved once, and is not proposed again. *)
StartedInv ==
    /\ \A h \in Handlers :
          handler[h].pc = "written" => status[handler[h].refund] # "pending_approval"
    /\ \A j \in Slots : slot[j].pc # "free" => status[slot[j].refund] # "pending_approval"

Typed == TypeOK /\ AssignedInv

-----------------------------------------------------------------------------
Execution ==
    [pc : {"free", "waiting", "calling", "accepted", "rejected", "threw", "done"},
     refund : Refunds \cup {NoRefund}, attempt : 0..(MaxAttempts - 1),
     stalls : 0..MaxStalledCount]

(* A slot may get any execution that has its refund or is free.            *)
LEMMA SlotUpdate ==
    ASSUME Typed, NEW j \in Slots, NEW e \in Execution, e.pc # "free" => e.refund \in Refunds,
           slot' = [slot EXCEPT ![j] = e]
    PROVE  /\ slot' \in [Slots -> Execution]
           /\ \A k \in Slots : slot'[k].pc # "free" => slot'[k].refund \in Refunds
  <1>1. slot \in [Slots -> Execution]
    BY DEF Typed, TypeOK, Execution
  <1>2. \A k \in Slots : slot'[k] = IF k = j THEN e ELSE slot[k]
    BY <1>1
  <1>3. \A k \in Slots : slot[k].pc # "free" => slot[k].refund \in Refunds
    BY DEF Typed, AssignedInv
  <1>4. slot' \in [Slots -> Execution]
    BY <1>1
  <1>5. \A k \in Slots : slot'[k].pc # "free" => slot'[k].refund \in Refunds
    BY <1>2, <1>3
  <1>6. QED
    BY <1>4, <1>5

LEMMA FreeSlotType == FreeSlot \in Execution
  BY AttemptsAssumption DEF FreeSlot, Execution

LEMMA QueuedType ==
    ASSUME NEW r \in Refunds
    PROVE  /\ [FreeSlot EXCEPT !.pc = "waiting", !.refund = r] \in Execution
           /\ [FreeSlot EXCEPT !.pc = "waiting", !.refund = r].refund = r
  BY FreeSlotType DEF Execution

LEMMA RetriedType ==
    ASSUME NEW e \in Execution, ~(e.attempt + 1 >= MaxAttempts)
    PROVE  /\ [e EXCEPT !.pc = "waiting", !.attempt = @ + 1] \in Execution
           /\ [e EXCEPT !.pc = "waiting", !.attempt = @ + 1].refund = e.refund
  <1>1. e.attempt + 1 \in 0..(MaxAttempts - 1)
    BY AttemptsAssumption DEF Execution
  <1>2. QED
    BY <1>1 DEF Execution

LEMMA RerunType ==
    ASSUME NEW e \in Execution, e.stalls < MaxStalledCount
    PROVE  /\ [e EXCEPT !.pc = "waiting", !.stalls = @ + 1] \in Execution
           /\ [e EXCEPT !.pc = "waiting", !.stalls = @ + 1].refund = e.refund
  <1>1. e.stalls + 1 \in 0..MaxStalledCount
    BY AttemptsAssumption DEF Execution
  <1>2. QED
    BY <1>1 DEF Execution

(* An execution that goes on keeps its refund.                             *)
LEMMA GoOnType ==
    ASSUME Typed, NEW j \in Slots, slot[j].pc # "free",
           NEW label \in {"calling", "accepted", "rejected", "threw", "done"}, Goto(j, label)
    PROVE  /\ slot' \in [Slots -> Execution]
           /\ \A k \in Slots : slot'[k].pc # "free" => slot'[k].refund \in Refunds
           /\ slot[j].refund \in Refunds
  <1> DEFINE e == [slot[j] EXCEPT !.pc = label]
  <1>1. slot[j] \in Execution /\ slot[j].refund \in Refunds
    BY DEF Typed, TypeOK, AssignedInv, Execution
  <1>2. e \in Execution /\ e.refund \in Refunds
    BY <1>1 DEF Execution
  <1>3. slot' = [slot EXCEPT ![j] = e]
    BY DEF Goto
  <1> HIDE DEF e
  <1>4. QED
    BY <1>1, <1>2, <1>3, SlotUpdate

(* Every step keeps the types and the refunds of what is under way.        *)
LEMMA TypeStep ==
    ASSUME Typed, [Next]_vars
    PROVE  Typed'
  <1> USE AttemptsAssumption, PayoutBounds
      DEF Typed, TypeOK, AssignedInv, Status, rowVars, nombaVars, boundVars, historyVars
  <1>1. ASSUME NEW h \in Handlers, NEW r \in Refunds, ReadRefund(h, r)
        PROVE  Typed'
    BY <1>1 DEF ReadRefund
  <1>2. ASSUME NEW h \in Handlers, WriteApproved(h)
        PROVE  Typed'
    BY <1>2 DEF WriteApproved
  <1>3. ASSUME NEW h \in Handlers, EnqueuePayout(h)
        PROVE  Typed'
    <2>1. PICK k \in Slots :
            slot' = [slot EXCEPT ![k] =
                [FreeSlot EXCEPT !.pc = "waiting", !.refund = handler[h].refund]]
      BY <1>3 DEF EnqueuePayout
    <2> DEFINE e == [FreeSlot EXCEPT !.pc = "waiting", !.refund = handler[h].refund]
    <2>2. handler[h].refund \in Refunds
      BY <1>3 DEF EnqueuePayout
    <2>3. e \in Execution /\ e.refund \in Refunds
      BY <2>2, QueuedType
    <2>4. /\ slot' \in [Slots -> Execution]
          /\ \A i \in Slots : slot'[i].pc # "free" => slot'[i].refund \in Refunds
      <3> HIDE DEF e
      <3>1. slot' = [slot EXCEPT ![k] = e]
        BY <2>1 DEF e
      <3>2. QED
        BY <2>3, <3>1, SlotUpdate
    <2>5. QED
      BY <1>3, <2>4 DEF EnqueuePayout, IdleHandler, Execution
  <1>4. ASSUME NEW h \in Handlers, HandlerDies(h)
        PROVE  Typed'
    BY <1>4 DEF HandlerDies, IdleHandler
  <1>5. ASSUME NEW j \in Slots, StartPayout(j)
        PROVE  Typed'
    <2>1. /\ slot' \in [Slots -> Execution]
          /\ \A k \in Slots : slot'[k].pc # "free" => slot'[k].refund \in Refunds
          /\ slot[j].refund \in Refunds
      BY <1>5, GoOnType DEF StartPayout, Returns, Throws
    <2>2. QED
      BY <1>5, <2>1 DEF StartPayout, Returns, Throws, Execution, Overlapping
  <1>6. ASSUME NEW j \in Slots, TransferAccepted(j)
        PROVE  Typed'
    <2>1. /\ slot' \in [Slots -> Execution]
          /\ \A k \in Slots : slot'[k].pc # "free" => slot'[k].refund \in Refunds
          /\ slot[j].refund \in Refunds
      BY <1>6, GoOnType DEF TransferAccepted
    <2>2. QED
      BY <1>6, <2>1 DEF TransferAccepted, Execution
  <1>7. ASSUME NEW j \in Slots, TransferRejected(j)
        PROVE  Typed'
    <2>1. /\ slot' \in [Slots -> Execution]
          /\ \A k \in Slots : slot'[k].pc # "free" => slot'[k].refund \in Refunds
          /\ slot[j].refund \in Refunds
      BY <1>7, GoOnType DEF TransferRejected
    <2>2. QED
      BY <1>7, <2>1 DEF TransferRejected, Execution
  <1>8. ASSUME NEW j \in Slots, TransferTimesOut(j)
        PROVE  Typed'
    <2>1. /\ slot' \in [Slots -> Execution]
          /\ \A k \in Slots : slot'[k].pc # "free" => slot'[k].refund \in Refunds
          /\ slot[j].refund \in Refunds
      BY <1>8, GoOnType DEF TransferTimesOut, Returns, Throws
    <2>2. QED
      BY <1>8, <2>1 DEF TransferTimesOut, Returns, Throws, Execution
  <1>9. ASSUME NEW j \in Slots, CommitSent(j)
        PROVE  Typed'
    <2>1. /\ slot' \in [Slots -> Execution]
          /\ \A k \in Slots : slot'[k].pc # "free" => slot'[k].refund \in Refunds
          /\ slot[j].refund \in Refunds
      BY <1>9, GoOnType DEF CommitSent, Returns, Throws
    <2>2. QED
      BY <1>9, <2>1 DEF CommitSent, Returns, Throws, Execution
  <1>10. ASSUME NEW j \in Slots, CommitThrows(j)
         PROVE  Typed'
    <2>1. /\ slot' \in [Slots -> Execution]
          /\ \A k \in Slots : slot'[k].pc # "free" => slot'[k].refund \in Refunds
          /\ slot[j].refund \in Refunds
      BY <1>10, GoOnType DEF CommitThrows, Returns, Throws
    <2>2. QED
      BY <1>10, <2>1 DEF CommitThrows, Returns, Throws, Execution
  <1>11. ASSUME NEW j \in Slots, MarkFailed(j)
         PROVE  Typed'
    <2>1. /\ slot' \in [Slots -> Execution]
          /\ \A k \in Slots : slot'[k].pc # "free" => slot'[k].refund \in Refunds
          /\ slot[j].refund \in Refunds
      BY <1>11, GoOnType DEF MarkFailed, Returns, Throws
    <2>2. QED
      BY <1>11, <2>1 DEF MarkFailed, Returns, Throws, Execution
  <1>12. ASSUME NEW j \in Slots, RetryOrGiveUp(j)
         PROVE  Typed'
    <2> DEFINE waiting == [slot[j] EXCEPT !.pc = "waiting", !.attempt = @ + 1]
               done == [slot[j] EXCEPT !.pc = "done"]
    <2>1. slot[j] \in Execution /\ slot[j].refund \in Refunds
      BY <1>12 DEF RetryOrGiveUp, Execution
    <2>2. done \in Execution /\ done.refund \in Refunds
      BY <2>1 DEF Execution
    <2>3. CASE slot[j].attempt + 1 >= MaxAttempts
      <3>1. slot' = [slot EXCEPT ![j] = done]
        BY <1>12, <2>3 DEF RetryOrGiveUp, FinalAttempt, Goto
      <3>2. /\ slot' \in [Slots -> Execution]
            /\ \A i \in Slots : slot'[i].pc # "free" => slot'[i].refund \in Refunds
        <4> HIDE DEF done
        <4>1. QED
          BY <2>2, <3>1, SlotUpdate
      <3>3. QED
        BY <1>12, <2>1, <2>3, <3>2 DEF RetryOrGiveUp, Execution
    <2>4. CASE ~(slot[j].attempt + 1 >= MaxAttempts)
      <3>1. waiting \in Execution /\ waiting.refund \in Refunds
        BY <2>1, <2>4, RetriedType
      <3>2. slot' = [slot EXCEPT ![j] = waiting]
        BY <1>12, <2>4 DEF RetryOrGiveUp, FinalAttempt
      <3>3. /\ slot' \in [Slots -> Execution]
            /\ \A i \in Slots : slot'[i].pc # "free" => slot'[i].refund \in Refunds
        <4> HIDE DEF waiting
        <4>1. QED
          BY <3>1, <3>2, SlotUpdate
      <3>4. QED
        BY <1>12, <2>4, <3>3 DEF RetryOrGiveUp, Execution
    <2>5. QED
      BY <2>3, <2>4
  <1>13. ASSUME NEW j \in Slots, JobEnds(j)
         PROVE  Typed'
    BY <1>13 DEF JobEnds, EndExecution, FreeSlot
  <1>14. ASSUME NEW j \in Slots, WorkerDies(j)
         PROVE  Typed'
    <2> DEFINE again == [slot[j] EXCEPT !.pc = "waiting", !.stalls = @ + 1]
    <2>1. slot[j] \in Execution /\ slot[j].refund \in Refunds
      BY <1>14 DEF WorkerDies, Executing, InPayout, Execution
    <2>2. \/ slot' = [slot EXCEPT ![j] = again] /\ slot[j].stalls < MaxStalledCount
          \/ slot' = [slot EXCEPT ![j] = FreeSlot]
      BY <1>14 DEF WorkerDies, EndExecution
    <2>3. /\ slot' \in [Slots -> Execution]
          /\ \A i \in Slots : slot'[i].pc # "free" => slot'[i].refund \in Refunds
      <3>1. CASE slot' = [slot EXCEPT ![j] = again] /\ slot[j].stalls < MaxStalledCount
        <4>1. again \in Execution /\ again.refund \in Refunds
          BY <2>1, <3>1, RerunType
        <4> HIDE DEF again
        <4>2. QED
          BY <3>1, <4>1, SlotUpdate
      <3>2. CASE slot' = [slot EXCEPT ![j] = FreeSlot]
        <4>1. FreeSlot.pc = "free"
          BY DEF FreeSlot
        <4>2. QED
          BY <3>2, <4>1, FreeSlotType, SlotUpdate
      <3>3. QED
        BY <2>2, <3>1, <3>2
    <2>4. QED
      BY <1>14, <2>3 DEF WorkerDies, Execution
  <1>15. ASSUME NEW j \in Slots, WorkerStalls(j)
         PROVE  Typed'
    <2> DEFINE again == [slot[j] EXCEPT !.pc = "waiting", !.stalls = @ + 1]
    <2>1. slot[j] \in Execution /\ slot[j].refund \in Refunds /\ slot[j].stalls < MaxStalledCount
      BY <1>15 DEF WorkerStalls, Executing, InPayout, Execution
    <2>2. PICK k \in Slots : slot' = [slot EXCEPT ![k] = again]
      BY <1>15 DEF WorkerStalls
    <2>3. again \in Execution /\ again.refund \in Refunds
      BY <2>1, RerunType
    <2>4. /\ slot' \in [Slots -> Execution]
          /\ \A i \in Slots : slot'[i].pc # "free" => slot'[i].refund \in Refunds
      <3> HIDE DEF again
      <3>1. QED
        BY <2>2, <2>3, SlotUpdate
    <2>5. QED
      BY <1>15, <2>4 DEF WorkerStalls, Execution
  <1>16. ASSUME NEW r \in Refunds, NEW outcome \in {"success", "failed", "returned"},
                SettleTransfer(r, outcome)
         PROVE  Typed'
    BY <1>16 DEF SettleTransfer
  <1>17. ASSUME NEW r \in Refunds,
                NEW e \in {"payout_success", "payout_failed", "payout_refund"},
                FinalisePayout(r, e)
         PROVE  Typed'
    BY <1>17 DEF FinalisePayout
  <1>18. CASE UNCHANGED vars
    BY <1>18 DEF vars
  <1>19. ASSUME NEW j \in Slots, GiveUpThrows(j)
         PROVE  Typed'
    <2>1. /\ slot' \in [Slots -> Execution]
          /\ \A k \in Slots : slot'[k].pc # "free" => slot'[k].refund \in Refunds
          /\ slot[j].refund \in Refunds
      BY <1>19, GoOnType DEF GiveUpThrows
    <2>2. QED
      BY <1>19, <2>1 DEF GiveUpThrows, Execution
  <1>20. QED
    BY <1>1, <1>2, <1>3, <1>4, <1>5, <1>6, <1>7, <1>8, <1>9, <1>10, <1>11, <1>12, <1>13, <1>14,
       <1>15, <1>16, <1>17, <1>18, <1>19 DEF Next, HandlerStep, Execute

-----------------------------------------------------------------------------
(* No step takes a status back to pending_approval, and a job or a request *)
(* past its write has an approval behind it.                               *)
LEMMA StartedStep ==
    ASSUME Typed, StartedInv, [Next]_vars
    PROVE  StartedInv'
  <1> USE DEF StartedInv, rowVars, nombaVars, boundVars, historyVars
  <1>t. /\ status \in [Refunds -> Status]
        /\ slot \in [Slots -> Execution]
        /\ \A j \in Slots : slot[j].pc # "free" => slot[j].refund \in Refunds
        /\ handler \in [Handlers ->
              [pc : {"idle", "checked", "written"}, refund : Refunds \cup {NoRefund},
               read : Status \cup {"none"}]]
        /\ \A h \in Handlers : handler[h].pc # "idle" => handler[h].refund \in Refunds
    BY DEF Typed, TypeOK, AssignedInv, Execution
  <1>1. ASSUME NEW h \in Handlers, NEW r \in Refunds, ReadRefund(h, r)
        PROVE  StartedInv'
    BY <1>t, <1>1 DEF ReadRefund
  <1>2. ASSUME NEW h \in Handlers, WriteApproved(h)
        PROVE  StartedInv'
    BY <1>t, <1>2 DEF WriteApproved
  <1>3. ASSUME NEW h \in Handlers, EnqueuePayout(h)
        PROVE  StartedInv'
    BY <1>t, <1>3 DEF EnqueuePayout, FreeSlot, IdleHandler, Execution
  <1>4. ASSUME NEW h \in Handlers, HandlerDies(h)
        PROVE  StartedInv'
    BY <1>t, <1>4 DEF HandlerDies, IdleHandler
  <1>5. ASSUME NEW j \in Slots, Execute(j)
        PROVE  StartedInv'
    <2>1. /\ UNCHANGED handler
          /\ \A r \in Refunds : status'[r] = "pending_approval" => status[r] = "pending_approval"
      BY <1>t, <1>5
      DEF Execute, StartPayout, TransferAccepted, TransferRejected, TransferTimesOut,
          CommitSent, CommitThrows, MarkFailed, RetryOrGiveUp, GiveUpThrows, JobEnds
    <2>2. \A k \in Slots : slot'[k].pc # "free" =>
              slot[k].pc # "free" /\ slot'[k].refund = slot[k].refund
      BY <1>t, <1>5
      DEF Execute, StartPayout, TransferAccepted, TransferRejected, TransferTimesOut,
          CommitSent, CommitThrows, MarkFailed, RetryOrGiveUp, GiveUpThrows, JobEnds, Goto,
          Returns, Throws, EndExecution, FreeSlot, Execution
    <2>3. QED
      BY <1>t, <2>1, <2>2
  <1>6. ASSUME NEW j \in Slots, WorkerDies(j)
        PROVE  StartedInv'
    BY <1>t, <1>6 DEF WorkerDies, Executing, InPayout, EndExecution, FreeSlot, Execution
  <1>7. ASSUME NEW j \in Slots, WorkerStalls(j)
        PROVE  StartedInv'
    BY <1>t, <1>7 DEF WorkerStalls, Executing, InPayout, Execution
  <1>8. ASSUME NEW r \in Refunds, NEW outcome \in {"success", "failed", "returned"},
               SettleTransfer(r, outcome)
        PROVE  StartedInv'
    BY <1>8 DEF SettleTransfer
  <1>9. ASSUME NEW r \in Refunds,
               NEW e \in {"payout_success", "payout_failed", "payout_refund"},
               FinalisePayout(r, e)
        PROVE  StartedInv'
    BY <1>t, <1>9 DEF FinalisePayout
  <1>10. CASE UNCHANGED vars
    BY <1>10 DEF vars
  <1>11. QED
    BY <1>1, <1>2, <1>3, <1>4, <1>5, <1>6, <1>7, <1>8, <1>9, <1>10 DEF Next, HandlerStep

(* Every step keeps what is known of the executions at work and of the     *)
(* entries behind a status.                                                *)
Kept == WorkInv /\ StartedInv /\ PostedIffSent

LEMMA KeptStep ==
    ASSUME Typed, Kept, [Next]_vars
    PROVE  Kept'
  <1> DEFINE Both == WorkInv /\ PostedIffSent
  <1> USE DEF WorkInv, PostedIffSent, InPayout, rowVars, nombaVars, boundVars, historyVars
  <1>k. Both
    BY DEF Kept
  <1>t. /\ status \in [Refunds -> Status]
        /\ posted \in [Refunds -> Nat]
        /\ transfer \in [Refunds -> {"none", "pending", "success", "failed", "returned"}]
        /\ finalised \in [Refunds -> SUBSET Webhooks]
        /\ slot \in [Slots -> Execution]
        /\ \A j \in Slots : slot[j].pc # "free" => slot[j].refund \in Refunds
        /\ \A h \in Handlers :
              handler[h].pc # "idle" =>
                  /\ handler[h].refund \in Refunds
                  /\ handler[h].read \in {"pending_approval", "failed"}
    BY DEF Typed, TypeOK, AssignedInv, Execution
  <1>1. ASSUME NEW h \in Handlers, NEW r \in Refunds, ReadRefund(h, r)
        PROVE  Both'
    BY <1>k, <1>1 DEF ReadRefund
  <1>2. ASSUME NEW h \in Handlers, WriteApproved(h)
        PROVE  Both'
    BY <1>k, <1>t, <1>2 DEF WriteApproved
  <1>3. ASSUME NEW h \in Handlers, EnqueuePayout(h)
        PROVE  Both'
    BY <1>k, <1>t, <1>3 DEF EnqueuePayout, FreeSlot, Execution
  <1>4. ASSUME NEW h \in Handlers, HandlerDies(h)
        PROVE  Both'
    BY <1>k, <1>4 DEF HandlerDies
  <1>5. ASSUME NEW j \in Slots, StartPayout(j)
        PROVE  Both'
    BY <1>k, <1>t, <1>5 DEF StartPayout, Goto, Returns, Throws, Overlapping, Execution
  <1>6. ASSUME NEW j \in Slots, TransferAccepted(j)
        PROVE  Both'
    BY <1>k, <1>t, <1>6 DEF TransferAccepted, Goto, Execution
  <1>7. ASSUME NEW j \in Slots, TransferRejected(j)
        PROVE  Both'
    BY <1>k, <1>t, <1>7 DEF TransferRejected, Goto, Execution
  <1>8. ASSUME NEW j \in Slots, TransferTimesOut(j)
        PROVE  Both'
    BY <1>k, <1>t, <1>8 DEF TransferTimesOut, Goto, Returns, Throws, Execution
  <1>9. ASSUME NEW j \in Slots, CommitSent(j)
        PROVE  Both'
    BY <1>k, <1>t, <1>9 DEF CommitSent, Goto, Returns, Throws, Execution
  <1>10. ASSUME NEW j \in Slots, CommitThrows(j)
         PROVE  Both'
    BY <1>k, <1>t, <1>10 DEF CommitThrows, Goto, Returns, Throws, Execution
  <1>11. ASSUME NEW j \in Slots, MarkFailed(j)
         PROVE  Both'
    BY <1>k, <1>t, <1>11 DEF MarkFailed, Goto, Returns, Throws, Execution
  <1>12. ASSUME NEW j \in Slots, RetryOrGiveUp(j)
         PROVE  Both'
    BY <1>k, <1>t, <1>12 DEF RetryOrGiveUp, Goto, Execution
  <1>13. ASSUME NEW j \in Slots, JobEnds(j)
         PROVE  Both'
    BY <1>k, <1>t, <1>13 DEF JobEnds, EndExecution, FreeSlot, Execution
  <1>14. ASSUME NEW j \in Slots, WorkerDies(j)
         PROVE  Both'
    BY <1>k, <1>t, <1>14 DEF WorkerDies, EndExecution, FreeSlot, Execution
  <1>15. ASSUME NEW j \in Slots, WorkerStalls(j)
         PROVE  Both'
    BY <1>k, <1>t, <1>15 DEF WorkerStalls, Execution
  <1>16. ASSUME NEW r \in Refunds, NEW outcome \in {"success", "failed", "returned"},
                SettleTransfer(r, outcome)
         PROVE  Both'
    BY <1>k, <1>t, <1>16 DEF SettleTransfer
  <1>17. ASSUME NEW r \in Refunds,
                NEW e \in {"payout_success", "payout_failed", "payout_refund"},
                FinalisePayout(r, e)
         PROVE  Both'
    BY <1>k, <1>t, <1>17 DEF FinalisePayout
  <1>18. ASSUME UNCHANGED vars
         PROVE  Both'
    <2>1. UNCHANGED <<status, posted, transfer, slot, disturbed>>
      BY <1>18 DEF vars
    <2>2. QED
      BY <1>k, <2>1
  <1>19. ASSUME NEW j \in Slots, GiveUpThrows(j)
         PROVE  Both'
    <2>1. /\ UNCHANGED <<status, posted, transfer, disturbed>>
          /\ slot' = [slot EXCEPT ![j].pc = "done"]
      BY <1>19 DEF GiveUpThrows, Goto
    <2>2. \A k \in Slots : InPayout(k)' => slot'[k] = slot[k]
      BY <1>t, <2>1 DEF Execution
    <2>3. QED
      BY <1>k, <2>1, <2>2
  <1>20. Both'
    BY <1>1, <1>2, <1>3, <1>4, <1>5, <1>6, <1>7, <1>8, <1>9, <1>10, <1>11, <1>12, <1>13, <1>14,
       <1>15, <1>16, <1>17, <1>18, <1>19 DEF Next, HandlerStep, Execute
  <1>21. StartedInv'
    BY StartedStep DEF Kept
  <1>22. QED
    BY <1>20, <1>21 DEF Kept

-----------------------------------------------------------------------------
LEMMA InitInv == Init => Typed /\ Kept
  BY AttemptsAssumption, PayoutBounds
  DEF Init, Typed, TypeOK, AssignedInv, Kept, WorkInv, StartedInv, PostedIffSent, InPayout, Status,
      IdleHandler, FreeSlot

(* The tables, the requests and the executions stay well typed (payout.ts, *)
(* app.ts), however many there are.                                        *)
THEOREM TypeCorrect == Spec => []TypeOK
  <1>1. Init => Typed
    BY InitInv
  <1>2. Typed /\ [Next]_vars => Typed'
    BY TypeStep
  <1>3. Typed => TypeOK
    BY DEF Typed
  <1>4. QED
    BY <1>1, <1>2, <1>3, PTL DEF Spec

(* The inductive invariant of the payout.                                  *)
THEOREM Invariance == Spec => [](Typed /\ Kept)
  <1>1. Init => Typed /\ Kept
    BY InitInv
  <1>2. Typed /\ Kept /\ [Next]_vars => (Typed /\ Kept)'
    BY TypeStep, KeptStep
  <1>3. QED
    BY <1>1, <1>2, PTL DEF Spec

(* The credit liability is drawn down once for a refund that reads sent    *)
(* and not otherwise, also when the answer to the COMMIT is lost, unless a *)
(* stale write, an overlap or a final attempt over sent disturbed it.      *)
THEOREM DrawnDownOnce == Spec => []PostedIffSent
  <1>1. Typed /\ Kept => PostedIffSent
    BY DEF Kept
  <1>2. QED
    BY <1>1, Invariance, PTL

-----------------------------------------------------------------------------
(* A request that has still to enqueue the refund's job, or such a job.    *)
InSomeHand(r) ==
    \/ \E h \in Handlers : handler[h].pc = "written" /\ handler[h].refund = r
    \/ \E j \in Slots : (slot[j].pc = "waiting" \/ InPayout(j)) /\ slot[j].refund = r

(* What of NotStranded is a safety property: as long as no process has     *)
(* died or stalled and no approve request failed after its write, an       *)
(* approved refund is in somebody's hands, those of an approve request     *)
(* that has still to enqueue it or of a payout job, unless the update of a *)
(* final attempt threw.  So a throwing read, a lost answer, a retry, a     *)
(* rejection, a webhook or another approval never leaves an approved       *)
(* refund behind that nobody works on ("never leave a refund silently      *)
(* stranded", payout.ts).                                                  *)
ApprovedInHand ==
    crashes = 0 => \A r \in Refunds \ unwritten : status[r] = "approved" => InSomeHand(r)

(* A step hands an approved refund on, or ends its approval, or a process  *)
(* dies.                                                                   *)
LEMMA HandStep ==
    ASSUME Typed, ApprovedInHand, [Next]_vars
    PROVE  ApprovedInHand'
  <1> SUFFICES ASSUME crashes' = 0, NEW r \in Refunds, r \notin unwritten',
                      status'[r] = "approved"
               PROVE  InSomeHand(r)'
    BY DEF ApprovedInHand
  <1> USE DEF rowVars, nombaVars, boundVars, historyVars
  <1>t. /\ status \in [Refunds -> Status]
        /\ handler \in [Handlers ->
              [pc : {"idle", "checked", "written"}, refund : Refunds \cup {NoRefund},
               read : Status \cup {"none"}]]
        /\ slot \in [Slots -> Execution]
        /\ \A j \in Slots : slot[j].pc # "free" => slot[j].refund \in Refunds
        /\ \A h \in Handlers : handler[h].pc # "idle" => handler[h].refund \in Refunds
        /\ errors \in Nat /\ crashes \in Nat
    BY PayoutBounds DEF Typed, TypeOK, AssignedInv, Execution
  <1>h. ASSUME crashes = 0, r \notin unwritten, status[r] = "approved"
        PROVE  InSomeHand(r)
    BY <1>h DEF ApprovedInHand
  <1>1. ASSUME NEW h \in Handlers, NEW q \in Refunds, ReadRefund(h, q)
        PROVE  InSomeHand(r)'
    BY <1>1, <1>h, <1>t DEF ReadRefund, InSomeHand, InPayout
  <1>2. ASSUME NEW h \in Handlers, WriteApproved(h)
        PROVE  InSomeHand(r)'
    <2>1. CASE handler[h].refund = r
      BY <1>2, <1>t, <2>1 DEF WriteApproved, InSomeHand
    <2>2. CASE handler[h].refund # r
      BY <1>2, <1>h, <1>t, <2>2 DEF WriteApproved, InSomeHand, InPayout
    <2>3. QED
      BY <2>1, <2>2
  <1>3. ASSUME NEW h \in Handlers, EnqueuePayout(h)
        PROVE  InSomeHand(r)'
    <2>1. PICK k \in Slots :
            /\ slot[k].pc = "free"
            /\ slot' = [slot EXCEPT ![k] =
                  [FreeSlot EXCEPT !.pc = "waiting", !.refund = handler[h].refund]]
      BY <1>3 DEF EnqueuePayout
    <2>2. slot'[k].pc = "waiting" /\ slot'[k].refund = handler[h].refund
      BY <1>t, <2>1 DEF FreeSlot
    <2>3. /\ \A i \in Slots \ {k} : slot'[i] = slot[i]
          /\ \A i \in Handlers \ {h} : handler'[i] = handler[i]
      BY <1>3, <1>t, <2>1 DEF EnqueuePayout
    <2>4. InSomeHand(r)
      BY <1>3, <1>h DEF EnqueuePayout
    <2>5. QED
      BY <2>1, <2>2, <2>3, <2>4 DEF InSomeHand, InPayout
  <1>4. ASSUME NEW h \in Handlers, HandlerDies(h)
        PROVE  InSomeHand(r)'
    BY <1>4, <1>t DEF HandlerDies
  <1>5. ASSUME NEW j \in Slots, StartPayout(j)
        PROVE  InSomeHand(r)'
    BY <1>5, <1>h, <1>t DEF StartPayout, Goto, Returns, Throws, Execution, InSomeHand, InPayout
  <1>6. ASSUME NEW j \in Slots, TransferAccepted(j)
        PROVE  InSomeHand(r)'
    BY <1>6, <1>h, <1>t DEF TransferAccepted, Goto, Execution, InSomeHand, InPayout
  <1>7. ASSUME NEW j \in Slots, TransferRejected(j)
        PROVE  InSomeHand(r)'
    BY <1>7, <1>h, <1>t DEF TransferRejected, Goto, Execution, InSomeHand, InPayout
  <1>8. ASSUME NEW j \in Slots, TransferTimesOut(j)
        PROVE  InSomeHand(r)'
    BY <1>8, <1>h, <1>t DEF TransferTimesOut, Goto, Returns, Throws, Execution, InSomeHand, InPayout
  <1>9. ASSUME NEW j \in Slots, CommitSent(j)
        PROVE  InSomeHand(r)'
    BY <1>9, <1>h, <1>t DEF CommitSent, Goto, Returns, Throws, Execution, InSomeHand, InPayout
  <1>10. ASSUME NEW j \in Slots, CommitThrows(j)
         PROVE  InSomeHand(r)'
    BY <1>10, <1>h, <1>t DEF CommitThrows, Goto, Returns, Throws, Execution, InSomeHand, InPayout
  <1>11. ASSUME NEW j \in Slots, MarkFailed(j)
         PROVE  InSomeHand(r)'
    BY <1>11, <1>h, <1>t DEF MarkFailed, Goto, Returns, Throws, Execution, InSomeHand, InPayout
  <1>12. ASSUME NEW j \in Slots, RetryOrGiveUp(j)
         PROVE  InSomeHand(r)'
    BY <1>12, <1>h, <1>t DEF RetryOrGiveUp, Goto, Execution, InSomeHand, InPayout
  <1>13. ASSUME NEW j \in Slots, JobEnds(j)
         PROVE  InSomeHand(r)'
    BY <1>13, <1>h, <1>t DEF JobEnds, EndExecution, InSomeHand, InPayout
  <1>14. ASSUME NEW j \in Slots, WorkerDies(j)
         PROVE  InSomeHand(r)'
    BY <1>14, <1>t DEF WorkerDies
  <1>15. ASSUME NEW j \in Slots, WorkerStalls(j)
         PROVE  InSomeHand(r)'
    BY <1>15, <1>t DEF WorkerStalls
  <1>16. ASSUME NEW q \in Refunds, NEW outcome \in {"success", "failed", "returned"},
                SettleTransfer(q, outcome)
         PROVE  InSomeHand(r)'
    BY <1>16, <1>h DEF SettleTransfer, InSomeHand, InPayout
  <1>17. ASSUME NEW q \in Refunds,
                NEW e \in {"payout_success", "payout_failed", "payout_refund"},
                FinalisePayout(q, e)
         PROVE  InSomeHand(r)'
    BY <1>17, <1>h, <1>t DEF FinalisePayout, InSomeHand, InPayout
  <1>18. CASE UNCHANGED vars
    BY <1>18, <1>h DEF vars, InSomeHand, InPayout
  <1>19. ASSUME NEW j \in Slots, GiveUpThrows(j)
         PROVE  InSomeHand(r)'
    BY <1>19, <1>h, <1>t DEF GiveUpThrows, Goto, Execution, InSomeHand, InPayout
  <1>20. QED
    BY <1>1, <1>2, <1>3, <1>4, <1>5, <1>6, <1>7, <1>8, <1>9, <1>10, <1>11, <1>12, <1>13, <1>14,
       <1>15, <1>16, <1>17, <1>18, <1>19 DEF Next, HandlerStep, Execute

(* Only this strands an approved refund: an approve request that    *)
(* fails between its write and its add, a worker that dies or is slow once *)
(* too often (payout.ts), and the update of a final attempt that throws    *)
(* (worker.ts).                                                            *)
THEOREM ApprovedInHandAlways == Spec => []ApprovedInHand
  <1>1. Init => ApprovedInHand
    BY DEF Init, ApprovedInHand
  <1>2. Typed /\ ApprovedInHand /\ [Next]_vars => ApprovedInHand'
    BY HandStep
  <1>3. QED
    BY <1>1, <1>2, Invariance, PTL DEF Spec

-----------------------------------------------------------------------------
(* The refinement: a step of RefundPayout concerns one refund, and does to *)
(* it what RefundPromise lets happen.                                      *)
Taken(r) == r \notin disturbed /\ transfer[r] # "none"
Drawn(r) == IF r \in disturbed THEN 0 ELSE posted[r]

Same(r) == Stage(r)' = Stage(r) /\ Taken(r)' = Taken(r) /\ Drawn(r)' = Drawn(r)

Allowed(r) ==
    \/ Same(r)
    \/ /\ Stage(r) \in {"proposed", "refused"} /\ Stage(r)' = "approved"
       /\ Taken(r)' = Taken(r) /\ Drawn(r)' = Drawn(r)
    \/ /\ Stage(r) = "approved" /\ Stage(r)' = "approved"
       /\ Taken(r)' /\ Drawn(r)' = Drawn(r)
    \/ /\ Stage(r) = "approved" /\ Stage(r)' = "paid"
       /\ Taken(r) /\ Taken(r)' /\ Drawn(r)' = 1
    \/ /\ Stage(r) = "approved" /\ Stage(r)' = "refused"
       /\ Taken(r)' = Taken(r) /\ Drawn(r)' = Drawn(r)
    \/ r \in disturbed'

LEMMA AllowedStep ==
    ASSUME NEW r \in Refunds, Allowed(r), \A q \in Refunds \ {r} : Same(q)
    PROVE  [Promise!Next]_(Promise!vars)
  <1> DEFINE stage == [q \in Refunds |-> Stage(q)]
             taken == [q \in Refunds |-> q \notin disturbed /\ transfer[q] # "none"]
             drawn == [q \in Refunds |-> IF q \in disturbed THEN 0 ELSE posted[q]]
  <1>1. stage[r] = Stage(r) /\ taken[r] = Taken(r) /\ drawn[r] = Drawn(r)
    BY DEF Taken, Drawn
  <1>2. stage' = [stage EXCEPT ![r] = Stage(r)']
    BY DEF Same
  <1>3. taken' = [taken EXCEPT ![r] = Taken(r)']
    BY DEF Same, Taken
  <1>4. drawn' = [drawn EXCEPT ![r] = Drawn(r)']
    BY DEF Same, Drawn
  <1>5. /\ Taken(r) \in BOOLEAN
        /\ stage = [stage EXCEPT ![r] = stage[r]]
        /\ taken = [taken EXCEPT ![r] = taken[r]]
        /\ drawn = [drawn EXCEPT ![r] = drawn[r]]
    BY DEF Taken
  <1>6. CASE Same(r)
    <2>1. UNCHANGED <<stage, taken, drawn>>
      <3> HIDE DEF stage, taken, drawn
      <3>1. QED
        BY <1>1, <1>2, <1>3, <1>4, <1>5, <1>6 DEF Same
    <2>2. QED
      BY <2>1 DEF Promise!vars
  <1>7. CASE r \in disturbed'
    <2>1. Stage(r)' = "contested" /\ Taken(r)' = FALSE /\ Drawn(r)' = 0
      BY <1>7 DEF Stage, Taken, Drawn
    <2>2. Promise!Contest(r)
      BY <1>2, <1>3, <1>4, <2>1 DEF Promise!Contest
    <2>3. QED
      BY <2>2 DEF Promise!Next
  <1>8. CASE /\ Stage(r) \in {"proposed", "refused"} /\ Stage(r)' = "approved"
             /\ Taken(r)' = Taken(r) /\ Drawn(r)' = Drawn(r)
    <2>1. UNCHANGED <<taken, drawn>>
      <3> HIDE DEF taken, drawn
      <3>1. QED
        BY <1>1, <1>3, <1>4, <1>5, <1>8
    <2>2. Promise!Approve(r)
      BY <1>1, <1>2, <1>8, <2>1 DEF Promise!Approve
    <2>3. QED
      BY <2>2 DEF Promise!Next
  <1>9. CASE /\ Stage(r) = "approved" /\ Stage(r)' = "approved"
             /\ Taken(r)' /\ Drawn(r)' = Drawn(r)
    <2>1. UNCHANGED <<stage, drawn>>
      <3> HIDE DEF stage, drawn
      <3>1. QED
        BY <1>1, <1>2, <1>4, <1>5, <1>9
    <2>2. Taken(r)' = TRUE
      BY <1>9 DEF Taken
    <2>3. Promise!Take(r)
      BY <1>1, <1>3, <1>9, <2>1, <2>2 DEF Promise!Take
    <2>4. QED
      BY <2>3 DEF Promise!Next
  <1>10. CASE /\ Stage(r) = "approved" /\ Stage(r)' = "paid"
              /\ Taken(r) /\ Taken(r)' /\ Drawn(r)' = 1
    <2>1. Taken(r)' = Taken(r)
      BY <1>10 DEF Taken
    <2>2. UNCHANGED taken
      <3> HIDE DEF taken
      <3>1. QED
        BY <1>1, <1>3, <1>5, <2>1
    <2>3. Promise!Pay(r)
      BY <1>1, <1>2, <1>4, <1>10, <2>2 DEF Promise!Pay, Taken
    <2>4. QED
      BY <2>3 DEF Promise!Next
  <1>11. CASE /\ Stage(r) = "approved" /\ Stage(r)' = "refused"
              /\ Taken(r)' = Taken(r) /\ Drawn(r)' = Drawn(r)
    <2>1. UNCHANGED <<taken, drawn>>
      <3> HIDE DEF taken, drawn
      <3>1. QED
        BY <1>1, <1>3, <1>4, <1>5, <1>11
    <2>2. Promise!Refuse(r)
      BY <1>1, <1>2, <1>11, <2>1 DEF Promise!Refuse
    <2>3. QED
      BY <2>2 DEF Promise!Next
  <1>12. QED
    BY <1>6, <1>7, <1>8, <1>9, <1>10, <1>11 DEF Allowed

LEMMA PromiseStep ==
    ASSUME Typed, Kept, [Next]_vars
         PROVE  [Promise!Next]_(Promise!vars)
  <1> USE DEF rowVars, nombaVars, boundVars, historyVars
  <1>t. /\ status \in [Refunds -> Status]
        /\ posted \in [Refunds -> Nat]
        /\ transfer \in [Refunds -> {"none", "pending", "success", "failed", "returned"}]
        /\ disturbed \in SUBSET Refunds
        /\ \A j \in Slots : slot[j].pc # "free" => slot[j].refund \in Refunds
        /\ \A h \in Handlers :
              handler[h].pc # "idle" =>
                  /\ handler[h].refund \in Refunds
                  /\ handler[h].read \in {"pending_approval", "failed"}
    BY DEF Typed, TypeOK, AssignedInv
  <1>u. ASSUME UNCHANGED <<status, transfer, posted, disturbed>>
        PROVE  [Promise!Next]_(Promise!vars)
    BY <1>u DEF Promise!vars, Stage
  <1>s. /\ StageOf["pending_approval"] = "proposed"
        /\ StageOf["approved"] = "approved"
        /\ StageOf["sent"] = "paid"
        /\ StageOf["failed"] = "refused"
    BY DEF StageOf
  <1>w. ASSUME NEW j \in Slots, slot[j].pc \in {"calling", "accepted", "rejected"},
               NEW r \in Refunds, slot[j].refund = r, r \notin disturbed
        PROVE  /\ status[r] = "approved"
               /\ posted[r] = 0
               /\ slot[j].pc = "accepted" => transfer[r] # "none"
    BY <1>t, <1>w DEF Kept, WorkInv, PostedIffSent, InPayout
  <1>1. ASSUME NEW h \in Handlers, NEW r \in Refunds, ReadRefund(h, r)
        PROVE  [Promise!Next]_(Promise!vars)
    BY <1>1, <1>u DEF ReadRefund
  <1>2. ASSUME NEW h \in Handlers, WriteApproved(h)
        PROVE  [Promise!Next]_(Promise!vars)
    <2>0. PICK r \in Refunds : r = handler[h].refund
      BY <1>t, <1>2 DEF WriteApproved
    <2>1. \A q \in Refunds \ {r} : Same(q)
      BY <1>t, <1>2, <2>0 DEF WriteApproved, Same, Stage, Taken, Drawn
    <2>2. Allowed(r)
      BY <1>t, <1>s, <1>2, <2>0 DEF WriteApproved, Allowed, Stage, Taken, Drawn
    <2>3. QED
      BY <2>1, <2>2, AllowedStep
  <1>3. ASSUME NEW h \in Handlers, EnqueuePayout(h)
        PROVE  [Promise!Next]_(Promise!vars)
    BY <1>3, <1>u DEF EnqueuePayout
  <1>4. ASSUME NEW h \in Handlers, HandlerDies(h)
        PROVE  [Promise!Next]_(Promise!vars)
    BY <1>4, <1>u DEF HandlerDies
  <1>5. ASSUME NEW j \in Slots, StartPayout(j)
        PROVE  [Promise!Next]_(Promise!vars)
    <2>0. PICK r \in Refunds : r = slot[j].refund
      BY <1>t, <1>5 DEF StartPayout
    <2>1. /\ UNCHANGED <<status, transfer, posted>>
          /\ \A q \in Refunds \ {r} : q \in disturbed' <=> q \in disturbed
          /\ r \in disturbed' \/ UNCHANGED disturbed
      BY <1>5, <2>0 DEF StartPayout, Overlapping
    <2>2. \A q \in Refunds \ {r} : Same(q)
      BY <2>1 DEF Same, Stage, Taken, Drawn
    <2>3. Allowed(r)
      BY <2>1 DEF Allowed, Same, Stage, Taken, Drawn
    <2>4. QED
      BY <2>2, <2>3, AllowedStep
  <1>6. ASSUME NEW j \in Slots, TransferAccepted(j)
        PROVE  [Promise!Next]_(Promise!vars)
    <2>0. PICK r \in Refunds : r = slot[j].refund
      BY <1>t, <1>6 DEF TransferAccepted, InPayout
    <2>1. slot[j].refund = r /\ InPayout(j)
      BY <2>0, <1>6 DEF TransferAccepted, InPayout
    <2>2. \A q \in Refunds \ {r} : Same(q)
      BY <1>t, <1>6, <2>1 DEF TransferAccepted, Same, Stage, Taken, Drawn
    <2>3. CASE r \in disturbed
      BY <1>6, <2>1, <2>2, <2>3, AllowedStep DEF TransferAccepted, Allowed
    <2>4. CASE r \notin disturbed
      <3>1. /\ Stage(r) = "approved"
            /\ Stage(r)' = "approved"
            /\ Taken(r)'
            /\ Drawn(r)' = Drawn(r)
        BY <1>t, <1>s, <1>w, <1>6, <2>1, <2>4 DEF TransferAccepted, Stage, Taken, Drawn
      <3>2. QED
        BY <2>1, <2>2, <3>1, AllowedStep DEF Allowed
    <2>5. QED
      BY <2>3, <2>4
  <1>7. ASSUME NEW j \in Slots, TransferRejected(j)
        PROVE  [Promise!Next]_(Promise!vars)
    BY <1>7, <1>u DEF TransferRejected
  <1>8. ASSUME NEW j \in Slots, TransferTimesOut(j)
        PROVE  [Promise!Next]_(Promise!vars)
    <2>0. PICK r \in Refunds : r = slot[j].refund
      BY <1>t, <1>8 DEF TransferTimesOut, InPayout
    <2>1. slot[j].refund = r /\ InPayout(j)
      BY <2>0, <1>8 DEF TransferTimesOut, InPayout
    <2>2. \A q \in Refunds \ {r} : Same(q)
      BY <1>t, <1>8, <2>1 DEF TransferTimesOut, Same, Stage, Taken, Drawn
    <2>3. CASE r \in disturbed
      BY <1>8, <2>1, <2>2, <2>3, AllowedStep DEF TransferTimesOut, Allowed
    <2>4. CASE r \notin disturbed
      <3>1. /\ Stage(r) = "approved"
            /\ Stage(r)' = "approved"
            /\ Drawn(r)' = Drawn(r)
            /\ Taken(r)' \/ Same(r)
        BY <1>t, <1>s, <1>w, <1>8, <2>1, <2>4 DEF TransferTimesOut, Same, Stage, Taken, Drawn
      <3>2. QED
        BY <2>1, <2>2, <3>1, AllowedStep DEF Allowed
    <2>5. QED
      BY <2>3, <2>4
  <1>9. ASSUME NEW j \in Slots, CommitSent(j)
        PROVE  [Promise!Next]_(Promise!vars)
    <2>0. PICK r \in Refunds : r = slot[j].refund
      BY <1>t, <1>9 DEF CommitSent, InPayout
    <2>1. slot[j].refund = r /\ InPayout(j)
      BY <2>0, <1>9 DEF CommitSent, InPayout
    <2>2. \A q \in Refunds \ {r} : Same(q)
      BY <1>t, <1>9, <2>1 DEF CommitSent, Same, Stage, Taken, Drawn
    <2>3. CASE r \in disturbed
      BY <1>9, <2>1, <2>2, <2>3, AllowedStep DEF CommitSent, Allowed
    <2>4. CASE r \notin disturbed
      <3>1. /\ Stage(r) = "approved"
            /\ Stage(r)' = "paid"
            /\ Taken(r)
            /\ Taken(r)'
            /\ Drawn(r)' = 1
        BY <1>t, <1>s, <1>w, <1>9, <2>1, <2>4 DEF CommitSent, Stage, Taken, Drawn
      <3>2. QED
        BY <2>1, <2>2, <3>1, AllowedStep DEF Allowed
    <2>5. QED
      BY <2>3, <2>4
  <1>10. ASSUME NEW j \in Slots, CommitThrows(j)
         PROVE  [Promise!Next]_(Promise!vars)
    BY <1>10, <1>u DEF CommitThrows
  <1>11. ASSUME NEW j \in Slots, MarkFailed(j)
         PROVE  [Promise!Next]_(Promise!vars)
    <2>0. PICK r \in Refunds : r = slot[j].refund
      BY <1>t, <1>11 DEF MarkFailed, InPayout
    <2>1. slot[j].refund = r /\ InPayout(j)
      BY <2>0, <1>11 DEF MarkFailed, InPayout
    <2>2. \A q \in Refunds \ {r} : Same(q)
      BY <1>t, <1>11, <2>1 DEF MarkFailed, Same, Stage, Taken, Drawn
    <2>3. CASE r \in disturbed
      BY <1>11, <2>1, <2>2, <2>3, AllowedStep DEF MarkFailed, Allowed
    <2>4. CASE r \notin disturbed
      <3>1. /\ Stage(r) = "approved"
            /\ Stage(r)' = "refused"
            /\ Taken(r)' = Taken(r)
            /\ Drawn(r)' = Drawn(r)
        BY <1>t, <1>s, <1>w, <1>11, <2>1, <2>4 DEF MarkFailed, Stage, Taken, Drawn
      <3>2. QED
        BY <2>1, <2>2, <3>1, AllowedStep DEF Allowed
    <2>5. QED
      BY <2>3, <2>4
  <1>12. ASSUME NEW j \in Slots, RetryOrGiveUp(j)
         PROVE  [Promise!Next]_(Promise!vars)
    <2>0. PICK r \in Refunds : r = slot[j].refund
      BY <1>t, <1>12 DEF RetryOrGiveUp, InPayout
    <2>1. slot[j].refund = r /\ InPayout(j)
      BY <2>0, <1>12 DEF RetryOrGiveUp, InPayout
    <2>2. \A q \in Refunds \ {r} : Same(q)
      BY <1>t, <1>12, <2>1 DEF RetryOrGiveUp, Same, Stage, Taken, Drawn
    <2>3. CASE r \in disturbed
      BY <1>12, <2>1, <2>2, <2>3, AllowedStep DEF RetryOrGiveUp, Allowed
    <2>4. CASE r \notin disturbed
      <3>1. status[r] \in {"approved", "sent", "failed"} /\ slot[j].pc = "threw"
        BY <1>t, <1>12, <2>1 DEF RetryOrGiveUp, Kept, StartedInv, Status
      <3>2. CASE FinalAttempt(j)
        <4>1. status' = [status EXCEPT ![r] = "failed"] /\ UNCHANGED <<posted, transfer>>
          BY <1>12, <2>1, <3>2 DEF RetryOrGiveUp
        <4>2. CASE status[r] = "sent"
          BY <1>12, <2>1, <2>2, <3>2, <4>2, AllowedStep DEF RetryOrGiveUp, Allowed
        <4>3. CASE status[r] \in {"approved", "failed"}
          <5>1. UNCHANGED disturbed
            BY <1>12, <2>1, <3>2, <4>3 DEF RetryOrGiveUp
          <5>2. /\ Stage(r) = "approved" \/ Stage(r) = "refused"
                /\ Stage(r)' = "refused"
                /\ Taken(r)' = Taken(r)
                /\ Drawn(r)' = Drawn(r)
            BY <1>t, <1>s, <2>4, <4>1, <4>3, <5>1 DEF Stage, Taken, Drawn
          <5>3. QED
            BY <2>1, <2>2, <5>2, AllowedStep DEF Allowed, Same
        <4>4. QED
          BY <3>1, <4>2, <4>3
      <3>3. CASE ~FinalAttempt(j)
        BY <1>12, <1>u, <3>3 DEF RetryOrGiveUp
      <3>4. QED
        BY <3>2, <3>3
    <2>5. QED
      BY <2>3, <2>4
  <1>13. ASSUME NEW j \in Slots, JobEnds(j)
         PROVE  [Promise!Next]_(Promise!vars)
    BY <1>13, <1>u DEF JobEnds
  <1>14. ASSUME NEW j \in Slots, WorkerDies(j)
         PROVE  [Promise!Next]_(Promise!vars)
    BY <1>14, <1>u DEF WorkerDies
  <1>15. ASSUME NEW j \in Slots, WorkerStalls(j)
         PROVE  [Promise!Next]_(Promise!vars)
    BY <1>15, <1>u DEF WorkerStalls
  <1>16. ASSUME NEW r \in Refunds, NEW outcome \in {"success", "failed", "returned"},
                SettleTransfer(r, outcome)
         PROVE  [Promise!Next]_(Promise!vars)
    <2>1. r \in Refunds /\ Allowed(r) /\ \A q \in Refunds \ {r} : Same(q)
      BY <1>t, <1>16 DEF SettleTransfer, Allowed, Same, Stage, StageOf, Taken, Drawn, Status
    <2>2. QED
      BY <2>1, AllowedStep
  <1>17. ASSUME NEW r \in Refunds,
                NEW e \in {"payout_success", "payout_failed", "payout_refund"},
                FinalisePayout(r, e)
         PROVE  [Promise!Next]_(Promise!vars)
    <2>1. r \in Refunds /\ Allowed(r) /\ \A q \in Refunds \ {r} : Same(q)
      BY <1>t, <1>17 DEF FinalisePayout, Allowed, Same, Stage, StageOf, Taken, Drawn, Status
    <2>2. QED
      BY <2>1, AllowedStep
  <1>18. CASE UNCHANGED vars
    BY <1>18, <1>u DEF vars
  <1>19. ASSUME NEW j \in Slots, GiveUpThrows(j)
         PROVE  [Promise!Next]_(Promise!vars)
    BY <1>19, <1>u DEF GiveUpThrows
  <1>20. QED
    BY <1>1, <1>2, <1>3, <1>4, <1>5, <1>6, <1>7, <1>8, <1>9, <1>10, <1>11, <1>12, <1>13, <1>14,
       <1>15, <1>16, <1>17, <1>18, <1>19 DEF Next, HandlerStep, Execute

(* RefundPayout implements RefundPromise: whatever the requests, lost      *)
(* answers, retries, crashes, repeated executions and events, a refund     *)
(* that is not disturbed is approved before it is paid, its transfer is    *)
(* taken before the credit is drawn down, once, and a sent refund is not   *)
(* reopened.  A final attempt that writes failed over sent disturbs it.    *)
THEOREM RefundPayoutKeepsPromise == Spec => KeepsPromise
  <1>1. ASSUME Init
        PROVE  Promise!Init
    <2>1. \A r \in Refunds :
             /\ status[r] = "pending_approval" /\ transfer[r] = "none" /\ posted[r] = 0
             /\ r \notin disturbed
      BY <1>1 DEF Init
    <2>2. StageOf["pending_approval"] = "proposed"
      BY DEF StageOf
    <2>3. QED
      BY <2>1, <2>2 DEF Promise!Init, Stage
  <1>2. Typed /\ Kept /\ [Next]_vars => [Promise!Next]_(Promise!vars)
    BY PromiseStep
  <1>3. QED
    BY <1>1, <1>2, Invariance, PTL DEF Spec, KeepsPromise, Promise!Spec

=============================================================================
