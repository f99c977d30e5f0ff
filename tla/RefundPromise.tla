--------------------------- MODULE RefundPromise ---------------------------
(***************************************************************************)
(* What the system promises about a refund, whatever the requests, the     *)
(* jobs and the network do on the way: it is paid once an operator has     *)
(* approved it, only if Nomba has taken the transfer, and then the         *)
(* customer's credit is drawn down, once and for good; a refused one may   *)
(* be approved again.  A refund that Nomba's later reports, overlapping    *)
(* work or a final attempt that writes failed over sent contest is no      *)
(* longer covered.  RefundPayout implements this specification.            *)
(***************************************************************************)
EXTENDS Naturals

CONSTANT Refunds

VARIABLES
    stage,              \* proposed, approved, paid, refused or contested
    taken,              \* Nomba has the transfer
    drawn               \* entries that draw the credit down

vars == <<stage, taken, drawn>>

Init ==
    /\ stage = [r \in Refunds |-> "proposed"]
    /\ taken = [r \in Refunds |-> FALSE]
    /\ drawn = [r \in Refunds |-> 0]

Approve(r) ==
    /\ stage[r] \in {"proposed", "refused"}
    /\ stage' = [stage EXCEPT ![r] = "approved"]
    /\ UNCHANGED <<taken, drawn>>

Take(r) ==
    /\ stage[r] = "approved"
    /\ taken' = [taken EXCEPT ![r] = TRUE]
    /\ UNCHANGED <<stage, drawn>>

Pay(r) ==
    /\ stage[r] = "approved"
    /\ taken[r]
    /\ stage' = [stage EXCEPT ![r] = "paid"]
    /\ drawn' = [drawn EXCEPT ![r] = 1]
    /\ UNCHANGED taken

Refuse(r) ==
    /\ stage[r] = "approved"
    /\ stage' = [stage EXCEPT ![r] = "refused"]
    /\ UNCHANGED <<taken, drawn>>

Contest(r) ==
    /\ stage' = [stage EXCEPT ![r] = "contested"]
    /\ taken' = [taken EXCEPT ![r] = FALSE]
    /\ drawn' = [drawn EXCEPT ![r] = 0]

Next == \E r \in Refunds : Approve(r) \/ Take(r) \/ Pay(r) \/ Refuse(r) \/ Contest(r)

Spec == Init /\ [][Next]_vars

=============================================================================
