-------------------------- MODULE ExactlyOnceCredit --------------------------
(***************************************************************************)
(* What ingestion promises to the ledger, whatever the webhooks, the queue *)
(* and the workers do on the way: money that Nomba received for a session  *)
(* is posted to the ledger at most once, never before it was received, and *)
(* unwound at most once, and only after Nomba reversed it.                 *)
(* Ingestion.tla implements this specification.                            *)
(***************************************************************************)
EXTENDS Naturals

CONSTANT Sessions       \* NIBSS session ids, one per inbound transfer

VARIABLES
    bank,               \* what happened to the transfer at Nomba
    credits,            \* number of times its credit was posted to the ledger
    contras             \* number of times that credit was unwound

vars == <<bank, credits, contras>>

Init ==
    /\ bank = [s \in Sessions |-> "none"]
    /\ credits = [s \in Sessions |-> 0]
    /\ contras = [s \in Sessions |-> 0]

(* The bank settles, rejects or takes back a transfer on its own.          *)
Settle(s, outcome) ==
    /\ \/ bank[s] = "none" /\ outcome \in {"paid", "failed"}
       \/ bank[s] = "paid" /\ outcome = "reversed"
    /\ bank' = [bank EXCEPT ![s] = outcome]
    /\ UNCHANGED <<credits, contras>>

Credit(s) ==
    /\ bank[s] \in {"paid", "reversed"}
    /\ credits[s] = 0
    /\ credits' = [credits EXCEPT ![s] = 1]
    /\ UNCHANGED <<bank, contras>>

Unwind(s) ==
    /\ bank[s] = "reversed"
    /\ credits[s] = 1
    /\ contras[s] = 0
    /\ contras' = [contras EXCEPT ![s] = 1]
    /\ UNCHANGED <<bank, credits>>

Next == \E s \in Sessions :
    \/ \E outcome \in {"paid", "failed", "reversed"} : Settle(s, outcome)
    \/ Credit(s)
    \/ Unwind(s)

Spec == Init /\ [][Next]_vars

=============================================================================
