------------------------------- MODULE Ledger -------------------------------
(***************************************************************************)
(* What credits, reversals, operators and payouts do to invoices, payments *)
(* and the double-entry ledger.  Every database transaction is one action, *)
(* except where the code reads before it locks: applyCustomerCredit reads  *)
(* the credit balance and the reserved refunds first and locks invoices    *)
(* afterwards.                                                             *)
(*                                                                         *)
(* Which events reach the ledger, and how often, is the business of        *)
(* Ingestion.tla (a session is credited at most once); how a refund is     *)
(* paid, that of RefundPayout.tla.  A customer's invoices are a sequence   *)
(* in the order of created_at.                                             *)
(***************************************************************************)
EXTENDS Waterfall

CONSTANTS
    Customers,
    NoCustomer,         \* customer_id of an orphan
    Sessions,           \* sessions of inbound transfers
    Appliers,           \* concurrent runs of applyCustomerCredit
    Grosses, Fees,      \* amounts and fees of inbound transfers
    InvoiceAmounts,     \* amounts of new invoices, 0 from a billing run
    MaxInvoices,        \* bound: invoices per customer
    LateEvents          \* what else Nomba sends: payment_reversal, payout_refund

ASSUME SessionsAssumption == IsFiniteSet(Sessions)
ASSUME NoCustomerAssumption == NoCustomer \notin Customers
ASSUME GrossAssumption == Grosses \subseteq Nat
ASSUME FeeAssumption == Fees \subseteq Nat
ASSUME InvoiceAssumption == InvoiceAmounts \subseteq Nat

VARIABLES
    invoices,           \* per customer, oldest first
    payment,            \* payments, by session
    entries,            \* ledger: a payment's net postings, by account
    moved,              \* ledger: credit applied to invoices, by customer
    exception,          \* exceptions, by session of their payment
    refund,             \* pending_refunds, by session of their payment
    applier,            \* what a run of applyCustomerCredit has read
    excused             \* history: customers whose credit was cut from behind

vars == <<invoices, payment, entries, moved, exception, refund, applier, excused>>

NoPayment ==
    [status |-> "none", label |-> "none", customer |-> NoCustomer, gross |-> 0, fee |-> 0,
     matched |-> 0, touched |-> 0]

(* `returned` is history: the bank returns a transfer at most once, and the *)
(* merchant_tx_ref makes all payouts of a refund the same transfer.        *)
NoRefund == [status |-> "none", amount |-> 0, returned |-> FALSE]

IdleApplier == [pc |-> "idle", customer |-> NoCustomer, balance |-> 0, available |-> 0]

Init ==
    /\ invoices = [c \in Customers |-> <<>>]
    /\ payment = [s \in Sessions |-> NoPayment]
    /\ entries = [s \in Sessions |-> Nothing]
    /\ moved = [c \in Customers |-> 0]
    /\ exception = [s \in Sessions |-> "none"]
    /\ refund = [s \in Sessions |-> NoRefund]
    /\ applier = [a \in Appliers |-> IdleApplier]
    /\ excused = {}

-----------------------------------------------------------------------------
(* Balances, as the queries compute them.                                  *)

PaymentsOf(c) == {s \in Sessions : payment[s].customer = c}

CreditBalance(c) ==
    SumFunction([s \in PaymentsOf(c) |-> entries[s]["credit"]]) - moved[c]

ReceivableApplied(c) ==
    SumFunction([s \in PaymentsOf(c) |-> entries[s]["receivable"]]) + moved[c]

Settled(c) == SumFunction([i \in DOMAIN invoices[c] |-> invoices[c][i].settled])

(* Mutant: a failed refund is not expected to be paid any more.            *)
ReservedOpenOnly(c) ==
    SumFunction([s \in {s \in PaymentsOf(c) : refund[s].status \in
                            {"pending_approval", "approved"}} |-> refund[s].amount])

(* Refunds that could still be paid out.                                   *)
Reserved(c) ==
    SumFunction([s \in {s \in PaymentsOf(c) : refund[s].status \in
                            {"pending_approval", "approved", "failed"}} |-> refund[s].amount])

-----------------------------------------------------------------------------
(* POST /customers/:id/invoices, and the billing run.                      *)
CreateInvoice(c, amount) ==
    /\ Len(invoices[c]) < MaxInvoices
    /\ invoices' = [invoices EXCEPT ![c] =
          Append(@, [expected |-> amount, settled |-> 0, status |-> "open"])]
    /\ UNCHANGED <<payment, entries, moved, exception, refund, applier, excused>>

(* reconcileInboundCredit of a payment that resolves to a customer.  All   *)
(* open invoices are locked, so the transaction is atomic.                 *)
ReconcileCustomer(s, c, gross, fee) ==
    /\ payment[s].status = "none"
    /\ Accepts(gross, fee)
    /\ \E rem \in Runs(gross, invoices[c]) :
          /\ payment' = [payment EXCEPT ![s] =
                [status |-> "reconciled", label |-> Classification(gross, invoices[c], rem),
                 customer |-> c, gross |-> gross, fee |-> fee,
                 matched |-> FirstTouched(rem, invoices[c]),
                 touched |-> Cardinality(Touched(rem, invoices[c]))]]
          /\ entries' = [entries EXCEPT ![s] =
                CustomerPostings(gross, fee, rem, invoices[c])]
          /\ invoices' = [invoices EXCEPT ![c] = Poured(rem, @)]
          /\ refund' = IF RefundAmount(invoices[c], rem) = 0 THEN refund
                       ELSE [refund EXCEPT ![s] =
                                [NoRefund EXCEPT
                                    !.status = "pending_approval",
                                    !.amount = RefundAmount(invoices[c], rem)]]
    /\ UNCHANGED <<moved, exception, applier, excused>>

(* ... and of one that does not: the money waits in suspense.              *)
ReconcileOrphan(s, gross, fee) ==
    /\ payment[s].status = "none"
    /\ Accepts(gross, fee)
    /\ payment' = [payment EXCEPT ![s] =
          [NoPayment EXCEPT !.status = "in_exception", !.label = "orphan",
                            !.gross = gross, !.fee = fee]]
    /\ entries' = [entries EXCEPT ![s] = OrphanPostings(gross, fee)]
    /\ exception' = [exception EXCEPT ![s] = "open"]
    /\ UNCHANGED <<invoices, moved, refund, applier, excused>>

-----------------------------------------------------------------------------
(* reverseCredit: inverse entries for everything posted under the payment, *)
(* and the matched invoice gives back what the payment had put on the      *)
(* receivable account.                                                     *)

(* Mutant: the status keeps what it was before the roll-back.              *)
RolledBackSilently(inv, amount) ==
    [inv EXCEPT !.settled = IF inv.settled < amount THEN 0 ELSE inv.settled - amount]

RolledBack(inv, amount) ==
    LET next == inv.settled - amount IN
    [inv EXCEPT !.settled = IF next < 0 THEN 0 ELSE next,
                !.status = IF next > 0 THEN "partially_paid" ELSE "open"]

(* Mutant: the ledger is unwound but the invoice keeps its settlement.     *)
RollBackNothing(s) == UNCHANGED invoices

RollBackInvoice(s) ==
    LET c == payment[s].customer
        i == payment[s].matched
        settled == entries[s]["receivable"]
    IN IF i # 0 /\ settled > 0
         THEN invoices' = [invoices EXCEPT ![c][i] = RolledBack(@, settled)]
         ELSE UNCHANGED invoices

ReverseCredit(s) ==
    /\ "payment_reversal" \in LateEvents
    /\ payment[s].status \notin {"none", "refunded"}
    /\ entries' = [entries EXCEPT ![s] = [a \in Accounts |-> @[a] - @[a]]]
    /\ RollBackInvoice(s)
    /\ payment' = [payment EXCEPT ![s].status = "refunded"]
    /\ excused' = excused \cup ({payment[s].customer} \cap Customers)
    /\ UNCHANGED <<moved, exception, refund, applier>>

-----------------------------------------------------------------------------
(* The operator console.                                                   *)

(* POST /exceptions/:id/resolve closes the break and moves no money.       *)
ResolveException(s) ==
    /\ exception[s] = "open"
    /\ exception' = [exception EXCEPT ![s] = "resolved"]
    /\ UNCHANGED <<invoices, payment, entries, moved, refund, applier, excused>>

(* POST /exceptions/:id/reattribute: suspense to the customer's credit.    *)
Reattribute(s, c) ==
    /\ exception[s] = "open"
    /\ entries' = [entries EXCEPT ![s]["suspense"] = @ - payment[s].gross,
                                  ![s]["credit"] = @ + payment[s].gross]
    /\ payment' = [payment EXCEPT ![s].customer = c, ![s].status = "reconciled"]
    /\ exception' = [exception EXCEPT ![s] = "resolved"]
    /\ UNCHANGED <<invoices, moved, refund, applier, excused>>

(* POST /refunds/:id/approve.                                              *)
ApproveRefund(s) ==
    /\ refund[s].status \in {"pending_approval", "failed"}
    /\ refund' = [refund EXCEPT ![s].status = "approved"]
    /\ UNCHANGED <<invoices, payment, entries, moved, exception, applier, excused>>

(* Mutant: the credit is drawn down but no cash leaves.                    *)
PayOutRefundOneLeg(s) ==
    /\ refund[s].status = "approved"
    /\ refund' = [refund EXCEPT ![s].status = "sent"]
    /\ entries' = [entries EXCEPT ![s]["credit"] = @ - refund[s].amount]
    /\ UNCHANGED <<invoices, payment, moved, exception, applier, excused>>

(* The payout job: sent together with the reversing entry ...              *)
PayOutRefund(s) ==
    /\ refund[s].status = "approved"
    /\ refund' = [refund EXCEPT ![s].status = "sent"]
    /\ entries' = [entries EXCEPT ![s]["credit"] = @ - refund[s].amount,
                                  ![s]["cash"] = @ - refund[s].amount]
    /\ UNCHANGED <<invoices, payment, moved, exception, applier, excused>>

(* ... or failed.                                                          *)
FailRefund(s) ==
    /\ refund[s].status = "approved"
    /\ refund' = [refund EXCEPT ![s].status = "failed"]
    /\ UNCHANGED <<invoices, payment, entries, moved, exception, applier, excused>>

(* finalisePayout of payout_refund: the money came back, nothing is posted. *)
(* The final attempt of a payout job leaves the same rows behind when it   *)
(* writes failed over sent.                                                *)
ReturnPayout(s) ==
    /\ "payout_refund" \in LateEvents
    /\ refund[s].status = "sent"
    /\ ~refund[s].returned
    /\ refund' = [refund EXCEPT ![s].status = "failed", ![s].returned = TRUE]
    /\ excused' = excused \cup {payment[s].customer}
    /\ UNCHANGED <<invoices, payment, entries, moved, exception, applier>>

-----------------------------------------------------------------------------
(* applyCustomerCredit: POST /customers/:id/apply-credit, billing runs.    *)

ReadBalance(a, c) ==
    /\ applier[a].pc = "idle"
    /\ applier' = [applier EXCEPT ![a] =
          [pc |-> "balance", customer |-> c, balance |-> CreditBalance(c), available |-> 0]]
    /\ UNCHANGED <<invoices, payment, entries, moved, exception, refund, excused>>

ReadReserved(a) ==
    LET available == applier[a].balance - Reserved(applier[a].customer) IN
    /\ applier[a].pc = "balance"
    /\ applier' = [applier EXCEPT ![a] =
          IF available <= 0 THEN IdleApplier
          ELSE [@ EXCEPT !.pc = "reserved", !.balance = 0, !.available = available]]
    /\ UNCHANGED <<invoices, payment, entries, moved, exception, refund, excused>>

(* Locks the open invoices and pours what was available when it was read.  *)
LockAndApply(a) ==
    LET c == applier[a].customer
        available == applier[a].available
    IN
    /\ applier[a].pc = "reserved"
    /\ \E rem \in Runs(available, invoices[c]) :
          /\ invoices' = [invoices EXCEPT ![c] = Poured(rem, @)]
          /\ moved' = [moved EXCEPT ![c] = @ + available - rem[Len(invoices[c])]]
    /\ excused' = IF available > CreditBalance(c) - Reserved(c)
                    THEN excused \cup {c} ELSE excused
    /\ applier' = [applier EXCEPT ![a] = IdleApplier]
    /\ UNCHANGED <<payment, entries, exception, refund>>

-----------------------------------------------------------------------------
PaymentStep(s) ==
    \/ \E c \in Customers, gross \in Grosses, fee \in Fees :
          ReconcileCustomer(s, c, gross, fee)
    \/ \E gross \in Grosses, fee \in Fees : ReconcileOrphan(s, gross, fee)
    \/ ReverseCredit(s)
    \/ ResolveException(s)
    \/ \E c \in Customers : Reattribute(s, c)
    \/ ApproveRefund(s)
    \/ PayOutRefund(s)
    \/ FailRefund(s)
    \/ ReturnPayout(s)

Next ==
    \/ \E c \in Customers, amount \in InvoiceAmounts : CreateInvoice(c, amount)
    \/ \E s \in Sessions : PaymentStep(s)
    \/ \E a \in Appliers :
          \/ \E c \in Customers : ReadBalance(a, c)
          \/ ReadReserved(a)
          \/ LockAndApply(a)

Spec == Init /\ [][Next]_vars

-----------------------------------------------------------------------------
Invoice == [expected : Nat, settled : Nat, status : InvoiceStatus]

RefundStatus == {"none", "pending_approval", "approved", "sent", "failed"}

(* Types of the tables and of the figures an applier carries.              *)
TypeOK ==
    /\ invoices \in [Customers -> Seq(Invoice)]
    /\ payment \in [Sessions ->
          [status : {"none", "reconciled", "in_exception", "refunded"},
           label : {"none", "exact", "underpayment", "overpayment", "orphan"},
           customer : Customers \cup {NoCustomer},
           gross : Nat, fee : Nat, matched : Nat, touched : Nat]]
    /\ entries \in [Sessions -> [Accounts -> Int]]
    /\ moved \in [Customers -> Int]
    /\ exception \in [Sessions -> {"none", "open", "resolved"}]
    /\ refund \in [Sessions -> [status : RefundStatus, amount : Nat, returned : BOOLEAN]]
    /\ applier \in [Appliers ->
          [pc : {"idle", "balance", "reserved"}, customer : Customers \cup {NoCustomer},
           balance : Int, available : Nat]]
    /\ excused \in SUBSET Customers

(* Whatever order payments, credit applications and reversals come in, an  *)
(* invoice is never settled beyond what is owed, and its status, which     *)
(* decides whether the next payment sees it, is the one of its amounts; an *)
(* invoice of nothing stays open.                                          *)
InvoicesConsistent ==
    \A c \in Customers : \A i \in DOMAIN invoices[c] :
        LET inv == invoices[c][i] IN
        /\ inv.settled <= inv.expected
        /\ inv.status = "settled" <=> inv.settled = inv.expected /\ inv.expected > 0
        /\ inv.status = "open" <=> inv.settled = 0

(* "Sum of debits = sum of credits" (README), per payment and through all  *)
(* that may happen to it later: payout, re-attribution, reversal; and the  *)
(* gross amount of a payment in exception is in suspense, all of it.       *)
PaymentsBalanced ==
    \A s \in Sessions :
        /\ Balanced(entries[s])
        /\ payment[s].status = "in_exception" => entries[s]["suspense"] = payment[s].gross

(* What a customer's invoices say is settled is what the ledger applied to *)
(* the receivable account, as long as no reversed payment of the customer  *)
(* had reached a second invoice.                                           *)
SettledIsReceivable ==
    \A c \in Customers :
        (\A s \in PaymentsOf(c) : payment[s].status = "refunded" => payment[s].touched <= 1)
            => Settled(c) = ReceivableApplied(c)

(* "Keeps credit >= owed refunds" (school/credit.ts) through approvals,    *)
(* payouts, failures, re-approvals and credit applications, as long as no  *)
(* application used figures that were stale when it locked, no payment was *)
(* reversed, and no payout came back.                                      *)
CreditCoversRefunds ==
    \A c \in Customers \ excused : CreditBalance(c) >= Reserved(c)

=============================================================================
