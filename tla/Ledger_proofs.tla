----------------------------- MODULE Ledger_proofs -----------------------------
(***************************************************************************)
(* Proofs about Ledger: in whatever order any number of payments, credit   *)
(* applications, decisions, payouts and reversals come, an invoice is      *)
(* never settled beyond what is owed and has the status of its amounts,    *)
(* and what is posted under a payment balances.  And about the sums over   *)
(* its rows, for any number of customers, sessions and invoices: standing  *)
(* credit covers the proposed refunds, receivables are what invoices are   *)
(* settled by, and the reports of Reports agree with the ledger.           *)
(***************************************************************************)
EXTENDS Reports, Sums, SequenceTheorems

(* An invoice whose status is the one of its amounts.                      *)
Consistent(inv) ==
    /\ inv.settled <= inv.expected
    /\ inv.status = "settled" <=> inv.settled = inv.expected /\ inv.expected > 0
    /\ inv.status = "open" <=> inv.settled = 0

InvoicesInv ==
    /\ invoices \in [Customers -> Seq(Invoice)]
    /\ \A c \in Customers : \A i \in DOMAIN invoices[c] : Consistent(invoices[c][i])

LEMMA Bounds ==
    ASSUME NEW v, NEW x \in 0..v
    PROVE  x \in Int /\ 0 <= x
  OBVIOUS

(* The invoices that a run has been poured over.                           *)
LEMMA PouredConsistent ==
    ASSUME NEW amount, NEW invs \in Seq(Invoice), NEW rem \in Runs(amount, invs),
           \A i \in DOMAIN invs : Consistent(invs[i])
    PROVE  /\ Poured(rem, invs) \in Seq(Invoice)
           /\ \A i \in DOMAIN Poured(rem, invs) : Consistent(Poured(rem, invs)[i])
  <1>1. DOMAIN invs = 1..Len(invs) /\ Len(invs) \in Nat
    BY LenProperties
  <1>2. ASSUME NEW i \in 1..Len(invs)
        PROVE  /\ PayInvoice(invs[i], rem[i - 1] - rem[i]) \in Invoice
               /\ Consistent(PayInvoice(invs[i], rem[i - 1] - rem[i]))
    <2> DEFINE inv == invs[i]
               before == rem[i - 1]
               applied == rem[i - 1] - rem[i]
    <2>1. i - 1 \in 0..Len(invs) /\ i \in 0..Len(invs)
      BY <1>1
    <2>2. rem[i] = before - Applied(before, inv) /\ before \in 0..amount /\ rem[i] \in 0..amount
      BY <2>1 DEF Runs
    <2>3. before \in Int /\ 0 <= before /\ rem[i] \in Int
      BY <2>2, Bounds
    <2>4. inv \in Invoice /\ Consistent(inv)
      BY <1>1, ElementOfSeq
    <2>5. inv.settled \in Nat /\ inv.expected \in Nat
      BY <2>4 DEF Invoice
    <2>6. applied = Applied(before, inv)
      BY <2>2, <2>3, <2>5 DEF Applied, Outstanding
    <2>7. applied \in Nat /\ inv.settled + applied <= inv.expected
      BY <2>3, <2>4, <2>5, <2>6 DEF Applied, Outstanding, Consistent
    <2> HIDE DEF applied, inv
    <2>8. CASE applied = 0
      BY <2>4, <2>8 DEF PayInvoice, applied, inv
    <2>9. CASE applied # 0
      <3> DEFINE sum == inv.settled + applied
                 status == IF sum >= inv.expected THEN "settled" ELSE "partially_paid"
                 paid == [inv EXCEPT !.settled = sum, !.status = status]
      <3>1. PayInvoice(inv, applied) = paid
        BY <2>9 DEF PayInvoice
      <3>2. sum \in Nat /\ status \in InvoiceStatus
        BY <2>5, <2>7 DEF InvoiceStatus
      <3>3. /\ status = IF sum >= inv.expected THEN "settled" ELSE "partially_paid"
            /\ sum = inv.settled + applied
        OBVIOUS
      <3> HIDE DEF status, sum
      <3>4. /\ paid.settled = sum /\ paid.expected = inv.expected
            /\ paid.status = status /\ paid \in Invoice
        BY <2>4, <3>2 DEF Invoice
      <3> HIDE DEF paid
      <3>5. Consistent(paid)
        BY <2>5, <2>7, <2>9, <3>3, <3>4 DEF Consistent
      <3>6. QED
        BY <3>1, <3>4, <3>5 DEF applied, inv
    <2>10. QED
      BY <2>8, <2>9
  <1>3. Poured(rem, invs) \in [1..Len(invs) -> Invoice]
    BY <1>1, <1>2 DEF Poured
  <1>4. Poured(rem, invs) \in Seq(Invoice)
    BY <1>1, <1>3, SeqDef
  <1>5. \A i \in 1..Len(invs) : Poured(rem, invs)[i] = PayInvoice(invs[i], rem[i - 1] - rem[i])
    BY <1>1 DEF Poured
  <1>6. QED
    BY <1>2, <1>3, <1>4, <1>5

(* An invoice that a reversal has taken from.                              *)
LEMMA RolledBackConsistent ==
    ASSUME NEW inv \in Invoice, Consistent(inv), NEW amount \in Int, amount > 0
    PROVE  RolledBack(inv, amount) \in Invoice /\ Consistent(RolledBack(inv, amount))
  <1> DEFINE next == inv.settled - amount
             settled == IF next < 0 THEN 0 ELSE next
             status == IF next > 0 THEN "partially_paid" ELSE "open"
             back == [inv EXCEPT !.settled = settled, !.status = status]
  <1>1. inv.settled \in Nat /\ inv.expected \in Nat /\ settled \in Nat
    BY DEF Invoice
  <1>2. /\ back.settled = settled /\ back.expected = inv.expected /\ back.status = status
        /\ back \in Invoice
    BY <1>1 DEF Invoice, InvoiceStatus
  <1>3. RolledBack(inv, amount) = back
    BY DEF RolledBack
  <1> HIDE DEF back
  <1>4. Consistent(back)
    BY <1>1, <1>2 DEF Consistent
  <1>5. QED
    BY <1>2, <1>3, <1>4

-----------------------------------------------------------------------------
(* The first invoice a payment touches is one of the customer's.           *)
LEMMA MatchedType ==
    ASSUME NEW amount, NEW invs \in Seq(Invoice), NEW rem \in Runs(amount, invs)
    PROVE  /\ FirstTouched(rem, invs) \in Nat
           /\ Cardinality(Touched(rem, invs)) \in Nat
  <1>1. DOMAIN invs = 1..Len(invs) /\ Len(invs) \in Nat
    BY LenProperties
  <1>2. Touched(rem, invs) \in SUBSET (1..Len(invs))
    BY <1>1 DEF Touched
  <1>3. Cardinality(Touched(rem, invs)) \in Nat
    <2>1. 1 \in Int /\ Len(invs) \in Int
      BY <1>1
    <2>2. IsFiniteSet(1..Len(invs))
      BY <2>1, FS_Interval
    <2>3. IsFiniteSet(Touched(rem, invs))
      BY <1>2, <2>2, FS_Subset
    <2>4. QED
      BY <2>3, FS_CardinalityType
  <1>4. Touched(rem, invs) \in SUBSET Nat
    BY <1>1, <1>2
  <1>5. FirstTouched(rem, invs) \in Nat
    BY <1>4, Least DEF FirstTouched
  <1>6. QED
    BY <1>3, <1>5

(* The postings of a payment, by what the waterfall left over.             *)
SurplusPostings(gross, fee, surplus) ==
    [Nothing EXCEPT !["cash"] = gross - fee, !["fees"] = fee,
                    !["receivable"] = gross - surplus, !["credit"] = surplus]

(* What the loop adds up is what `remaining` went down by.                 *)
LEMMA AppliedAddsUp ==
    ASSUME NEW gross \in Nat, NEW fee \in Int, NEW invs \in Seq(Invoice),
           NEW rem \in Runs(gross, invs)
    PROVE  CustomerPostings(gross, fee, rem, invs) = SurplusPostings(gross, fee, rem[Len(invs)])
  <1> DEFINE n == Len(invs)
             d == [i \in DOMAIN invs |-> Applied(rem[i - 1], invs[i])]
  <1>1. DOMAIN invs = 1..n /\ n \in Nat
    BY LenProperties
  <1>2. rem[0] = gross /\ \A i \in 0..n : rem[i] \in Int
    BY DEF Runs
  <1>3. ASSUME NEW i \in 1..n
        PROVE  d[i] = rem[i - 1] - rem[i]
    <2>1. invs[i] \in Invoice
      BY <1>1, ElementOfSeq
    <2>2. invs[i].expected \in Nat /\ invs[i].settled \in Nat
      BY <2>1 DEF Invoice
    <2>3. rem[i - 1] \in Int /\ rem[i] = rem[i - 1] - Applied(rem[i - 1], invs[i])
      BY <1>1, <1>2 DEF Runs
    <2>4. Applied(rem[i - 1], invs[i]) \in Int
      BY <2>2, <2>3 DEF Applied, Outstanding
    <2>5. d[i] = Applied(rem[i - 1], invs[i])
      BY <1>1
    <2> HIDE DEF d
    <2>6. QED
      BY <2>3, <2>4, <2>5
  <1>4. SumFunction(d) = gross - rem[n]
    <2>1. DOMAIN d = 1..n
      BY <1>1
    <2> HIDE DEF d, n
    <2>2. SumFunctionOnSet(d, 1..n) = rem[0] - rem[n]
      BY <1>1, <1>2, <1>3, Telescope
    <2>3. QED
      BY <1>2, <2>1, <2>2 DEF SumFunction
  <1>5. AppliedTotal(rem, invs) = gross - rem[n]
    BY <1>4 DEF AppliedTotal
  <1>6. QED
    BY <1>5 DEF CustomerPostings, SurplusPostings

(* What is posted for a payment balances.                                  *)
LEMMA PostingsBalance ==
    ASSUME NEW gross \in Int, NEW fee \in Int, NEW surplus \in Int
    PROVE  /\ SurplusPostings(gross, fee, surplus) \in [Accounts -> Int]
           /\ Balanced(SurplusPostings(gross, fee, surplus))
           /\ OrphanPostings(gross, fee) \in [Accounts -> Int]
           /\ Balanced(OrphanPostings(gross, fee))
           /\ OrphanPostings(gross, fee)["suspense"] = gross
  BY DEF SurplusPostings, OrphanPostings, Balanced, Nothing, Accounts

-----------------------------------------------------------------------------
PaymentRow ==
    [status : {"none", "reconciled", "in_exception", "refunded"},
     label : {"none", "exact", "underpayment", "overpayment", "orphan"},
     customer : Customers \cup {NoCustomer},
     gross : Nat, fee : Nat, matched : Nat, touched : Nat]

RefundRow == [status : RefundStatus, amount : Nat, returned : BOOLEAN]

(* The types of the rows the postings depend on.                           *)
Rows ==
    /\ payment \in [Sessions -> PaymentRow]
    /\ entries \in [Sessions -> [Accounts -> Int]]
    /\ refund \in [Sessions -> RefundRow]

Inv == Rows /\ InvoicesInv /\ PaymentsBalanced

LEMMA InitInv == Init => Inv
  <1> SUFFICES ASSUME Init PROVE Inv
    OBVIOUS
  <1>1. NoPayment \in PaymentRow /\ NoPayment.status = "none"
    BY DEF NoPayment, PaymentRow
  <1>2. Nothing \in [Accounts -> Int] /\ Balanced(Nothing)
    BY DEF Nothing, Accounts, Balanced
  <1>3. NoRefund \in RefundRow
    BY DEF NoRefund, RefundRow, RefundStatus
  <1>4. Rows
    BY <1>1, <1>2, <1>3 DEF Init, Rows
  <1>5. << >> \in Seq(Invoice) /\ DOMAIN << >> = {}
    BY EmptySeq, LenProperties
  <1>6. InvoicesInv
    BY <1>5 DEF Init, InvoicesInv
  <1>7. PaymentsBalanced
    BY <1>1, <1>2 DEF Init, PaymentsBalanced
  <1>8. QED
    BY <1>4, <1>6, <1>7 DEF Inv

(* Steps of one invoice list, one payment's postings, one row.             *)
LEMMA InvoicesStep ==
    ASSUME InvoicesInv, NEW c, NEW invs \in Seq(Invoice),
           \A i \in DOMAIN invs : Consistent(invs[i]),
           invoices' = [invoices EXCEPT ![c] = invs]
    PROVE  InvoicesInv'
  <1>1. invoices' \in [Customers -> Seq(Invoice)]
    BY DEF InvoicesInv
  <1>2. ASSUME NEW d \in Customers, NEW i \in DOMAIN invoices'[d]
        PROVE  Consistent(invoices'[d][i])
    <2>1. CASE d = c
      BY <1>2, <2>1 DEF InvoicesInv
    <2>2. CASE d # c
      BY <1>2, <2>2 DEF InvoicesInv
    <2>3. QED
      BY <2>1, <2>2
  <1>3. QED
    BY <1>1, <1>2 DEF InvoicesInv

LEMMA PostingStep ==
    ASSUME Rows, PaymentsBalanced, NEW s \in Sessions,
           NEW row \in PaymentRow, payment' = [payment EXCEPT ![s] = row],
           NEW e \in [Accounts -> Int], entries' = [entries EXCEPT ![s] = e],
           Balanced(e), row.status = "in_exception" => e["suspense"] = row.gross
    PROVE  /\ PaymentsBalanced'
           /\ payment' \in [Sessions -> PaymentRow]
           /\ entries' \in [Sessions -> [Accounts -> Int]]
  <1>1. /\ payment' \in [Sessions -> PaymentRow]
        /\ entries' \in [Sessions -> [Accounts -> Int]]
    BY DEF Rows
  <1>2. ASSUME NEW t \in Sessions
        PROVE  /\ Balanced(entries'[t])
               /\ payment'[t].status = "in_exception"
                    => entries'[t]["suspense"] = payment'[t].gross
    <2>1. CASE t = s
      BY <2>1 DEF Rows
    <2>2. CASE t # s
      BY <2>2 DEF Rows, PaymentsBalanced
    <2>3. QED
      BY <2>1, <2>2
  <1>3. QED
    BY <1>1, <1>2 DEF PaymentsBalanced

-----------------------------------------------------------------------------
(* The steps, one lemma per transaction that moves money.                  *)
LEMMA CreateInvoiceStep ==
    ASSUME Inv, NEW c \in Customers, NEW amount \in InvoiceAmounts, CreateInvoice(c, amount)
    PROVE  InvoicesInv'
  <1> DEFINE new == [expected |-> amount, settled |-> 0, status |-> "open"]
             invs == Append(invoices[c], new)
  <1>1. InvoicesInv /\ invoices[c] \in Seq(Invoice) /\ c \in DOMAIN invoices
    BY DEF Inv, InvoicesInv
  <1>2. amount \in Nat
    BY InvoiceAssumption
  <1>3. new \in Invoice /\ Consistent(new)
    BY <1>2 DEF Invoice, InvoiceStatus, Consistent
  <1>4. invoices' = [invoices EXCEPT ![c] = invs]
    BY DEF CreateInvoice
  <1> HIDE DEF new
  <1>5. /\ invs \in Seq(Invoice) /\ Len(invs) = Len(invoices[c]) + 1
        /\ \A i \in 1..Len(invoices[c]) : invs[i] = invoices[c][i]
        /\ invs[Len(invoices[c]) + 1] = new
    BY <1>1, <1>3, AppendProperties
  <1>6. /\ DOMAIN invoices[c] = 1..Len(invoices[c]) /\ Len(invoices[c]) \in Nat
        /\ DOMAIN invs = 1..Len(invs)
    BY <1>1, <1>5, LenProperties
  <1>7. \A i \in DOMAIN invoices[c] : Consistent(invoices[c][i])
    BY <1>1 DEF InvoicesInv
  <1> HIDE DEF invs
  <1>8. ASSUME NEW i \in DOMAIN invs PROVE Consistent(invs[i])
    <2>1. CASE i \in 1..Len(invoices[c])
      BY <1>5, <1>6, <1>7, <2>1
    <2>2. CASE i = Len(invoices[c]) + 1
      BY <1>3, <1>5, <2>2
    <2>3. QED
      BY <1>5, <1>6, <2>1, <2>2
  <1>9. QED
    BY <1>1, <1>4, <1>5, <1>8, InvoicesStep

LEMMA ReconcileCustomerStep ==
    ASSUME Inv, NEW s \in Sessions, NEW c \in Customers, NEW gross \in Grosses, NEW fee \in Fees,
           ReconcileCustomer(s, c, gross, fee)
    PROVE  Inv'
  <1> DEFINE invs == invoices[c]
  <1>1. Rows /\ InvoicesInv /\ PaymentsBalanced
    BY DEF Inv
  <1>2. /\ invs \in Seq(Invoice) /\ Len(invs) \in Nat
        /\ \A i \in DOMAIN invs : Consistent(invs[i])
    BY <1>1, LenProperties DEF InvoicesInv
  <1>3. gross \in Nat /\ fee \in Nat
    BY GrossAssumption, FeeAssumption
  <1>4. PICK rem \in Runs(gross, invs) :
          /\ payment' = [payment EXCEPT ![s] =
                [status |-> "reconciled", label |-> Classification(gross, invs, rem),
                 customer |-> c, gross |-> gross, fee |-> fee,
                 matched |-> FirstTouched(rem, invs),
                 touched |-> Cardinality(Touched(rem, invs))]]
          /\ entries' = [entries EXCEPT ![s] = CustomerPostings(gross, fee, rem, invs)]
          /\ invoices' = [invoices EXCEPT ![c] = Poured(rem, invs)]
          /\ refund' = IF RefundAmount(invs, rem) = 0 THEN refund
                       ELSE [refund EXCEPT ![s] =
                                [NoRefund EXCEPT !.status = "pending_approval",
                                                 !.amount = RefundAmount(invs, rem)]]
    BY <1>1 DEF ReconcileCustomer, InvoicesInv
  <1> DEFINE row == [status |-> "reconciled", label |-> Classification(gross, invs, rem),
                     customer |-> c, gross |-> gross, fee |-> fee,
                     matched |-> FirstTouched(rem, invs),
                     touched |-> Cardinality(Touched(rem, invs))]
             e == SurplusPostings(gross, fee, rem[Len(invs)])
             amount == RefundAmount(invs, rem)
             owed == [NoRefund EXCEPT !.status = "pending_approval", !.amount = amount]
  <1>5. rem[Len(invs)] \in Nat
    <2>1. Len(invs) \in 0..Len(invs)
      BY <1>2
    <2>2. rem[Len(invs)] \in 0..gross
      BY <2>1 DEF Runs
    <2>3. QED
      BY <1>3, <2>2
  <1>6. Classification(gross, invs, rem) \in {"exact", "underpayment", "overpayment"}
    BY DEF Classification
  <1>7. FirstTouched(rem, invs) \in Nat /\ Cardinality(Touched(rem, invs)) \in Nat
    BY <1>2, MatchedType
  <1>8. row \in PaymentRow /\ row.status = "reconciled"
    BY <1>3, <1>6, <1>7 DEF PaymentRow
  <1>9. e \in [Accounts -> Int] /\ Balanced(e)
    <2>1. gross \in Int /\ fee \in Int /\ rem[Len(invs)] \in Int
      BY <1>3, <1>5
    <2>2. QED
      BY <2>1, PostingsBalance, Zenon
  <1>10. amount \in Nat
    BY <1>5 DEF RefundAmount
  <1>11. owed \in RefundRow
    BY <1>10 DEF NoRefund, RefundRow, RefundStatus
  <1>12. payment' = [payment EXCEPT ![s] = row] /\ entries' = [entries EXCEPT ![s] = e]
    <2>1. CustomerPostings(gross, fee, rem, invs) = e
      <3>1. fee \in Int
        BY <1>3
      <3>2. QED
        BY <1>2, <1>3, <3>1, AppliedAddsUp
    <2>2. QED
      BY <1>4, <2>1
  <1>13. refund' = refund \/ refund' = [refund EXCEPT ![s] = owed]
    BY <1>4
  <1>14. Poured(rem, invs) \in Seq(Invoice)
         /\ \A i \in DOMAIN Poured(rem, invs) : Consistent(Poured(rem, invs)[i])
    BY <1>2, PouredConsistent
  <1>15. InvoicesInv'
    BY <1>1, <1>4, <1>14, InvoicesStep
  <1> HIDE DEF row, e, owed, amount, invs
  <1>16. /\ PaymentsBalanced'
         /\ payment' \in [Sessions -> PaymentRow]
         /\ entries' \in [Sessions -> [Accounts -> Int]]
    BY <1>1, <1>8, <1>9, <1>12, PostingStep
  <1>17. refund' \in [Sessions -> RefundRow]
    BY <1>1, <1>11, <1>13 DEF Rows
  <1>18. QED
    BY <1>15, <1>16, <1>17 DEF Inv, Rows

LEMMA ReconcileOrphanStep ==
    ASSUME Inv, NEW s \in Sessions, NEW gross \in Grosses, NEW fee \in Fees,
           ReconcileOrphan(s, gross, fee)
    PROVE  Inv'
  <1> DEFINE row == [NoPayment EXCEPT !.status = "in_exception", !.label = "orphan",
                                      !.gross = gross, !.fee = fee]
             e == OrphanPostings(gross, fee)
  <1>1. Rows /\ InvoicesInv /\ PaymentsBalanced
    BY DEF Inv
  <1>2. gross \in Nat /\ fee \in Nat
    BY GrossAssumption, FeeAssumption
  <1>3. row \in PaymentRow /\ row.gross = gross
    BY <1>2 DEF NoPayment, PaymentRow
  <1>4. e \in [Accounts -> Int] /\ Balanced(e) /\ e["suspense"] = gross
    BY <1>2, PostingsBalance
  <1>5. /\ payment' = [payment EXCEPT ![s] = row] /\ entries' = [entries EXCEPT ![s] = e]
        /\ UNCHANGED <<invoices, refund>>
    BY DEF ReconcileOrphan
  <1> HIDE DEF row, e
  <1>6. /\ PaymentsBalanced'
        /\ payment' \in [Sessions -> PaymentRow]
        /\ entries' \in [Sessions -> [Accounts -> Int]]
    BY <1>1, <1>3, <1>4, <1>5, PostingStep
  <1>7. QED
    BY <1>1, <1>5, <1>6 DEF Inv, Rows, InvoicesInv

(* The reversal: everything is unwound, and one invoice gives back.        *)
LEMMA RollBackStep ==
    ASSUME Inv, NEW s \in Sessions, RollBackInvoice(s)
    PROVE  InvoicesInv'
  <1> DEFINE c == payment[s].customer
             i == payment[s].matched
             settled == entries[s]["receivable"]
             back == RolledBack(invoices[c][i], settled)
  <1>1. Rows /\ InvoicesInv
    BY DEF Inv
  <1>2. CASE invoices' = invoices
    BY <1>1, <1>2 DEF InvoicesInv
  <1>3. CASE settled > 0 /\ invoices' = [invoices EXCEPT ![c][i] = back]
    <2> DEFINE invs == [invoices[c] EXCEPT ![i] = back]
    <2>1. settled \in Int
      BY <1>1 DEF Rows, Accounts
    <2>2. invoices' = [invoices EXCEPT ![c] = invs]
      BY <1>3
    <2>3. CASE c \in Customers /\ i \in DOMAIN invoices[c]
      <3>1. invoices[c] \in Seq(Invoice)
        BY <1>1, <2>3 DEF InvoicesInv
      <3>2. i \in 1..Len(invoices[c]) /\ DOMAIN invoices[c] = 1..Len(invoices[c])
        BY <2>3, <3>1, LenProperties
      <3>3. invoices[c][i] \in Invoice /\ Consistent(invoices[c][i])
        BY <1>1, <2>3, <3>1, <3>2, ElementOfSeq DEF InvoicesInv
      <3>4. back \in Invoice /\ Consistent(back)
        BY <1>3, <2>1, <3>3, RolledBackConsistent
      <3>5. /\ invs \in Seq(Invoice) /\ Len(invs) = Len(invoices[c])
            /\ \A j \in 1..Len(invoices[c]) : invs[j] = IF j = i THEN back ELSE invoices[c][j]
        BY <3>1, <3>2, <3>4, ExceptSeq
      <3>6. DOMAIN invs = 1..Len(invoices[c])
        BY <3>2
      <3> HIDE DEF back, invs
      <3>7. \A j \in DOMAIN invs : Consistent(invs[j])
        BY <1>1, <2>3, <3>2, <3>4, <3>5, <3>6 DEF InvoicesInv
      <3>8. QED
        BY <1>1, <2>2, <3>5, <3>7, InvoicesStep
    <2>4. CASE c \notin Customers
      <3>1. invoices' = invoices
        BY <1>1, <2>2, <2>4 DEF InvoicesInv
      <3>2. QED
        BY <1>1, <3>1 DEF InvoicesInv
    <2>5. CASE c \in Customers /\ i \notin DOMAIN invoices[c]
      <3>1. invoices[c] \in Seq(Invoice)
        BY <1>1, <2>5 DEF InvoicesInv
      <3>2. invs = invoices[c]
        BY <2>5, <3>1
      <3>3. invoices' = invoices
        BY <1>1, <2>2, <3>2 DEF InvoicesInv
      <3>4. QED
        BY <1>1, <3>3 DEF InvoicesInv
    <2>6. QED
      BY <2>3, <2>4, <2>5
  <1>4. QED
    BY <1>2, <1>3 DEF RollBackInvoice

LEMMA ReverseCreditStep ==
    ASSUME Inv, NEW s \in Sessions, ReverseCredit(s)
    PROVE  Inv'
  <1> DEFINE row == [payment[s] EXCEPT !.status = "refunded"]
             e == [a \in Accounts |-> entries[s][a] - entries[s][a]]
  <1>1. Rows /\ PaymentsBalanced
    BY DEF Inv
  <1>2. row \in PaymentRow /\ row.status = "refunded"
    BY <1>1 DEF Rows, PaymentRow
  <1>3. e \in [Accounts -> Int] /\ Balanced(e)
    <2>1. \A a \in Accounts : entries[s][a] - entries[s][a] = 0
      BY <1>1 DEF Rows
    <2>2. QED
      BY <2>1 DEF Balanced, Accounts
  <1>4. /\ payment' = [payment EXCEPT ![s] = row] /\ entries' = [entries EXCEPT ![s] = e]
        /\ refund' = refund /\ RollBackInvoice(s)
    BY DEF ReverseCredit
  <1>5. InvoicesInv'
    BY <1>4, RollBackStep
  <1> HIDE DEF row, e
  <1>6. /\ PaymentsBalanced'
        /\ payment' \in [Sessions -> PaymentRow]
        /\ entries' \in [Sessions -> [Accounts -> Int]]
    BY <1>1, <1>2, <1>3, <1>4, PostingStep
  <1>7. QED
    BY <1>1, <1>4, <1>5, <1>6 DEF Inv, Rows

LEMMA ReattributeStep ==
    ASSUME Inv, NEW s \in Sessions, NEW c \in Customers, Reattribute(s, c)
    PROVE  Inv'
  <1> DEFINE gross == payment[s].gross
             row == [payment[s] EXCEPT !.customer = c, !.status = "reconciled"]
             e == [entries[s] EXCEPT !["suspense"] = @ - gross, !["credit"] = @ + gross]
  <1>1. Rows /\ InvoicesInv /\ PaymentsBalanced
    BY DEF Inv
  <1>2. row \in PaymentRow /\ row.status = "reconciled" /\ gross \in Nat
    BY <1>1 DEF Rows, PaymentRow
  <1>3. e \in [Accounts -> Int] /\ Balanced(e)
    <2>1. entries[s] \in [Accounts -> Int] /\ Balanced(entries[s])
      BY <1>1 DEF Rows, PaymentsBalanced
    <2> HIDE DEF gross
    <2>2. e \in [Accounts -> Int]
      BY <1>2, <2>1 DEF Accounts
    <2>3. /\ e["cash"] = entries[s]["cash"] /\ e["fees"] = entries[s]["fees"]
          /\ e["receivable"] = entries[s]["receivable"]
          /\ e["suspense"] = entries[s]["suspense"] - gross
          /\ e["credit"] = entries[s]["credit"] + gross
      BY <1>2, <2>1 DEF Accounts
    <2>4. /\ entries[s]["cash"] \in Int /\ entries[s]["fees"] \in Int
          /\ entries[s]["suspense"] \in Int /\ entries[s]["receivable"] \in Int
          /\ entries[s]["credit"] \in Int /\ gross \in Int
      BY <1>2, <2>1 DEF Accounts
    <2> HIDE DEF e
    <2>5. Balanced(e)
      BY <2>1, <2>3, <2>4 DEF Balanced
    <2>6. QED
      BY <2>2, <2>5
  <1>4. /\ payment' = [payment EXCEPT ![s] = row] /\ entries' = [entries EXCEPT ![s] = e]
        /\ UNCHANGED <<invoices, refund>>
    BY DEF Reattribute
  <1> HIDE DEF row, e
  <1>5. /\ PaymentsBalanced'
        /\ payment' \in [Sessions -> PaymentRow]
        /\ entries' \in [Sessions -> [Accounts -> Int]]
    BY <1>1, <1>2, <1>3, <1>4, PostingStep
  <1>6. QED
    BY <1>1, <1>4, <1>5 DEF Inv, Rows, InvoicesInv

(* Only the payout of a refund posts.                                      *)
LEMMA PayOutRefundStep ==
    ASSUME Inv, NEW s \in Sessions, PayOutRefund(s)
    PROVE  Inv'
  <1> DEFINE amount == refund[s].amount
             row == payment[s]
             e == [entries[s] EXCEPT !["credit"] = @ - amount, !["cash"] = @ - amount]
  <1>1. Rows /\ InvoicesInv /\ PaymentsBalanced
    BY DEF Inv
  <1>2. row \in PaymentRow /\ amount \in Nat
    BY <1>1 DEF Rows, RefundRow
  <1>3. e \in [Accounts -> Int] /\ Balanced(e) /\ e["suspense"] = entries[s]["suspense"]
    <2>1. entries[s] \in [Accounts -> Int] /\ Balanced(entries[s])
      BY <1>1 DEF Rows, PaymentsBalanced
    <2> HIDE DEF amount
    <2>2. e \in [Accounts -> Int]
      BY <1>2, <2>1 DEF Accounts
    <2>3. /\ e["cash"] = entries[s]["cash"] - amount /\ e["fees"] = entries[s]["fees"]
          /\ e["receivable"] = entries[s]["receivable"]
          /\ e["suspense"] = entries[s]["suspense"]
          /\ e["credit"] = entries[s]["credit"] - amount
      BY <1>2, <2>1 DEF Accounts
    <2>4. /\ entries[s]["cash"] \in Int /\ entries[s]["fees"] \in Int
          /\ entries[s]["suspense"] \in Int /\ entries[s]["receivable"] \in Int
          /\ entries[s]["credit"] \in Int /\ amount \in Int
      BY <1>2, <2>1 DEF Accounts
    <2> HIDE DEF e
    <2>5. Balanced(e)
      BY <2>1, <2>3, <2>4 DEF Balanced
    <2>6. QED
      BY <2>2, <2>3, <2>5
  <1>4. row.status = "in_exception" => e["suspense"] = row.gross
    BY <1>1, <1>3 DEF PaymentsBalanced
  <1>5. /\ payment' = [payment EXCEPT ![s] = row] /\ entries' = [entries EXCEPT ![s] = e]
        /\ UNCHANGED invoices
    BY <1>1 DEF PayOutRefund, Rows
  <1>6. refund' \in [Sessions -> RefundRow]
    BY <1>1 DEF PayOutRefund, Rows, RefundRow, RefundStatus
  <1> HIDE DEF row, e
  <1>7. /\ PaymentsBalanced'
        /\ payment' \in [Sessions -> PaymentRow]
        /\ entries' \in [Sessions -> [Accounts -> Int]]
    BY <1>1, <1>2, <1>3, <1>4, <1>5, PostingStep
  <1>8. QED
    BY <1>1, <1>5, <1>6, <1>7 DEF Inv, Rows, InvoicesInv

LEMMA LockAndApplyStep ==
    ASSUME Inv, NEW a \in Appliers, LockAndApply(a)
    PROVE  Inv'
  <1> DEFINE c == applier[a].customer
             available == applier[a].available
  <1>1. Rows /\ InvoicesInv /\ PaymentsBalanced
    BY DEF Inv
  <1>2. PICK rem \in Runs(available, invoices[c]) :
          invoices' = [invoices EXCEPT ![c] = Poured(rem, @)]
    BY DEF LockAndApply
  <1>3. CASE c \in Customers
    <2>1. /\ invoices[c] \in Seq(Invoice)
          /\ \A i \in DOMAIN invoices[c] : Consistent(invoices[c][i])
      BY <1>1, <1>3 DEF InvoicesInv
    <2>2. /\ Poured(rem, invoices[c]) \in Seq(Invoice)
          /\ \A i \in DOMAIN Poured(rem, invoices[c]) : Consistent(Poured(rem, invoices[c])[i])
      BY <2>1, PouredConsistent
    <2>3. invoices' = [invoices EXCEPT ![c] = Poured(rem, invoices[c])]
      BY <1>1, <1>2, <1>3 DEF InvoicesInv
    <2>4. QED
      BY <1>1, <2>2, <2>3, InvoicesStep DEF Inv, LockAndApply, Rows, PaymentsBalanced
  <1>4. CASE c \notin Customers
    <2>1. invoices' = invoices
      BY <1>1, <1>2, <1>4 DEF InvoicesInv
    <2>2. QED
      BY <1>1, <2>1 DEF Inv, LockAndApply, Rows, PaymentsBalanced, InvoicesInv
  <1>5. QED
    BY <1>3, <1>4

-----------------------------------------------------------------------------
LEMMA PaymentStepKeeps ==
    ASSUME Inv, NEW s \in Sessions, PaymentStep(s)
    PROVE  Inv'
  <1>0. Rows /\ InvoicesInv /\ PaymentsBalanced
    BY DEF Inv
  <1>1. CASE \E c \in Customers, gross \in Grosses, fee \in Fees :
                 ReconcileCustomer(s, c, gross, fee)
    BY <1>1, ReconcileCustomerStep
  <1>2. CASE \E gross \in Grosses, fee \in Fees : ReconcileOrphan(s, gross, fee)
    BY <1>2, ReconcileOrphanStep
  <1>3. CASE ReverseCredit(s)
    BY <1>3, ReverseCreditStep
  <1>4. CASE ResolveException(s)
    BY <1>0, <1>4 DEF ResolveException, Inv, Rows, InvoicesInv, PaymentsBalanced
  <1>5. CASE \E c \in Customers : Reattribute(s, c)
    BY <1>5, ReattributeStep
  <1>6. CASE UNCHANGED <<invoices, payment, entries>> /\ refund' \in [Sessions -> RefundRow]
    BY <1>0, <1>6 DEF Inv, Rows, InvoicesInv, PaymentsBalanced
  <1>7. CASE ApproveRefund(s)
    BY <1>0, <1>6, <1>7 DEF ApproveRefund, Rows, RefundRow, RefundStatus
  <1>8. CASE PayOutRefund(s)
    BY <1>8, PayOutRefundStep
  <1>9. CASE FailRefund(s)
    BY <1>0, <1>6, <1>9 DEF FailRefund, Rows, RefundRow, RefundStatus
  <1>10. CASE ReturnPayout(s)
    BY <1>0, <1>6, <1>10 DEF ReturnPayout, Rows, RefundRow, RefundStatus
  <1>11. QED
    BY <1>1, <1>2, <1>3, <1>4, <1>5, <1>7, <1>8, <1>9, <1>10 DEF PaymentStep

LEMMA StepKeeps == Inv /\ [Next]_vars => Inv'
  <1> SUFFICES ASSUME Inv, [Next]_vars PROVE Inv'
    OBVIOUS
  <1>0. Rows /\ InvoicesInv /\ PaymentsBalanced
    BY DEF Inv
  <1>1. CASE UNCHANGED <<invoices, payment, entries, refund>>
    BY <1>0, <1>1 DEF Inv, Rows, InvoicesInv, PaymentsBalanced
  <1>2. ASSUME NEW c \in Customers, NEW amount \in InvoiceAmounts, CreateInvoice(c, amount)
        PROVE  Inv'
    <2>1. InvoicesInv'
      BY <1>2, CreateInvoiceStep
    <2>2. QED
      BY <1>0, <1>2, <2>1 DEF CreateInvoice, Inv, Rows, PaymentsBalanced
  <1>3. ASSUME NEW s \in Sessions, PaymentStep(s) PROVE Inv'
    BY <1>3, PaymentStepKeeps
  <1>4. ASSUME NEW a \in Appliers, NEW c \in Customers, ReadBalance(a, c) PROVE Inv'
    BY <1>1, <1>4 DEF ReadBalance
  <1>5. ASSUME NEW a \in Appliers, ReadReserved(a) PROVE Inv'
    BY <1>1, <1>5 DEF ReadReserved
  <1>6. ASSUME NEW a \in Appliers, LockAndApply(a) PROVE Inv'
    BY <1>6, LockAndApplyStep
  <1>7. CASE UNCHANGED vars
    BY <1>1, <1>7 DEF vars
  <1>8. QED
    BY <1>2, <1>3, <1>4, <1>5, <1>6, <1>7 DEF Next

(* The rows keep their types, the invoices their consistency and the       *)
(* postings their balance, whatever transaction comes next.                *)
THEOREM Invariance == Spec => []Inv
  <1>1. QED
    BY InitInv, StepKeeps, PTL DEF Spec

(* In any order of payments, credit applications and reversals no invoice  *)
(* is settled beyond what is owed, and its status is that of its amounts.  *)
THEOREM InvoicesConsistentAlways == Spec => []InvoicesConsistent
  <1>1. Inv => InvoicesConsistent
    BY DEF Inv, InvoicesInv, InvoicesConsistent, Consistent
  <1>2. QED
    BY <1>1, Invariance, PTL

(* Debits equal credits under every payment, through payout, re-attribution *)
(* and reversal, and a payment in exception has its gross in suspense.      *)
THEOREM PaymentsBalancedAlways == Spec => []PaymentsBalanced
  <1>1. Inv => PaymentsBalanced
    BY DEF Inv
  <1>2. QED
    BY <1>1, Invariance, PTL

-----------------------------------------------------------------------------
ApplierRow ==
    [pc : {"idle", "balance", "reserved"}, customer : Customers \cup {NoCustomer},
     balance : Int, available : Nat]

(* The types of what Rows does not speak of.                               *)
Tables ==
    /\ moved \in [Customers -> Int]
    /\ exception \in [Sessions -> {"none", "open", "resolved"}]
    /\ applier \in [Appliers -> ApplierRow]
    /\ \A a \in Appliers : applier[a].pc # "idle" => applier[a].customer \in Customers

(* Where the rows of a session come from, and what is posted under them.   *)
OriginOf(s) ==
    /\ payment[s].status = "none" =>
          payment[s].customer = NoCustomer /\ exception[s] = "none" /\ entries[s]["suspense"] = 0
    /\ payment[s].status # "none" => payment[s].label # "none" /\ payment[s].gross > 0
    /\ payment[s].status = "in_exception" =>
          /\ payment[s].customer = NoCustomer /\ exception[s] \in {"open", "resolved"}
          /\ entries[s]["fees"] = payment[s].fee
    /\ exception[s] = "open" =>
          /\ payment[s].customer = NoCustomer /\ payment[s].label = "orphan"
          /\ payment[s].status \in {"in_exception", "refunded"}
    /\ payment[s].customer = NoCustomer =>
          /\ refund[s].status = "none" /\ ~refund[s].returned
          /\ entries[s]["credit"] = 0 /\ entries[s]["receivable"] = 0
          /\ payment[s].matched = 0 /\ payment[s].touched = 0
    /\ entries[s]["receivable"] >= 0

(* Only a reversed orphan that is re-attributed overdraws suspense.        *)
SuspenseOf(s) ==
    payment[s].status # "in_exception" =>
        /\ entries[s]["suspense"] <= 0
        /\ entries[s]["suspense"] < 0 => payment[s].label = "orphan"

PaidOutOf(s) == IF refund[s].status = "sent" THEN refund[s].amount ELSE 0

(* What a customer's payment brought is in the postings under it.          *)
ExplainedOf(s) ==
    payment[s].customer # NoCustomer =>
        /\ payment[s].status = "refunded" \/ refund[s].returned => payment[s].customer \in excused
        /\ payment[s].status # "refunded" /\ ~refund[s].returned /\ entries[s]["suspense"] = 0 =>
              /\ entries[s]["fees"] = payment[s].fee
              /\ entries[s]["receivable"] + entries[s]["credit"] + PaidOutOf(s) = payment[s].gross

RowInv(s) == OriginOf(s) /\ SuspenseOf(s) /\ ExplainedOf(s)

RowsInv == Tables /\ \A s \in Sessions : RowInv(s)

-----------------------------------------------------------------------------
(* What each transaction does to the rows of its session.                  *)
Others(s) ==
    \A t \in Sessions \ {s} :
        /\ payment'[t] = payment[t] /\ entries'[t] = entries[t]
        /\ refund'[t] = refund[t] /\ exception'[t] = exception[t]

Credited(s, c, gross, fee, rem) ==
    LET surplus == rem[Len(invoices[c])] IN
    /\ surplus \in Nat /\ surplus <= gross
    /\ payment'[s].status = "reconciled"
    /\ payment'[s].label = Classification(gross, invoices[c], rem)
    /\ payment'[s].customer = c /\ payment'[s].gross = gross /\ payment'[s].fee = fee
    /\ payment'[s].matched = FirstTouched(rem, invoices[c])
    /\ payment'[s].touched = Cardinality(Touched(rem, invoices[c]))
    /\ entries'[s] = SurplusPostings(gross, fee, surplus)
    /\ invoices' = [invoices EXCEPT ![c] = Poured(rem, invoices[c])]
    /\ IF RefundAmount(invoices[c], rem) = 0 THEN refund'[s] = refund[s]
       ELSE /\ refund'[s].status = "pending_approval"
            /\ refund'[s].amount = RefundAmount(invoices[c], rem)
            /\ refund'[s].returned = FALSE

LEMMA ReconcileCustomerRows ==
    ASSUME Inv, RowsInv, NEW s \in Sessions, NEW c \in Customers,
           NEW gross \in Grosses, NEW fee \in Fees, ReconcileCustomer(s, c, gross, fee)
    PROVE  /\ payment[s].status = "none" /\ gross \in Nat /\ fee \in Nat /\ gross > 0
           /\ Others(s) /\ UNCHANGED <<moved, exception, applier, excused>>
           /\ \E rem \in Runs(gross, invoices[c]) : Credited(s, c, gross, fee, rem)
  <1>1. /\ payment \in [Sessions -> PaymentRow] /\ refund \in [Sessions -> RefundRow]
        /\ entries \in [Sessions -> [Accounts -> Int]] /\ invoices \in [Customers -> Seq(Invoice)]
    BY DEF Inv, Rows, InvoicesInv
  <1>2. gross \in Nat /\ fee \in Nat
    BY GrossAssumption, FeeAssumption
  <1>3. PICK rem \in Runs(gross, invoices[c]) :
          /\ payment' = [payment EXCEPT ![s] =
                [status |-> "reconciled", label |-> Classification(gross, invoices[c], rem),
                 customer |-> c, gross |-> gross, fee |-> fee,
                 matched |-> FirstTouched(rem, invoices[c]),
                 touched |-> Cardinality(Touched(rem, invoices[c]))]]
          /\ entries' = [entries EXCEPT ![s] =
                CustomerPostings(gross, fee, rem, invoices[c])]
          /\ invoices' = [invoices EXCEPT ![c] = Poured(rem, invoices[c])]
          /\ refund' = IF RefundAmount(invoices[c], rem) = 0 THEN refund
                       ELSE [refund EXCEPT ![s] =
                                [NoRefund EXCEPT !.status = "pending_approval",
                                                 !.amount = RefundAmount(invoices[c], rem)]]
    BY <1>1 DEF ReconcileCustomer
  <1>4. rem[Len(invoices[c])] \in 0..gross
    <2>1. Len(invoices[c]) \in 0..Len(invoices[c])
      BY <1>1, LenProperties
    <2>2. QED
      BY <2>1 DEF Runs
  <1>5. rem[Len(invoices[c])] \in Nat /\ rem[Len(invoices[c])] <= gross
    BY <1>2, <1>4
  <1>6. /\ payment[s].status = "none" /\ gross > 0
        /\ UNCHANGED <<moved, exception, applier, excused>>
    BY DEF ReconcileCustomer, Accepts
  <1>7. Others(s)
    BY <1>1, <1>3, <1>6 DEF Others
  <1> DEFINE row == [status |-> "reconciled", label |-> Classification(gross, invoices[c], rem),
                     customer |-> c, gross |-> gross, fee |-> fee,
                     matched |-> FirstTouched(rem, invoices[c]),
                     touched |-> Cardinality(Touched(rem, invoices[c]))]
             owed == [NoRefund EXCEPT !.status = "pending_approval",
                                      !.amount = RefundAmount(invoices[c], rem)]
  <1>8. payment'[s] = row /\ entries'[s] = SurplusPostings(gross, fee, rem[Len(invoices[c])])
    <2>1. payment'[s] = row /\ entries'[s] = CustomerPostings(gross, fee, rem, invoices[c])
      BY <1>1, <1>3
    <2>2. fee \in Int /\ invoices[c] \in Seq(Invoice)
      BY <1>1, <1>2
    <2>3. CustomerPostings(gross, fee, rem, invoices[c]) =
              SurplusPostings(gross, fee, rem[Len(invoices[c])])
      BY <1>2, <2>2, AppliedAddsUp
    <2>4. QED
      BY <2>1, <2>3
  <1>9. /\ owed.status = "pending_approval" /\ owed.amount = RefundAmount(invoices[c], rem)
        /\ owed.returned = FALSE
    BY DEF NoRefund
  <1>10. refund'[s] = IF RefundAmount(invoices[c], rem) = 0 THEN refund[s] ELSE owed
    BY <1>1, <1>3
  <1>11. /\ row.status = "reconciled" /\ row.label = Classification(gross, invoices[c], rem)
         /\ row.customer = c /\ row.gross = gross /\ row.fee = fee
         /\ row.matched = FirstTouched(rem, invoices[c])
         /\ row.touched = Cardinality(Touched(rem, invoices[c]))
    OBVIOUS
  <1>12. invoices' = [invoices EXCEPT ![c] = Poured(rem, invoices[c])]
    BY <1>3
  <1> HIDE DEF owed, row
  <1>13. Credited(s, c, gross, fee, rem)
    BY <1>5, <1>8, <1>9, <1>10, <1>11, <1>12 DEF Credited
  <1>14. QED
    BY <1>2, <1>6, <1>7, <1>13

LEMMA ReconcileOrphanRows ==
    ASSUME Inv, RowsInv, NEW s \in Sessions,
           NEW gross \in Grosses, NEW fee \in Fees, ReconcileOrphan(s, gross, fee)
    PROVE  /\ payment[s].status = "none" /\ gross \in Nat /\ fee \in Nat /\ gross > 0
           /\ Others(s) /\ UNCHANGED <<invoices, moved, refund, applier, excused>>
           /\ payment'[s].status = "in_exception" /\ payment'[s].label = "orphan"
           /\ payment'[s].gross = gross /\ payment'[s].fee = fee
           /\ payment'[s].customer = NoCustomer
           /\ payment'[s].matched = 0 /\ payment'[s].touched = 0
           /\ entries'[s] = OrphanPostings(gross, fee)
           /\ exception'[s] = "open"
           /\ exception' \in [Sessions -> {"none", "open", "resolved"}]
  <1> DEFINE row == [NoPayment EXCEPT !.status = "in_exception", !.label = "orphan",
                                      !.gross = gross, !.fee = fee]
  <1>1. gross \in Nat /\ fee \in Nat
    BY GrossAssumption, FeeAssumption
  <1>2. /\ row.status = "in_exception" /\ row.label = "orphan" /\ row.gross = gross
        /\ row.fee = fee /\ row.customer = NoCustomer /\ row.matched = 0 /\ row.touched = 0
    BY DEF NoPayment
  <1>3. payment' = [payment EXCEPT ![s] = row]
    BY DEF ReconcileOrphan
  <1> HIDE DEF row
  <1>4. QED
    BY <1>1, <1>2, <1>3 DEF Inv, Rows, RowsInv, Tables, ReconcileOrphan, Accepts, Others

LEMMA ReverseCreditRows ==
    ASSUME Inv, RowsInv, NEW s \in Sessions, ReverseCredit(s)
    PROVE  /\ payment[s].status \notin {"none", "refunded"}
           /\ Others(s) /\ UNCHANGED <<moved, exception, refund, applier>>
           /\ payment'[s] = [payment[s] EXCEPT !.status = "refunded"]
           /\ \A a \in Accounts : entries'[s][a] = 0
           /\ RollBackInvoice(s)
           /\ excused' = excused \cup ({payment[s].customer} \cap Customers)
  <1>1. /\ payment \in [Sessions -> PaymentRow] /\ entries \in [Sessions -> [Accounts -> Int]]
    BY DEF Inv, Rows
  <1>2. entries'[s] = [a \in Accounts |-> entries[s][a] - entries[s][a]]
    BY <1>1 DEF ReverseCredit
  <1>3. \A a \in Accounts : entries[s][a] - entries[s][a] = 0
    BY <1>1
  <1>4. payment'[s] = [payment[s] EXCEPT !.status = "refunded"]
    BY <1>1 DEF ReverseCredit
  <1>5. Others(s)
    BY <1>1 DEF ReverseCredit, Others
  <1>6. QED
    BY <1>2, <1>3, <1>4, <1>5 DEF ReverseCredit

LEMMA ReattributeRows ==
    ASSUME Inv, RowsInv, NEW s \in Sessions, NEW c \in Customers, Reattribute(s, c)
    PROVE  /\ exception[s] = "open"
           /\ Others(s) /\ UNCHANGED <<invoices, moved, refund, applier, excused>>
           /\ payment'[s] = [payment[s] EXCEPT !.customer = c, !.status = "reconciled"]
           /\ entries'[s]["cash"] = entries[s]["cash"]
           /\ entries'[s]["fees"] = entries[s]["fees"]
           /\ entries'[s]["receivable"] = entries[s]["receivable"]
           /\ entries'[s]["suspense"] = entries[s]["suspense"] - payment[s].gross
           /\ entries'[s]["credit"] = entries[s]["credit"] + payment[s].gross
           /\ exception'[s] = "resolved"
           /\ exception' \in [Sessions -> {"none", "open", "resolved"}]
  <1>1. /\ payment \in [Sessions -> PaymentRow] /\ entries \in [Sessions -> [Accounts -> Int]]
        /\ exception \in [Sessions -> {"none", "open", "resolved"}]
    BY DEF Inv, Rows, RowsInv, Tables
  <1> DEFINE gross == payment[s].gross
             e == [entries[s] EXCEPT !["suspense"] = @ - gross, !["credit"] = @ + gross]
  <1>2. payment' = [payment EXCEPT ![s] = [payment[s] EXCEPT !.customer = c, !.status = "reconciled"]]
    BY <1>1 DEF Reattribute
  <1>3. entries' = [entries EXCEPT ![s] = e]
    BY <1>1 DEF Reattribute
  <1>4. /\ exception[s] = "open" /\ exception' = [exception EXCEPT ![s] = "resolved"]
        /\ UNCHANGED <<invoices, moved, refund, applier, excused>>
    BY DEF Reattribute
  <1> HIDE DEF gross
  <1>5. /\ e["cash"] = entries[s]["cash"] /\ e["fees"] = entries[s]["fees"]
        /\ e["receivable"] = entries[s]["receivable"]
        /\ e["suspense"] = entries[s]["suspense"] - gross
        /\ e["credit"] = entries[s]["credit"] + gross
    <2>1. entries[s] \in [Accounts -> Int]
      BY <1>1
    <2>2. QED
      BY <2>1 DEF Accounts
  <1> HIDE DEF e
  <1>6. Others(s)
    BY <1>1, <1>2, <1>3, <1>4 DEF Others
  <1>7. entries'[s] = e
    BY <1>1, <1>3
  <1>8. QED
    BY <1>1, <1>2, <1>4, <1>5, <1>6, <1>7 DEF gross

LEMMA PayOutRefundRows ==
    ASSUME Inv, RowsInv, NEW s \in Sessions, PayOutRefund(s)
    PROVE  /\ refund[s].status = "approved"
           /\ Others(s) /\ UNCHANGED <<invoices, payment, moved, exception, applier, excused>>
           /\ refund'[s] = [refund[s] EXCEPT !.status = "sent"]
           /\ entries'[s]["cash"] = entries[s]["cash"] - refund[s].amount
           /\ entries'[s]["fees"] = entries[s]["fees"]
           /\ entries'[s]["receivable"] = entries[s]["receivable"]
           /\ entries'[s]["suspense"] = entries[s]["suspense"]
           /\ entries'[s]["credit"] = entries[s]["credit"] - refund[s].amount
  <1>1. /\ refund \in [Sessions -> RefundRow] /\ entries \in [Sessions -> [Accounts -> Int]]
    BY DEF Inv, Rows
  <1> DEFINE amount == refund[s].amount
             e == [entries[s] EXCEPT !["credit"] = @ - amount, !["cash"] = @ - amount]
  <1>2. refund' = [refund EXCEPT ![s] = [refund[s] EXCEPT !.status = "sent"]]
    BY <1>1 DEF PayOutRefund
  <1>3. entries' = [entries EXCEPT ![s] = e]
    BY <1>1 DEF PayOutRefund
  <1>4. /\ refund[s].status = "approved"
        /\ UNCHANGED <<invoices, payment, moved, exception, applier, excused>>
    BY DEF PayOutRefund
  <1> HIDE DEF amount
  <1>5. /\ e["cash"] = entries[s]["cash"] - amount /\ e["fees"] = entries[s]["fees"]
        /\ e["receivable"] = entries[s]["receivable"]
        /\ e["suspense"] = entries[s]["suspense"]
        /\ e["credit"] = entries[s]["credit"] - amount
    <2>1. entries[s] \in [Accounts -> Int]
      BY <1>1
    <2>2. QED
      BY <2>1 DEF Accounts
  <1> HIDE DEF e
  <1>6. Others(s)
    BY <1>1, <1>2, <1>3, <1>4 DEF Others
  <1>7. entries'[s] = e
    BY <1>1, <1>3
  <1>8. refund'[s] = [refund[s] EXCEPT !.status = "sent"]
    BY <1>1, <1>2
  <1>9. QED
    BY <1>4, <1>5, <1>6, <1>7, <1>8 DEF amount

(* Approval, a failed payout and a returned one change one row's status.   *)
LEMMA DecisionRows ==
    ASSUME Inv, RowsInv, NEW s \in Sessions,
           ApproveRefund(s) \/ FailRefund(s) \/ ReturnPayout(s)
    PROVE  /\ Others(s) /\ UNCHANGED <<invoices, payment, entries, moved, exception, applier>>
           /\ refund[s].status # "none" /\ refund'[s].status \in {"approved", "failed"}
           /\ refund'[s].amount = refund[s].amount
           /\ \/ /\ refund[s].status \in {"pending_approval", "approved", "failed"}
                 /\ refund'[s].returned = refund[s].returned /\ excused' = excused
              \/ /\ refund[s].status = "sent" /\ refund'[s].returned
                 /\ excused' = excused \cup {payment[s].customer}
  <1>1. refund \in [Sessions -> RefundRow]
    BY DEF Inv, Rows
  <1>2. CASE ApproveRefund(s)
    BY <1>1, <1>2 DEF ApproveRefund, Others, RefundRow
  <1>3. CASE FailRefund(s)
    BY <1>1, <1>3 DEF FailRefund, Others, RefundRow
  <1>4. CASE ReturnPayout(s)
    BY <1>1, <1>4 DEF ReturnPayout, Others, RefundRow
  <1>5. QED
    BY <1>2, <1>3, <1>4

-----------------------------------------------------------------------------
(* The rows of a session after its own step, and after another's.          *)
LEMMA OtherRowInv ==
    ASSUME NEW s \in Sessions, NEW t \in Sessions, t # s, Others(s), RowInv(t),
           excused \subseteq excused'
    PROVE  RowInv(t)'
  BY DEF Others, RowInv, OriginOf, SuspenseOf, ExplainedOf, PaidOutOf

LEMMA ReconcileCustomerRow ==
    ASSUME Inv, Inv', RowsInv, NEW s \in Sessions, NEW c \in Customers,
           NEW gross \in Grosses, NEW fee \in Fees, ReconcileCustomer(s, c, gross, fee)
    PROVE  RowInv(s)'
  <1>0. PICK rem \in Runs(gross, invoices[c]) : Credited(s, c, gross, fee, rem)
    BY ReconcileCustomerRows
  <1>1. /\ rem[Len(invoices[c])] \in Nat /\ rem[Len(invoices[c])] <= gross
        /\ payment'[s].status = "reconciled"
        /\ payment'[s].label = Classification(gross, invoices[c], rem)
        /\ payment'[s].customer = c /\ payment'[s].gross = gross /\ payment'[s].fee = fee
        /\ entries'[s] = SurplusPostings(gross, fee, rem[Len(invoices[c])])
        /\ IF RefundAmount(invoices[c], rem) = 0 THEN refund'[s] = refund[s]
           ELSE /\ refund'[s].status = "pending_approval"
                /\ refund'[s].returned = FALSE
    BY <1>0 DEF Credited
  <1>2. /\ payment[s].status = "none" /\ gross \in Nat /\ fee \in Nat /\ gross > 0
        /\ UNCHANGED <<moved, exception, applier, excused>>
    BY ReconcileCustomerRows
  <1>3. exception[s] = "none" /\ refund[s].status = "none" /\ ~refund[s].returned
    BY <1>2 DEF RowsInv, RowInv, OriginOf
  <1> DEFINE surplus == rem[Len(invoices[c])]
  <1>4. /\ entries'[s]["receivable"] = gross - surplus /\ entries'[s]["credit"] = surplus
        /\ entries'[s]["suspense"] = 0 /\ entries'[s]["fees"] = fee
    BY <1>1 DEF SurplusPostings, Nothing, Accounts
  <1>5. refund'[s].status # "sent" /\ ~refund'[s].returned
    BY <1>1, <1>3
  <1>6. c # NoCustomer
    BY NoCustomerAssumption
  <1>7. payment'[s].label # "none"
    BY <1>1 DEF Classification
  <1>8. surplus \in Nat /\ surplus <= gross
    BY <1>1
  <1>9. exception'[s] = "none"
    BY <1>2, <1>3
  <1> HIDE DEF surplus
  <1>10. OriginOf(s)' /\ SuspenseOf(s)'
    BY <1>1, <1>2, <1>4, <1>6, <1>7, <1>8, <1>9 DEF OriginOf, SuspenseOf
  <1>11. ExplainedOf(s)'
    BY <1>1, <1>2, <1>4, <1>5, <1>8 DEF ExplainedOf, PaidOutOf
  <1>12. QED
    BY <1>10, <1>11 DEF RowInv

LEMMA ReconcileOrphanRow ==
    ASSUME Inv, Inv', RowsInv, NEW s \in Sessions,
           NEW gross \in Grosses, NEW fee \in Fees, ReconcileOrphan(s, gross, fee)
    PROVE  RowInv(s)'
  <1>1. /\ payment[s].status = "none" /\ gross \in Nat /\ fee \in Nat /\ gross > 0
        /\ UNCHANGED <<invoices, moved, refund, applier, excused>>
        /\ payment'[s].status = "in_exception" /\ payment'[s].label = "orphan"
        /\ payment'[s].gross = gross /\ payment'[s].fee = fee /\ payment'[s].customer = NoCustomer
        /\ payment'[s].matched = 0 /\ payment'[s].touched = 0
        /\ entries'[s] = OrphanPostings(gross, fee)
        /\ exception'[s] = "open"
    BY ReconcileOrphanRows
  <1>3. /\ entries'[s]["receivable"] = 0 /\ entries'[s]["credit"] = 0
        /\ entries'[s]["fees"] = fee
    BY <1>1 DEF OrphanPostings, Nothing, Accounts
  <1>4. refund'[s].status = "none" /\ ~refund'[s].returned
    BY <1>1 DEF RowsInv, RowInv, OriginOf
  <1>5. QED
    BY <1>1, <1>3, <1>4 DEF RowInv, OriginOf, SuspenseOf, ExplainedOf

LEMMA ReverseCreditRow ==
    ASSUME Inv, Inv', RowsInv, NEW s \in Sessions, ReverseCredit(s)
    PROVE  RowInv(s)'
  <1>1. /\ payment[s].status \notin {"none", "refunded"}
        /\ UNCHANGED <<exception, refund>>
        /\ payment'[s] = [payment[s] EXCEPT !.status = "refunded"]
        /\ \A a \in Accounts : entries'[s][a] = 0
        /\ excused' = excused \cup ({payment[s].customer} \cap Customers)
    BY ReverseCreditRows
  <1>2. payment[s] \in PaymentRow
    BY DEF Inv, Rows
  <1>3. /\ payment'[s].status = "refunded" /\ payment'[s].label = payment[s].label
        /\ payment'[s].gross = payment[s].gross /\ payment'[s].customer = payment[s].customer
        /\ payment'[s].matched = payment[s].matched /\ payment'[s].touched = payment[s].touched
    BY <1>1, <1>2 DEF PaymentRow
  <1>4. /\ entries'[s]["receivable"] = 0 /\ entries'[s]["credit"] = 0
        /\ entries'[s]["suspense"] = 0
    BY <1>1 DEF Accounts
  <1>5. payment[s].customer # NoCustomer => payment[s].customer \in excused'
    BY <1>1, <1>2 DEF PaymentRow
  <1>6. RowInv(s)
    BY DEF RowsInv
  <1>7. QED
    BY <1>1, <1>3, <1>4, <1>5, <1>6 DEF RowInv, OriginOf, SuspenseOf, ExplainedOf

LEMMA ReattributeRow ==
    ASSUME Inv, Inv', RowsInv, NEW s \in Sessions, NEW c \in Customers, Reattribute(s, c)
    PROVE  RowInv(s)'
  <1>1. /\ exception[s] = "open" /\ UNCHANGED refund
        /\ payment'[s] = [payment[s] EXCEPT !.customer = c, !.status = "reconciled"]
        /\ entries'[s]["fees"] = entries[s]["fees"]
        /\ entries'[s]["receivable"] = entries[s]["receivable"]
        /\ entries'[s]["suspense"] = entries[s]["suspense"] - payment[s].gross
        /\ entries'[s]["credit"] = entries[s]["credit"] + payment[s].gross
        /\ exception'[s] = "resolved"
    BY ReattributeRows
  <1>2. payment[s] \in PaymentRow /\ payment[s].gross \in Nat
    BY DEF Inv, Rows, PaymentRow
  <1>3. /\ payment'[s].status = "reconciled" /\ payment'[s].label = payment[s].label
        /\ payment'[s].gross = payment[s].gross /\ payment'[s].customer = c
        /\ payment'[s].fee = payment[s].fee
    BY <1>1, <1>2 DEF PaymentRow
  <1>4. RowInv(s)
    BY DEF RowsInv
  <1>5. /\ entries[s]["credit"] = 0 /\ entries[s]["receivable"] = 0
        /\ payment[s].label = "orphan" /\ payment[s].gross > 0
        /\ refund[s].status = "none" /\ ~refund[s].returned
        /\ payment[s].status \in {"in_exception", "refunded"}
    BY <1>1, <1>4 DEF RowInv, OriginOf
  <1>6. c # NoCustomer
    BY NoCustomerAssumption
  <1>7. entries[s]["suspense"] \in Int
    BY DEF Inv, Rows, Accounts
  <1>8. /\ payment[s].status = "in_exception" => /\ entries[s]["suspense"] = payment[s].gross
                                                 /\ entries[s]["fees"] = payment[s].fee
        /\ payment[s].status = "refunded" => entries[s]["suspense"] <= 0
    BY <1>4 DEF Inv, PaymentsBalanced, RowInv, OriginOf, SuspenseOf
  <1>9. OriginOf(s)'
    BY <1>1, <1>3, <1>5, <1>6 DEF OriginOf
  <1>10. SuspenseOf(s)'
    BY <1>1, <1>2, <1>3, <1>5, <1>7, <1>8 DEF SuspenseOf
  <1>11. ExplainedOf(s)'
    <2>1. entries'[s]["suspense"] = 0 => payment[s].status = "in_exception"
      BY <1>1, <1>2, <1>5, <1>7, <1>8
    <2>2. entries'[s]["receivable"] + entries'[s]["credit"] + PaidOutOf(s)' = payment'[s].gross
      BY <1>1, <1>2, <1>3, <1>5 DEF PaidOutOf
    <2>3. QED
      BY <1>1, <1>3, <1>5, <1>8, <2>1, <2>2 DEF ExplainedOf
  <1>12. QED
    BY <1>9, <1>10, <1>11 DEF RowInv

LEMMA PayOutRefundRow ==
    ASSUME Inv, Inv', RowsInv, NEW s \in Sessions, PayOutRefund(s)
    PROVE  RowInv(s)'
  <1>1. /\ refund[s].status = "approved" /\ UNCHANGED <<payment, exception, excused>>
        /\ refund'[s] = [refund[s] EXCEPT !.status = "sent"]
        /\ entries'[s]["fees"] = entries[s]["fees"]
        /\ entries'[s]["receivable"] = entries[s]["receivable"]
        /\ entries'[s]["suspense"] = entries[s]["suspense"]
        /\ entries'[s]["credit"] = entries[s]["credit"] - refund[s].amount
    BY PayOutRefundRows
  <1>2. refund[s] \in RefundRow /\ refund[s].amount \in Nat
    BY DEF Inv, Rows, RefundRow
  <1>3. /\ refund'[s].status = "sent" /\ refund'[s].amount = refund[s].amount
        /\ refund'[s].returned = refund[s].returned
    BY <1>1, <1>2 DEF RefundRow
  <1>4. RowInv(s)
    BY DEF RowsInv
  <1>5. payment[s].customer # NoCustomer
    BY <1>1, <1>4 DEF RowInv, OriginOf
  <1>6. OriginOf(s)' /\ SuspenseOf(s)'
    BY <1>1, <1>4, <1>5 DEF RowInv, OriginOf, SuspenseOf
  <1>7. ExplainedOf(s)'
    <2>1. entries[s]["receivable"] \in Int /\ entries[s]["credit"] \in Int
      BY DEF Inv, Rows, Accounts
    <2>2. PaidOutOf(s) = 0 /\ PaidOutOf(s)' = refund[s].amount
      BY <1>1, <1>3 DEF PaidOutOf
    <2>3. entries'[s]["receivable"] + entries'[s]["credit"] + PaidOutOf(s)'
            = entries[s]["receivable"] + entries[s]["credit"] + PaidOutOf(s)
      BY <1>1, <1>2, <2>1, <2>2
    <2>4. QED
      BY <1>1, <1>3, <1>4, <2>3 DEF RowInv, ExplainedOf
  <1>8. QED
    BY <1>6, <1>7 DEF RowInv

LEMMA DecisionRow ==
    ASSUME Inv, Inv', RowsInv, NEW s \in Sessions,
           ApproveRefund(s) \/ FailRefund(s) \/ ReturnPayout(s)
    PROVE  RowInv(s)'
  <1>1. /\ UNCHANGED <<payment, entries, exception>>
        /\ refund[s].status # "none" /\ refund'[s].status \in {"approved", "failed"}
        /\ \/ /\ refund[s].status \in {"pending_approval", "approved", "failed"}
              /\ refund'[s].returned = refund[s].returned /\ excused' = excused
           \/ /\ refund[s].status = "sent" /\ refund'[s].returned
              /\ excused' = excused \cup {payment[s].customer}
    BY DecisionRows
  <1>2. RowInv(s)
    BY DEF RowsInv
  <1>3. payment[s].customer # NoCustomer
    BY <1>1, <1>2 DEF RowInv, OriginOf
  <1>4. OriginOf(s)' /\ SuspenseOf(s)'
    BY <1>1, <1>2, <1>3 DEF RowInv, OriginOf, SuspenseOf
  <1>5. ExplainedOf(s)'
    BY <1>1, <1>2, <1>3 DEF RowInv, ExplainedOf, PaidOutOf
  <1>6. QED
    BY <1>4, <1>5 DEF RowInv

-----------------------------------------------------------------------------
(* The other two tables keep their types.                                  *)
LEMMA SumsInt ==
    ASSUME Inv, RowsInv, NEW c
    PROVE  /\ c \in Customers => CreditBalance(c) \in Int
           /\ Reserved(c) \in Nat
  <1> DEFINE f == [s \in PaymentsOf(c) |-> entries[s]["credit"]]
             owed == {s \in PaymentsOf(c) :
                         refund[s].status \in {"pending_approval", "approved", "failed"}}
             g == [s \in owed |-> refund[s].amount]
  <1>1. PaymentsOf(c) \in SUBSET Sessions /\ owed \in SUBSET Sessions
    BY DEF PaymentsOf
  <1>2. IsFiniteSet(PaymentsOf(c)) /\ IsFiniteSet(owed)
    BY <1>1, SessionsAssumption, FS_Subset
  <1>3. DOMAIN f = PaymentsOf(c) /\ \A s \in PaymentsOf(c) : f[s] \in Int
    BY <1>1 DEF Inv, Rows, Accounts
  <1>4. DOMAIN g = owed /\ \A s \in owed : g[s] \in Nat
    BY <1>1 DEF Inv, Rows, RefundRow
  <1>5. CreditBalance(c) = SumFunctionOnSet(f, PaymentsOf(c)) - moved[c]
    BY <1>3 DEF CreditBalance, SumFunction
  <1>6. Reserved(c) = SumFunctionOnSet(g, owed)
    BY <1>4 DEF Reserved, SumFunction
  <1> HIDE DEF f, g, owed
  <1>7. SumFunctionOnSet(f, PaymentsOf(c)) \in Int
    BY <1>2, <1>3, SumInt
  <1>8. SumFunctionOnSet(g, owed) \in Nat
    BY <1>2, <1>4, SumNat
  <1>9. c \in Customers => moved[c] \in Int
    BY DEF RowsInv, Tables
  <1>10. QED
    BY <1>5, <1>6, <1>7, <1>8, <1>9

LEMMA ReadBalanceTables ==
    ASSUME Inv, RowsInv, NEW a \in Appliers, NEW c \in Customers, ReadBalance(a, c)
    PROVE  Tables'
  <1> DEFINE row == [pc |-> "balance", customer |-> c, balance |-> CreditBalance(c), available |-> 0]
  <1>1. row \in ApplierRow /\ row.customer = c
    BY SumsInt DEF ApplierRow
  <1>2. applier' = [applier EXCEPT ![a] = row] /\ UNCHANGED <<moved, exception>>
    BY DEF ReadBalance
  <1> HIDE DEF row
  <1>3. QED
    BY <1>1, <1>2 DEF RowsInv, Tables

LEMMA ReservedRow ==
    ASSUME NEW row \in ApplierRow, NEW n \in Nat
    PROVE  LET kept == [row EXCEPT !.pc = "reserved", !.balance = 0, !.available = n]
           IN  kept \in ApplierRow /\ kept.customer = row.customer
  <1> DEFINE at == [row EXCEPT !.pc = "reserved"]
             cleared == [at EXCEPT !.balance = 0]
             kept == [cleared EXCEPT !.available = n]
  <1>1. at \in ApplierRow /\ at.customer = row.customer
    BY DEF ApplierRow
  <1> HIDE DEF at
  <1>2. cleared \in ApplierRow /\ cleared.customer = row.customer
    BY <1>1 DEF ApplierRow
  <1> HIDE DEF cleared
  <1>3. kept \in ApplierRow /\ kept.customer = row.customer
    BY <1>2 DEF ApplierRow
  <1>4. QED
    BY <1>3 DEF cleared, at

LEMMA ReadReservedTables ==
    ASSUME Inv, RowsInv, NEW a \in Appliers, ReadReserved(a)
    PROVE  Tables'
  <1> DEFINE available == applier[a].balance - Reserved(applier[a].customer)
             kept == [applier[a] EXCEPT !.pc = "reserved", !.balance = 0, !.available = available]
             row == IF available <= 0 THEN IdleApplier ELSE kept
  <1>1. applier[a] \in ApplierRow /\ applier[a].pc = "balance" /\ applier[a].customer \in Customers
    BY DEF RowsInv, Tables, ReadReserved
  <1>2. available \in Int
    BY <1>1, SumsInt DEF ApplierRow
  <1>3. applier' = [applier EXCEPT ![a] = row] /\ UNCHANGED <<moved, exception>>
    BY DEF ReadReserved, RowsInv, Tables
  <1> HIDE DEF available
  <1>4. ASSUME available > 0
        PROVE  kept \in ApplierRow /\ kept.customer = applier[a].customer
    <2>1. available \in Nat
      BY <1>2, <1>4
    <2>2. QED
      BY <1>1, <2>1, ReservedRow
  <1>5. IdleApplier \in ApplierRow /\ IdleApplier.pc = "idle"
    BY DEF IdleApplier, ApplierRow
  <1>6. row \in ApplierRow /\ (row.pc # "idle" => row.customer \in Customers)
    BY <1>1, <1>2, <1>4, <1>5
  <1> HIDE DEF row
  <1>7. QED
    BY <1>3, <1>6 DEF RowsInv, Tables

(* What an application of credit does: `applied` leaves the credit.        *)
LEMMA LockAndApplyRows ==
    ASSUME Inv, RowsInv, NEW a \in Appliers, LockAndApply(a)
    PROVE  LET c == applier[a].customer
               available == applier[a].available
           IN  /\ c \in Customers /\ available \in Nat
               /\ \E rem \in Runs(available, invoices[c]) :
                     /\ rem[Len(invoices[c])] \in Nat /\ rem[Len(invoices[c])] <= available
                     /\ invoices' = [invoices EXCEPT ![c] = Poured(rem, invoices[c])]
                     /\ moved' = [moved EXCEPT ![c] =
                                      moved[c] + (available - rem[Len(invoices[c])])]
               /\ available > CreditBalance(c) - Reserved(c) => c \in excused'
               /\ excused \subseteq excused'
               /\ UNCHANGED <<payment, entries, exception, refund>>
               /\ Tables'
  <1> DEFINE c == applier[a].customer
             available == applier[a].available
             invs == invoices[c]
  <1>1. /\ applier \in [Appliers -> ApplierRow] /\ applier[a].pc = "reserved"
        /\ moved \in [Customers -> Int] /\ exception \in [Sessions -> {"none", "open", "resolved"}]
    BY DEF LockAndApply, RowsInv, Tables
  <1>2. c \in Customers /\ available \in Nat
    BY <1>1 DEF ApplierRow, RowsInv, Tables
  <1>3. invoices \in [Customers -> Seq(Invoice)] /\ invs \in Seq(Invoice)
    BY <1>2 DEF Inv, InvoicesInv
  <1>4. PICK rem \in Runs(available, invs) :
            /\ invoices' = [invoices EXCEPT ![c] = Poured(rem, invs)]
            /\ moved' = [moved EXCEPT ![c] = moved[c] + available - rem[Len(invs)]]
    BY <1>1, <1>2, <1>3 DEF LockAndApply
  <1>5. rem[Len(invs)] \in 0..available
    <2>1. Len(invs) \in 0..Len(invs)
      BY <1>3, LenProperties
    <2>2. QED
      BY <2>1 DEF Runs
  <1>6. rem[Len(invs)] \in Nat /\ rem[Len(invs)] <= available
    BY <1>2, <1>5
  <1>7. moved[c] \in Int
    BY <1>1, <1>2
  <1>8. moved[c] + available - rem[Len(invs)] = moved[c] + (available - rem[Len(invs)])
        /\ moved[c] + available - rem[Len(invs)] \in Int
    BY <1>2, <1>6, <1>7
  <1>9. applier' = [applier EXCEPT ![a] = IdleApplier]
        /\ UNCHANGED <<payment, entries, exception, refund>>
    BY DEF LockAndApply
  <1>10. IdleApplier \in ApplierRow /\ IdleApplier.pc = "idle"
    BY DEF IdleApplier, ApplierRow
  <1>11. Tables'
    <2>1. moved' \in [Customers -> Int]
      BY <1>1, <1>4, <1>8
    <2>2. applier' \in [Appliers -> ApplierRow]
      BY <1>1, <1>9, <1>10
    <2>3. \A b \in Appliers : applier'[b].pc # "idle" => applier'[b].customer \in Customers
      BY <1>1, <1>9, <1>10 DEF RowsInv, Tables
    <2>4. QED
      BY <1>1, <1>9, <2>1, <2>2, <2>3 DEF Tables
  <1>12. /\ available > CreditBalance(c) - Reserved(c) => c \in excused'
         /\ excused \subseteq excused'
    BY DEF LockAndApply
  <1>13. moved' = [moved EXCEPT ![c] = moved[c] + (available - rem[Len(invs)])]
    BY <1>4, <1>8
  <1>14. QED
    BY <1>2, <1>4, <1>6, <1>9, <1>11, <1>12, <1>13

-----------------------------------------------------------------------------
LEMMA RowsInit == Init => RowsInv
  <1> SUFFICES ASSUME Init PROVE RowsInv
    OBVIOUS
  <1>1. IdleApplier \in ApplierRow /\ IdleApplier.pc = "idle"
    BY DEF IdleApplier, ApplierRow
  <1>2. Tables
    BY <1>1 DEF Init, Tables
  <1>3. ASSUME NEW s \in Sessions PROVE RowInv(s)
    <2>1. /\ payment[s] = NoPayment /\ entries[s] = Nothing
          /\ exception[s] = "none" /\ refund[s] = NoRefund
      BY DEF Init
    <2>2. /\ Nothing["suspense"] = 0 /\ Nothing["credit"] = 0 /\ Nothing["receivable"] = 0
      BY DEF Nothing, Accounts
    <2>3. QED
      BY <2>1, <2>2 DEF NoPayment, NoRefund, RowInv, OriginOf, SuspenseOf, ExplainedOf
  <1>4. QED
    BY <1>2, <1>3 DEF RowsInv

LEMMA PaymentRowsStep ==
    ASSUME Inv, Inv', RowsInv, NEW s \in Sessions, PaymentStep(s)
    PROVE  RowsInv' /\ Others(s) /\ moved' = moved /\ excused \subseteq excused'
  <1>0. Tables /\ (\A t \in Sessions : RowInv(t))
    BY DEF RowsInv
  <1> DEFINE Goal == /\ RowInv(s)' /\ Tables' /\ Others(s)
                     /\ moved' = moved /\ excused \subseteq excused'
  <1>1. ASSUME NEW c \in Customers, NEW gross \in Grosses, NEW fee \in Fees,
               ReconcileCustomer(s, c, gross, fee)
        PROVE  Goal
    BY <1>0, <1>1, ReconcileCustomerRows, ReconcileCustomerRow DEF Tables
  <1>2. ASSUME NEW gross \in Grosses, NEW fee \in Fees, ReconcileOrphan(s, gross, fee)
        PROVE  Goal
    BY <1>0, <1>2, ReconcileOrphanRows, ReconcileOrphanRow DEF Tables
  <1>3. ASSUME ReverseCredit(s) PROVE Goal
    BY <1>0, <1>3, ReverseCreditRows, ReverseCreditRow DEF Tables
  <1>4. ASSUME ResolveException(s) PROVE Goal
    <2>1. RowInv(s)'
      <3>1. /\ exception[s] = "open" /\ exception'[s] = "resolved"
            /\ UNCHANGED <<payment, entries, refund, excused>> /\ RowInv(s)
        BY <1>0, <1>4 DEF ResolveException, Tables
      <3>2. QED
        BY <3>1 DEF RowInv, OriginOf, SuspenseOf, ExplainedOf, PaidOutOf
    <2>2. QED
      BY <1>0, <1>4, <2>1 DEF ResolveException, Tables, Others
  <1>5. ASSUME NEW c \in Customers, Reattribute(s, c) PROVE Goal
    BY <1>0, <1>5, ReattributeRows, ReattributeRow DEF Tables
  <1>6. ASSUME ApproveRefund(s) \/ FailRefund(s) \/ ReturnPayout(s) PROVE Goal
    BY <1>0, <1>6, DecisionRows, DecisionRow DEF Tables
  <1>7. ASSUME PayOutRefund(s) PROVE Goal
    BY <1>0, <1>7, PayOutRefundRows, PayOutRefundRow DEF Tables
  <1>8. Goal
    <2> HIDE DEF Goal
    <2>1. QED
      BY <1>1, <1>2, <1>3, <1>4, <1>5, <1>6, <1>7 DEF PaymentStep
  <1>9. \A t \in Sessions : RowInv(t)'
    BY <1>0, <1>8, OtherRowInv
  <1>10. QED
    BY <1>8, <1>9 DEF RowsInv

LEMMA RowsStep == Inv /\ Inv' /\ RowsInv /\ [Next]_vars => RowsInv'
  <1> SUFFICES ASSUME Inv, Inv', RowsInv, [Next]_vars PROVE RowsInv'
    OBVIOUS
  <1>0. Tables /\ (\A t \in Sessions : RowInv(t))
    BY DEF RowsInv
  <1>1. ASSUME UNCHANGED <<payment, entries, exception, refund>>, excused \subseteq excused', Tables'
        PROVE  RowsInv'
    <2>1. ASSUME NEW t \in Sessions PROVE RowInv(t)'
      BY <1>0, <1>1 DEF RowInv, OriginOf, SuspenseOf, ExplainedOf, PaidOutOf
    <2>2. QED
      BY <1>1, <2>1 DEF RowsInv
  <1>2. ASSUME NEW c \in Customers, NEW amount \in InvoiceAmounts, CreateInvoice(c, amount)
        PROVE  RowsInv'
    BY <1>0, <1>1, <1>2 DEF CreateInvoice, Tables
  <1>3. ASSUME NEW s \in Sessions, PaymentStep(s) PROVE RowsInv'
    BY <1>3, PaymentRowsStep
  <1>4. ASSUME NEW a \in Appliers, NEW c \in Customers, ReadBalance(a, c) PROVE RowsInv'
    BY <1>1, <1>4, ReadBalanceTables DEF ReadBalance
  <1>5. ASSUME NEW a \in Appliers, ReadReserved(a) PROVE RowsInv'
    BY <1>1, <1>5, ReadReservedTables DEF ReadReserved
  <1>6. ASSUME NEW a \in Appliers, LockAndApply(a) PROVE RowsInv'
    BY <1>1, <1>6, LockAndApplyRows
  <1>7. CASE UNCHANGED vars
    BY <1>0, <1>1, <1>7 DEF vars, Tables
  <1>8. QED
    BY <1>2, <1>3, <1>4, <1>5, <1>6, <1>7 DEF Next

-----------------------------------------------------------------------------
(* Credit covers refunds.  What a payment leaves of its customer's credit  *)
(* once its own refund is set aside; no transaction lowers it but those    *)
(* that excuse the customer, and applications take no more than it.        *)
OwedOf(s) ==
    IF refund[s].status \in {"pending_approval", "approved", "failed"}
      THEN refund[s].amount ELSE 0

SlackAt(c, s) == IF payment[s].customer = c THEN entries[s]["credit"] - OwedOf(s) ELSE 0

SlackOf(c) == [s \in Sessions |-> SlackAt(c, s)]

Slack(c) == SumFunctionOnSet(SlackOf(c), Sessions) - moved[c]

Covered == \A c \in Customers \ excused : Slack(c) >= 0

LEMMA SlackAtInt == Inv => \A c, s : s \in Sessions => SlackAt(c, s) \in Int
  BY DEF Inv, Rows, Accounts, RefundRow, SlackAt, OwedOf

LEMMA SlackIs ==
    ASSUME Inv, RowsInv, NEW c \in Customers
    PROVE  CreditBalance(c) - Reserved(c) = Slack(c)
  <1> DEFINE owed == {s \in PaymentsOf(c) :
                         refund[s].status \in {"pending_approval", "approved", "failed"}}
             f == [s \in PaymentsOf(c) |-> entries[s]["credit"]]
             g == [s \in owed |-> refund[s].amount]
             F == [s \in Sessions |-> IF s \in PaymentsOf(c) THEN f[s] ELSE 0]
             G == [s \in Sessions |-> IF s \in owed THEN g[s] ELSE 0]
  <1>1. PaymentsOf(c) \in SUBSET Sessions /\ owed \in SUBSET Sessions /\ IsFiniteSet(Sessions)
    BY SessionsAssumption DEF PaymentsOf
  <1>2. DOMAIN f = PaymentsOf(c) /\ \A s \in PaymentsOf(c) : f[s] \in Int
    BY <1>1 DEF Inv, Rows, Accounts
  <1>3. DOMAIN g = owed /\ \A s \in owed : g[s] \in Int
    BY <1>1 DEF Inv, Rows, RefundRow
  <1>4. /\ \A s \in Sessions : F[s] = IF s \in PaymentsOf(c) THEN f[s] ELSE 0
        /\ \A s \in Sessions : G[s] = IF s \in owed THEN g[s] ELSE 0
    OBVIOUS
  <1>5. \A s \in Sessions : SlackOf(c)[s] \in Int /\ G[s] \in Int /\ F[s] = SlackOf(c)[s] + G[s]
    <2> SUFFICES ASSUME NEW s \in Sessions
                 PROVE  SlackOf(c)[s] \in Int /\ G[s] \in Int /\ F[s] = SlackOf(c)[s] + G[s]
      OBVIOUS
    <2>1. entries[s]["credit"] \in Int /\ refund[s].amount \in Int
      BY DEF Inv, Rows, Accounts, RefundRow
    <2>2. F[s] = IF payment[s].customer = c THEN entries[s]["credit"] ELSE 0
      BY DEF PaymentsOf
    <2>3. G[s] = IF payment[s].customer = c THEN OwedOf(s) ELSE 0
      BY DEF PaymentsOf, OwedOf
    <2>4. SlackOf(c)[s] = SlackAt(c, s) /\ OwedOf(s) \in Int
      BY <2>1 DEF SlackOf, OwedOf
    <2> HIDE DEF F, G
    <2>5. QED
      BY <2>1, <2>2, <2>3, <2>4 DEF SlackAt
  <1>6. CreditBalance(c) = SumFunction(f) - moved[c] /\ Reserved(c) = SumFunction(g)
    BY DEF CreditBalance, Reserved
  <1> HIDE DEF f, g, F, G, owed
  <1>7. SumFunction(f) = SumFunctionOnSet(F, Sessions)
    BY <1>1, <1>2, <1>4, SumOver
  <1>8. SumFunction(g) = SumFunctionOnSet(G, Sessions)
    BY <1>1, <1>3, <1>4, SumOver
  <1>9. SumFunctionOnSet(F, Sessions)
          = SumFunctionOnSet(SlackOf(c), Sessions) + SumFunctionOnSet(G, Sessions)
    BY <1>1, <1>5, SumPlus
  <1>10. SumFunctionOnSet(SlackOf(c), Sessions) \in Int /\ SumFunctionOnSet(G, Sessions) \in Int
    BY <1>1, <1>5, SumInt
  <1>11. moved[c] \in Int
    BY DEF RowsInv, Tables
  <1>12. QED
    BY <1>6, <1>7, <1>8, <1>9, <1>10, <1>11 DEF Slack

LEMMA SlackKept ==
    ASSUME Inv, Inv', RowsInv, Covered, moved' = moved, excused \subseteq excused',
           \A c \in Customers \ excused' : \A s \in Sessions : SlackAt(c, s) <= SlackAt(c, s)'
    PROVE  Covered'
  <1> SUFFICES ASSUME NEW c \in Customers \ excused' PROVE Slack(c)' >= 0
    BY DEF Covered
  <1> DEFINE f == SlackOf(c)
             g == SlackOf(c)'
  <1>1. \A s \in Sessions : f[s] = SlackAt(c, s) /\ g[s] = SlackAt(c, s)'
    BY DEF SlackOf
  <1>2. \A s \in Sessions : SlackAt(c, s) \in Int /\ SlackAt(c, s)' \in Int
    <2>1. \A d, s : s \in Sessions => SlackAt(d, s) \in Int
      BY SlackAtInt
    <2>2. \A s \in Sessions : SlackAt(c, s)' \in Int
      BY DEF Inv, Rows, Accounts, RefundRow, SlackAt, OwedOf
    <2>3. QED
      BY <2>1, <2>2
  <1>3. \A s \in Sessions : f[s] \in Int /\ g[s] \in Int /\ f[s] <= g[s]
    BY <1>1, <1>2
  <1>4. Slack(c) >= 0 /\ Slack(c) = SumFunctionOnSet(f, Sessions) - moved[c]
    BY DEF Covered, Slack
  <1>5. Slack(c)' = SumFunctionOnSet(g, Sessions) - moved[c]
    BY DEF Slack
  <1>6. moved[c] \in Int
    BY DEF RowsInv, Tables
  <1> HIDE DEF f, g
  <1>7. SumFunctionOnSet(f, Sessions) \in Int /\ SumFunctionOnSet(g, Sessions) \in Int
    BY <1>3, SumInt, SessionsAssumption
  <1>8. SumFunctionOnSet(f, Sessions) <= SumFunctionOnSet(g, Sessions)
    BY <1>3, SumMonotone, SessionsAssumption
  <1>9. QED
    BY <1>4, <1>5, <1>6, <1>7, <1>8

LEMMA PaymentStepSlack ==
    ASSUME Inv, Inv', RowsInv, NEW s \in Sessions, PaymentStep(s), NEW c \in Customers \ excused'
    PROVE  SlackAt(c, s) <= SlackAt(c, s)'
  <1>1. RowInv(s) /\ c # NoCustomer
    BY NoCustomerAssumption DEF RowsInv
  <1>2. /\ entries[s]["credit"] \in Int /\ refund[s].amount \in Nat
        /\ entries'[s]["credit"] \in Int /\ refund'[s].amount \in Nat
    BY DEF Inv, Rows, Accounts, RefundRow
  <1>3. SlackAt(c, s) \in Int
    BY SlackAtInt
  <1>4. ASSUME NEW d \in Customers, NEW gross \in Grosses, NEW fee \in Fees,
               ReconcileCustomer(s, d, gross, fee)
        PROVE  SlackAt(c, s) <= SlackAt(c, s)'
    <2>1. PICK rem \in Runs(gross, invoices[d]) : Credited(s, d, gross, fee, rem)
      BY <1>4, ReconcileCustomerRows
    <2> DEFINE surplus == rem[Len(invoices[d])]
    <2>2. payment[s].status = "none"
      BY <1>4, ReconcileCustomerRows
    <2>3. refund[s].status = "none" /\ SlackAt(c, s) = 0
      BY <1>1, <2>2 DEF RowInv, OriginOf, SlackAt
    <2>4. entries'[s]["credit"] = surplus /\ surplus \in Nat /\ payment'[s].customer = d
      BY <2>1 DEF Credited, SurplusPostings, Nothing, Accounts
    <2>5. OwedOf(s)' \in {0, surplus}
      BY <2>1, <2>3 DEF OwedOf, Credited, RefundAmount
    <2> HIDE DEF surplus
    <2>6. QED
      BY <2>3, <2>4, <2>5 DEF SlackAt
  <1>5. ASSUME NEW gross \in Grosses, NEW fee \in Fees, ReconcileOrphan(s, gross, fee)
        PROVE  SlackAt(c, s) <= SlackAt(c, s)'
    <2>1. payment[s].status = "none" /\ payment'[s].customer = NoCustomer
      BY <1>5, ReconcileOrphanRows
    <2>2. QED
      BY <1>1, <2>1 DEF RowInv, OriginOf, SlackAt
  <1>6. CASE ReverseCredit(s)
    <2>1. /\ payment'[s] = [payment[s] EXCEPT !.status = "refunded"]
          /\ excused' = excused \cup ({payment[s].customer} \cap Customers)
      BY <1>6, ReverseCreditRows
    <2>2. payment[s] \in PaymentRow
      BY DEF Inv, Rows
    <2>3. payment'[s].customer = payment[s].customer
      BY <2>1, <2>2 DEF PaymentRow
    <2>4. payment[s].customer # c
      BY <2>1
    <2>5. QED
      BY <2>3, <2>4 DEF SlackAt
  <1>7. CASE ResolveException(s)
    BY <1>3, <1>7 DEF ResolveException, SlackAt, OwedOf
  <1>8. ASSUME NEW d \in Customers, Reattribute(s, d)
        PROVE  SlackAt(c, s) <= SlackAt(c, s)'
    <2>1. /\ exception[s] = "open" /\ refund' = refund
          /\ entries'[s]["credit"] = entries[s]["credit"] + payment[s].gross
      BY <1>8, ReattributeRows
    <2>2. /\ payment[s].customer = NoCustomer /\ refund[s].status = "none"
          /\ entries[s]["credit"] = 0
      BY <1>1, <2>1 DEF RowInv, OriginOf
    <2>3. payment[s].gross \in Nat
      BY DEF Inv, Rows, PaymentRow
    <2>4. SlackAt(c, s) = 0 /\ OwedOf(s)' = 0
      BY <1>1, <2>1, <2>2 DEF SlackAt, OwedOf
    <2>5. entries'[s]["credit"] \in Nat
      BY <2>1, <2>2, <2>3
    <2>6. QED
      BY <2>4, <2>5 DEF SlackAt
  <1>9. CASE ApproveRefund(s) \/ FailRefund(s) \/ ReturnPayout(s)
    <2>1. /\ UNCHANGED <<payment, entries>>
          /\ refund'[s].status \in {"approved", "failed"} /\ refund'[s].amount = refund[s].amount
          /\ \/ refund[s].status \in {"pending_approval", "approved", "failed"}
             \/ excused' = excused \cup {payment[s].customer}
      BY <1>9, DecisionRows
    <2>2. CASE refund[s].status \in {"pending_approval", "approved", "failed"}
      BY <1>3, <2>1, <2>2 DEF SlackAt, OwedOf
    <2>3. CASE excused' = excused \cup {payment[s].customer}
      <3>1. payment[s].customer # c
        BY <2>3
      <3>2. QED
        BY <2>1, <3>1 DEF SlackAt
    <2>4. QED
      BY <2>1, <2>2, <2>3
  <1>10. CASE PayOutRefund(s)
    <2>1. /\ refund[s].status = "approved" /\ payment' = payment
          /\ refund'[s] = [refund[s] EXCEPT !.status = "sent"]
          /\ entries'[s]["credit"] = entries[s]["credit"] - refund[s].amount
      BY <1>10, PayOutRefundRows
    <2>2. refund[s] \in RefundRow
      BY DEF Inv, Rows
    <2>3. OwedOf(s) = refund[s].amount /\ OwedOf(s)' = 0
      BY <2>1, <2>2 DEF OwedOf, RefundRow
    <2>4. QED
      BY <1>2, <1>3, <2>1, <2>3 DEF SlackAt
  <1>11. QED
    BY <1>4, <1>5, <1>6, <1>7, <1>8, <1>9, <1>10 DEF PaymentStep

LEMMA CoveredStep == Inv /\ Inv' /\ RowsInv /\ Covered /\ [Next]_vars => Covered'
  <1> SUFFICES ASSUME Inv, Inv', RowsInv, Covered, [Next]_vars PROVE Covered'
    OBVIOUS
  <1>1. ASSUME UNCHANGED <<payment, entries, refund, moved, excused>> PROVE Covered'
    BY <1>1 DEF Covered, Slack, SlackOf, SlackAt, OwedOf
  <1>2. ASSUME NEW c \in Customers, NEW amount \in InvoiceAmounts, CreateInvoice(c, amount)
        PROVE  Covered'
    BY <1>1, <1>2 DEF CreateInvoice
  <1>3. ASSUME NEW s \in Sessions, PaymentStep(s) PROVE Covered'
    <2>1. Others(s) /\ moved' = moved /\ excused \subseteq excused'
      BY <1>3, PaymentRowsStep
    <2>2. ASSUME NEW c \in Customers \ excused', NEW t \in Sessions
          PROVE  SlackAt(c, t) <= SlackAt(c, t)'
      <3>1. CASE t = s
        BY <1>3, <3>1, PaymentStepSlack
      <3>2. CASE t # s
        <4>1. SlackAt(c, t)' = SlackAt(c, t)
          BY <2>1, <3>2 DEF Others, SlackAt, OwedOf
        <4>2. SlackAt(c, t) \in Int
          BY SlackAtInt
        <4>3. QED
          BY <4>1, <4>2
      <3>3. QED
        BY <3>1, <3>2
    <2>3. QED
      BY <2>1, <2>2, SlackKept
  <1>4. ASSUME NEW a \in Appliers, NEW c \in Customers, ReadBalance(a, c) PROVE Covered'
    BY <1>1, <1>4 DEF ReadBalance
  <1>5. ASSUME NEW a \in Appliers, ReadReserved(a) PROVE Covered'
    BY <1>1, <1>5 DEF ReadReserved
  <1>6. ASSUME NEW a \in Appliers, LockAndApply(a) PROVE Covered'
    <2>0. PICK c \in Customers, available \in Nat :
             c = applier[a].customer /\ available = applier[a].available
      BY <1>6, LockAndApplyRows
    <2>1. /\ available > CreditBalance(c) - Reserved(c) => c \in excused'
          /\ excused \subseteq excused'
          /\ UNCHANGED <<payment, entries, exception, refund>>
      BY <1>6, <2>0, LockAndApplyRows
    <2>2. PICK n \in Nat : n <= available /\ moved' = [moved EXCEPT ![c] = moved[c] + (available - n)]
      BY <1>6, <2>0, LockAndApplyRows
    <2>3. moved \in [Customers -> Int]
      BY DEF RowsInv, Tables
    <2>4. \A d : SlackOf(d)' = SlackOf(d)
      BY <2>1 DEF SlackOf, SlackAt, OwedOf
    <2>5. ASSUME NEW d \in Customers \ excused', d # c PROVE Slack(d)' >= 0
      <3>1. moved'[d] = moved[d]
        BY <2>2, <2>3, <2>5
      <3>2. QED
        BY <2>1, <2>4, <3>1 DEF Covered, Slack
    <2>6. ASSUME c \notin excused' PROVE Slack(c)' >= 0
      <3> DEFINE sum == SumFunctionOnSet(SlackOf(c), Sessions)
      <3>1. \A s \in Sessions : SlackOf(c)[s] \in Int
        BY SlackAtInt DEF SlackOf
      <3>2. sum \in Int
        BY <3>1, SumInt, SessionsAssumption
      <3>3. Slack(c) = sum - moved[c] /\ Slack(c)' = sum - moved'[c]
        BY <2>4 DEF Slack
      <3>4. CreditBalance(c) - Reserved(c) = Slack(c)
        BY <2>1, SlackIs
      <3>5. ~(available > Slack(c))
        BY <2>1, <2>6, <3>4
      <3>6. moved'[c] = moved[c] + (available - n) /\ moved[c] \in Int
        BY <2>1, <2>2, <2>3
      <3> HIDE DEF sum
      <3>7. QED
        BY <2>1, <2>2, <3>2, <3>3, <3>5, <3>6
    <2>7. QED
      BY <2>5, <2>6 DEF Covered
  <1>7. CASE UNCHANGED vars
    BY <1>1, <1>7 DEF vars
  <1>8. QED
    BY <1>2, <1>3, <1>4, <1>5, <1>6, <1>7 DEF Next

LEMMA CoveredInit == Init => Covered
  <1> SUFFICES ASSUME Init, NEW c \in Customers PROVE Slack(c) = 0
    BY DEF Covered
  <1>1. \A s \in Sessions : SlackOf(c)[s] = 0
    BY NoCustomerAssumption DEF Init, NoPayment, SlackOf, SlackAt
  <1>2. SumFunctionOnSet(SlackOf(c), Sessions) = 0
    BY <1>1, SumZero, SessionsAssumption
  <1>3. QED
    BY <1>2 DEF Slack, Init

(* The rows of a session stay consistent with one another, whatever        *)
(* transaction comes next.                                                 *)
THEOREM RowsAlways == Spec => []RowsInv
  <1>1. QED
    BY RowsInit, RowsStep, Invariance, PTL DEF Spec

(* Only customers are excused.                                             *)
ExcusedInv == excused \subseteq Customers

LEMMA ExcusedStep == Inv /\ RowsInv /\ ExcusedInv /\ [Next]_vars => ExcusedInv'
  <1> SUFFICES ASSUME Inv, RowsInv, excused \subseteq Customers, [Next]_vars
               PROVE  excused' \subseteq Customers
    BY DEF ExcusedInv
  <1>1. ASSUME NEW s \in Sessions, ReverseCredit(s) PROVE excused' \subseteq Customers
    BY <1>1 DEF ReverseCredit
  <1>2. ASSUME NEW s \in Sessions, ReturnPayout(s) PROVE excused' \subseteq Customers
    <2>1. refund[s].status = "sent" /\ excused' = excused \cup {payment[s].customer}
      BY <1>2 DEF ReturnPayout
    <2>2. payment[s].customer # NoCustomer
      BY <2>1 DEF RowsInv, RowInv, OriginOf
    <2>3. payment[s].customer \in Customers
      BY <2>2 DEF Inv, Rows, PaymentRow
    <2>4. QED
      BY <2>1, <2>3
  <1>3. ASSUME NEW a \in Appliers, LockAndApply(a) PROVE excused' \subseteq Customers
    <2>1. applier[a].customer \in Customers
      BY <1>3 DEF LockAndApply, RowsInv, Tables
    <2>2. excused' \subseteq excused \cup {applier[a].customer}
      BY <1>3 DEF LockAndApply
    <2>3. QED
      BY <2>1, <2>2
  <1>4. ASSUME NEW s \in Sessions, PaymentStep(s), ~ReverseCredit(s), ~ReturnPayout(s)
        PROVE  excused' = excused
    <2>1. ASSUME NEW c \in Customers, NEW gross \in Grosses, NEW fee \in Fees,
                 ReconcileCustomer(s, c, gross, fee)
          PROVE  excused' = excused
      BY <2>1 DEF ReconcileCustomer
    <2>2. ASSUME NEW gross \in Grosses, NEW fee \in Fees, ReconcileOrphan(s, gross, fee)
          PROVE  excused' = excused
      BY <2>2 DEF ReconcileOrphan
    <2>3. ASSUME NEW c \in Customers, Reattribute(s, c) PROVE excused' = excused
      BY <2>3 DEF Reattribute
    <2>4. ASSUME ResolveException(s) \/ ApproveRefund(s) \/ PayOutRefund(s) \/ FailRefund(s)
          PROVE  excused' = excused
      BY <2>4 DEF ResolveException, ApproveRefund, PayOutRefund, FailRefund
    <2>5. QED
      BY <1>4, <2>1, <2>2, <2>3, <2>4 DEF PaymentStep
  <1>5. ASSUME NEW a \in Appliers, ReadReserved(a) \/ \E c \in Customers : ReadBalance(a, c)
        PROVE  excused' = excused
    BY <1>5 DEF ReadReserved, ReadBalance
  <1>6. ASSUME NEW c \in Customers, NEW amount \in InvoiceAmounts, CreateInvoice(c, amount)
        PROVE  excused' = excused
    BY <1>6 DEF CreateInvoice
  <1>7. CASE UNCHANGED vars
    BY <1>7 DEF vars
  <1>8. QED
    BY <1>1, <1>2, <1>3, <1>4, <1>5, <1>6, <1>7 DEF Next

(* Type correctness of the tables and of what an application carries: only *)
(* customers are excused, a refund belongs to one, and no application ever *)
(* has less than nothing to pour.                                          *)
THEOREM TypeCorrect == Spec => []TypeOK
  <1>1. Init => ExcusedInv
    BY DEF Init, ExcusedInv
  <1>2. Spec => []ExcusedInv
    BY <1>1, ExcusedStep, Invariance, RowsAlways, PTL DEF Spec
  <1>3. Inv /\ RowsInv /\ ExcusedInv => TypeOK
    <2> SUFFICES ASSUME Inv, RowsInv, ExcusedInv PROVE TypeOK
      OBVIOUS
    <2>1. invoices \in [Customers -> Seq(Invoice)]
      BY DEF Inv, InvoicesInv
    <2>2. Rows /\ Tables
      BY DEF Inv, RowsInv
    <2>3. QED
      BY ONLY <2>1, <2>2, ExcusedInv
      DEF ExcusedInv, Rows, Tables, TypeOK, PaymentRow, RefundRow, ApplierRow
  <1>4. QED
    BY <1>2, <1>3, Invariance, RowsAlways, PTL

(* "Keeps credit >= owed refunds": through approvals, payouts, failures,   *)
(* re-approvals and credit applications the credit of a customer covers    *)
(* the refunds that may still be paid, for any number of customers,        *)
(* payments and concurrent applications, unless one of them applied what   *)
(* was no longer there, a payment was reversed or a payout came back.      *)
THEOREM CreditCoversRefundsAlways == Spec => []CreditCoversRefunds
  <1>1. Spec => []Covered
    BY CoveredInit, CoveredStep, Invariance, RowsAlways, PTL DEF Spec
  <1>2. Inv /\ RowsInv /\ Covered => CreditCoversRefunds
    <2> SUFFICES ASSUME Inv, RowsInv, Covered, NEW c \in Customers \ excused
                 PROVE  CreditBalance(c) >= Reserved(c)
      BY DEF CreditCoversRefunds
    <2>1. CreditBalance(c) - Reserved(c) = Slack(c)
      BY SlackIs
    <2>2. CreditBalance(c) \in Int /\ Reserved(c) \in Nat
      BY SumsInt
    <2>3. Slack(c) >= 0
      BY DEF Covered
    <2>4. QED
      BY <2>1, <2>2, <2>3
  <1>3. QED
    BY <1>1, <1>2, Invariance, RowsAlways, PTL

-----------------------------------------------------------------------------
(* Settled is receivable.  What a list of invoices says is settled, and    *)
(* what pouring, appending and rolling back do to that.                    *)
SettledIn(invs) ==
    SumFunctionOnSet([i \in DOMAIN invs |-> invs[i].settled], DOMAIN invs)

LEMMA RunSteps ==
    ASSUME NEW amount \in Nat, NEW invs \in Seq(Invoice), NEW rem \in Runs(amount, invs),
           \A i \in DOMAIN invs : Consistent(invs[i])
    PROVE  /\ DOMAIN invs = 1..Len(invs) /\ Len(invs) \in Nat
           /\ DOMAIN Poured(rem, invs) = DOMAIN invs
           /\ rem[0] = amount /\ \A i \in 0..Len(invs) : rem[i] \in Nat
           /\ \A i \in DOMAIN invs :
                 /\ rem[i - 1] - rem[i] \in Nat /\ rem[i - 1] \in Nat /\ rem[i] \in Nat
                 /\ invs[i].settled \in Nat
                 /\ Poured(rem, invs)[i].settled = invs[i].settled + (rem[i - 1] - rem[i])
  <1>1. DOMAIN invs = 1..Len(invs) /\ Len(invs) \in Nat
    BY LenProperties
  <1>2. rem[0] = amount /\ \A i \in 0..Len(invs) : rem[i] \in Nat
    <2>1. \A i \in 0..Len(invs) : rem[i] \in 0..amount
      BY DEF Runs
    <2>2. QED
      BY <2>1 DEF Runs
  <1>3. DOMAIN Poured(rem, invs) = DOMAIN invs
    BY DEF Poured
  <1>4. ASSUME NEW i \in DOMAIN invs
        PROVE  /\ rem[i - 1] - rem[i] \in Nat /\ rem[i - 1] \in Nat /\ rem[i] \in Nat
               /\ invs[i].settled \in Nat
               /\ Poured(rem, invs)[i].settled = invs[i].settled + (rem[i - 1] - rem[i])
    <2> DEFINE inv == invs[i]
               applied == rem[i - 1] - rem[i]
    <2>1. i - 1 \in 0..Len(invs) /\ i \in 0..Len(invs)
      BY <1>1
    <2>2. rem[i] = rem[i - 1] - Applied(rem[i - 1], inv) /\ rem[i - 1] \in Nat /\ rem[i] \in Nat
      BY <1>1, <1>2, <2>1 DEF Runs
    <2>3. inv \in Invoice /\ Consistent(inv)
      BY <1>1, ElementOfSeq
    <2>4. inv.settled \in Nat /\ inv.expected \in Nat
      BY <2>3 DEF Invoice
    <2>5. Applied(rem[i - 1], inv) \in Nat
      BY <2>2, <2>3, <2>4 DEF Applied, Outstanding, Consistent
    <2>6. applied \in Nat
      BY <2>2, <2>5
    <2>7. Poured(rem, invs)[i] = PayInvoice(inv, applied)
      BY DEF Poured
    <2> HIDE DEF applied, inv
    <2>8. PayInvoice(inv, applied).settled = inv.settled + applied
      BY <2>3, <2>4, <2>6 DEF PayInvoice, Invoice
    <2>9. QED
      BY <2>2, <2>4, <2>6, <2>7, <2>8 DEF applied, inv
  <1>5. QED
    BY <1>1, <1>2, <1>3, <1>4

LEMMA SettledTerms ==
    ASSUME NEW invs \in Seq(Invoice)
    PROVE  /\ IsFiniteSet(DOMAIN invs) /\ DOMAIN invs = 1..Len(invs) /\ Len(invs) \in Nat
           /\ \A i \in DOMAIN invs : invs[i].settled \in Nat /\ invs[i] \in Invoice
           /\ SettledIn(invs) \in Nat
  <1>1. DOMAIN invs = 1..Len(invs) /\ Len(invs) \in Nat
    BY LenProperties
  <1>2. IsFiniteSet(1..Len(invs))
    <2>1. 1 \in Int /\ Len(invs) \in Int
      BY <1>1
    <2>2. QED
      BY <2>1, FS_Interval
  <1>3. ASSUME NEW i \in DOMAIN invs PROVE invs[i].settled \in Nat /\ invs[i] \in Invoice
    <2>1. invs[i] \in Invoice
      BY <1>1, ElementOfSeq
    <2>2. QED
      BY <2>1 DEF Invoice
  <1> DEFINE f == [i \in DOMAIN invs |-> invs[i].settled]
  <1>4. \A i \in DOMAIN invs : f[i] \in Nat
    BY <1>3
  <1> HIDE DEF f
  <1>5. SumFunctionOnSet(f, DOMAIN invs) \in Nat
    BY <1>1, <1>2, <1>4, SumNat
  <1>6. QED
    BY <1>1, <1>2, <1>3, <1>5 DEF f, SettledIn

LEMMA PouredSettles ==
    ASSUME NEW amount \in Nat, NEW invs \in Seq(Invoice), NEW rem \in Runs(amount, invs),
           \A i \in DOMAIN invs : Consistent(invs[i])
    PROVE  SettledIn(Poured(rem, invs)) = SettledIn(invs) + (amount - rem[Len(invs)])
  <1> DEFINE n == Len(invs)
             f == [i \in DOMAIN invs |-> invs[i].settled]
             d == [i \in DOMAIN invs |-> rem[i - 1] - rem[i]]
             h == [i \in DOMAIN invs |-> Poured(rem, invs)[i].settled]
  <1>1. DOMAIN invs = 1..n /\ n \in Nat /\ IsFiniteSet(1..n) /\ DOMAIN Poured(rem, invs) = 1..n
    BY SettledTerms, RunSteps
  <1>2. rem[0] = amount /\ \A i \in 0..n : rem[i] \in Int
    BY RunSteps
  <1>3. \A i \in 1..n : f[i] \in Int /\ d[i] \in Int /\ h[i] = f[i] + d[i]
    <2>1. \A i \in 1..n :
             /\ rem[i - 1] - rem[i] \in Nat /\ invs[i].settled \in Nat
             /\ Poured(rem, invs)[i].settled = invs[i].settled + (rem[i - 1] - rem[i])
      BY <1>1, RunSteps
    <2>2. QED
      BY ONLY <1>1, <2>1
  <1>4. \A i \in 1..n : d[i] = rem[i - 1] - rem[i]
    BY <1>1
  <1>5. /\ SettledIn(invs) = SumFunctionOnSet(f, 1..n)
        /\ SettledIn(Poured(rem, invs)) = SumFunctionOnSet(h, 1..n)
    BY <1>1 DEF SettledIn
  <1> HIDE DEF f, d, h, n
  <1>6. SumFunctionOnSet(d, 1..n) = rem[0] - rem[n]
    BY <1>1, <1>2, <1>4, Telescope
  <1>7. SumFunctionOnSet(h, 1..n) = SumFunctionOnSet(f, 1..n) + SumFunctionOnSet(d, 1..n)
    <2>1. IsFiniteSet(1..n)
      BY <1>1
    <2>2. QED
      BY ONLY <1>3, <2>1, SumPlus
  <1>8. QED
    BY <1>2, <1>5, <1>6, <1>7 DEF n

(* A payment that touches one invoice or none.                             *)
LEMMA TouchesOne ==
    ASSUME NEW amount \in Nat, NEW invs \in Seq(Invoice), NEW rem \in Runs(amount, invs),
           \A i \in DOMAIN invs : Consistent(invs[i])
    PROVE  /\ FirstTouched(rem, invs) \in 0..Len(invs)
           /\ FirstTouched(rem, invs) = 0 => rem[Len(invs)] = amount
           /\ FirstTouched(rem, invs) # 0 /\ Cardinality(Touched(rem, invs)) <= 1 =>
                 LET i == FirstTouched(rem, invs)
                 IN  rem[i - 1] - rem[i] = amount - rem[Len(invs)]
  <1> DEFINE n == Len(invs)
             T == Touched(rem, invs)
             m == FirstTouched(rem, invs)
             d == [i \in 1..n |-> rem[i - 1] - rem[i]]
  <1>1. DOMAIN invs = 1..n /\ n \in Nat /\ IsFiniteSet(1..n)
    BY SettledTerms
  <1>2. /\ rem[0] = amount /\ rem[n] \in Int /\ \A i \in 0..n : rem[i] \in Int
        /\ \A i \in 1..n : rem[i - 1] \in Int /\ rem[i] \in Int
    BY <1>1, RunSteps
  <1>3. T \in SUBSET (1..n) /\ \A i \in 1..n : i \notin T => rem[i - 1] = rem[i]
    BY <1>1 DEF Touched
  <1>4. T # {} => m \in T
    BY <1>1, <1>3, Least DEF FirstTouched
  <1>5. T = {} => m = 0
    BY DEF FirstTouched
  <1>6. \A i \in 1..n : d[i] = rem[i - 1] - rem[i]
    OBVIOUS
  <1>7. SumFunctionOnSet(d, 1..n) = amount - rem[n]
    <2> HIDE DEF d, n
    <2>1. QED
      BY <1>1, <1>2, <1>6, Telescope
  <1>8. ASSUME T = {} PROVE rem[n] = amount
    <2>1. \A i \in 1..n : d[i] = 0
      BY <1>2, <1>3, <1>8
    <2> HIDE DEF d, n
    <2>2. SumFunctionOnSet(d, 1..n) = 0
      BY <1>1, <2>1, SumZero
    <2>3. QED
      BY <1>2, <1>7, <2>2
  <1>9. ASSUME T # {}, Cardinality(T) <= 1 PROVE rem[m - 1] - rem[m] = amount - rem[n]
    <2>1. T = {m}
      <3>1. IsFiniteSet(T) /\ m \in T
        BY <1>1, <1>3, <1>4, <1>9, FS_Subset
      <3>2. Cardinality(T \ {m}) = Cardinality(T) - 1 /\ IsFiniteSet(T \ {m})
        BY <3>1, FS_RemoveElement
      <3>3. Cardinality(T) \in Nat /\ Cardinality(T \ {m}) \in Nat
        BY <3>1, <3>2, FS_CardinalityType
      <3>4. Cardinality(T \ {m}) = 0
        BY <1>9, <3>2, <3>3
      <3>5. T \ {m} = {}
        BY <3>2, <3>4, FS_EmptySet
      <3>6. QED
        BY <3>1, <3>5
    <2>2. m \in 1..n
      BY <1>3, <2>1
    <2>3. \A i \in (1..n) \ {m} : d[i] = 0
      BY <1>2, <1>3, <2>1
    <2>4. d[m] = rem[m - 1] - rem[m] /\ d[m] \in Int
      BY <1>2, <2>2
    <2> HIDE DEF d, n, m, T
    <2>5. SumFunctionOnSet(d, 1..n) = d[m]
      BY <1>1, <2>2, <2>3, <2>4, SumSingle
    <2>6. QED
      BY <1>7, <2>4, <2>5
  <1>10. m \in 0..n
    BY <1>1, <1>3, <1>4, <1>5
  <1>11. m # 0 => T # {}
    BY <1>5
  <1>12. m = 0 => T = {}
    BY <1>3, <1>4
  <1> HIDE DEF T, m, n
  <1>13. QED
    BY <1>8, <1>9, <1>10, <1>11, <1>12 DEF T, m, n

(* A new invoice, and one that is rolled back.                             *)
LEMMA AppendSettles ==
    ASSUME NEW invs \in Seq(Invoice), NEW new \in Invoice, new.settled = 0
    PROVE  /\ SettledIn(Append(invs, new)) = SettledIn(invs)
           /\ DOMAIN Append(invs, new) = DOMAIN invs \cup {Len(invs) + 1}
           /\ \A i \in DOMAIN invs : Append(invs, new)[i] = invs[i]
           /\ Append(invs, new)[Len(invs) + 1] = new
  <1> DEFINE n == Len(invs)
             more == Append(invs, new)
             f == [i \in DOMAIN invs |-> invs[i].settled]
             h == [i \in DOMAIN more |-> more[i].settled]
  <1>1. /\ more \in Seq(Invoice) /\ Len(more) = n + 1
        /\ \A i \in 1..n : more[i] = invs[i]
        /\ more[n + 1] = new
    BY AppendProperties
  <1>2. DOMAIN invs = 1..n /\ n \in Nat /\ IsFiniteSet(1..n) /\ \A i \in 1..n : f[i] \in Nat
    BY SettledTerms
  <1>3. DOMAIN more = (1..n) \cup {n + 1} /\ n + 1 \notin 1..n
    BY <1>1, <1>2, SettledTerms
  <1>4. /\ \A i \in 1..n : f[i] \in Int /\ f[i] = h[i]
        /\ \A i \in (1..n) \cup {n + 1} : h[i] \in Int
        /\ h[n + 1] = 0
    BY <1>1, <1>2, <1>3
  <1>5. SettledIn(invs) = SumFunctionOnSet(f, 1..n)
    BY <1>2 DEF SettledIn
  <1>6. SettledIn(more) = SumFunctionOnSet(h, (1..n) \cup {n + 1})
    BY <1>3 DEF SettledIn
  <1> HIDE DEF f, h, n, more
  <1>7. SumFunctionOnSet(h, (1..n) \cup {n + 1}) = h[n + 1] + SumFunctionOnSet(h, 1..n)
    BY <1>2, <1>3, <1>4, SumInsert
  <1>8. SumFunctionOnSet(f, 1..n) = SumFunctionOnSet(h, 1..n)
    BY <1>2, <1>4, SumEqual
  <1>9. SumFunctionOnSet(f, 1..n) \in Int
    BY <1>2, <1>4, SumInt
  <1>10. SettledIn(more) = SettledIn(invs)
    BY <1>4, <1>5, <1>6, <1>7, <1>8, <1>9
  <1>11. QED
    BY <1>1, <1>2, <1>3, <1>10 DEF n, more

LEMMA RolledBackSettles ==
    ASSUME NEW invs \in Seq(Invoice), NEW i \in DOMAIN invs, NEW amount \in Nat,
           amount <= invs[i].settled
    PROVE  LET back == [invs EXCEPT ![i] = RolledBack(invs[i], amount)] IN
           /\ SettledIn(back) = SettledIn(invs) - amount
           /\ DOMAIN back = DOMAIN invs
           /\ back[i].settled = invs[i].settled - amount
           /\ \A j \in DOMAIN invs \ {i} : back[j] = invs[j]
  <1> DEFINE inv == RolledBack(invs[i], amount)
             back == [invs EXCEPT ![i] = inv]
             f == [j \in DOMAIN invs |-> invs[j].settled]
             h == [j \in DOMAIN back |-> back[j].settled]
  <1>1. /\ DOMAIN invs = 1..Len(invs) /\ IsFiniteSet(DOMAIN invs)
        /\ \A j \in DOMAIN invs : f[j] \in Nat
        /\ invs[i].settled \in Nat /\ invs[i] \in Invoice
    BY SettledTerms
  <1>2. inv.settled = invs[i].settled - amount
    BY <1>1 DEF RolledBack, Invoice
  <1> HIDE DEF inv
  <1>3. DOMAIN back = DOMAIN invs /\ back[i] = inv /\ \A j \in DOMAIN invs \ {i} : back[j] = invs[j]
    BY <1>1
  <1>4. /\ \A j \in DOMAIN invs : f[j] \in Int /\ h[j] \in Int
        /\ \A j \in DOMAIN invs \ {i} : h[j] = f[j]
        /\ h[i] = invs[i].settled - amount /\ f[i] = invs[i].settled
    BY <1>1, <1>2, <1>3
  <1>5. SettledIn(invs) = SumFunctionOnSet(f, DOMAIN invs)
    BY DEF SettledIn
  <1>6. SettledIn(back) = SumFunctionOnSet(h, DOMAIN invs)
    BY <1>3 DEF SettledIn
  <1> HIDE DEF f, h, back
  <1>7. SumFunctionOnSet(h, DOMAIN invs) = SumFunctionOnSet(f, DOMAIN invs) + (h[i] - f[i])
    <2> DEFINE D == DOMAIN invs
    <2>1. /\ IsFiniteSet(D) /\ i \in D
          /\ \A j \in D : f[j] \in Int /\ h[j] \in Int
          /\ \A j \in D \ {i} : h[j] = f[j]
      BY <1>1, <1>4
    <2> HIDE DEF D
    <2>2. SumFunctionOnSet(h, D) = SumFunctionOnSet(f, D) + (h[i] - f[i])
      BY ONLY <2>1, SumChange
    <2>3. QED
      BY <2>2 DEF D
  <1>8. SumFunctionOnSet(f, DOMAIN invs) \in Int
    BY <1>1, <1>4, SumInt
  <1>9. SettledIn(back) = SettledIn(invs) - amount
    BY <1>1, <1>4, <1>5, <1>6, <1>7, <1>8
  <1>10. QED
    BY <1>2, <1>3, <1>9 DEF back, inv

-----------------------------------------------------------------------------
(* What payments put on the receivable account, and what of it a reversal  *)
(* would take from an invoice: that a payment which touched no other       *)
(* invoice put there.                                                      *)
ReceivableAt(c, s) == IF payment[s].customer = c THEN entries[s]["receivable"] ELSE 0

ReceivableOf(c) == [s \in Sessions |-> ReceivableAt(c, s)]

Posted(c) == SumFunctionOnSet(ReceivableOf(c), Sessions) + moved[c]

PutAt(c, i, s) ==
    IF payment[s].customer = c /\ payment[s].matched = i /\ payment[s].touched <= 1
      THEN entries[s]["receivable"] ELSE 0

PutOf(c, i) == [s \in Sessions |-> PutAt(c, i, s)]

Put(c, i) == SumFunctionOnSet(PutOf(c, i), Sessions)

(* No reversed payment of the customer had reached a second invoice.       *)
Simple(c) ==
    \A s \in Sessions :
        payment[s].customer = c /\ payment[s].status = "refunded" => payment[s].touched <= 1

MatchedOf(s) ==
    /\ payment[s].customer \in Customers =>
          payment[s].matched \in 0..Len(invoices[payment[s].customer])
    /\ payment[s].matched = 0 => entries[s]["receivable"] = 0

SettledFor(c) ==
    Simple(c) => /\ SettledIn(invoices[c]) = Posted(c)
                 /\ \A i \in DOMAIN invoices[c] : Put(c, i) <= invoices[c][i].settled

SettledInv ==
    /\ \A s \in Sessions : MatchedOf(s)
    /\ \A c \in Customers : SettledFor(c)

LEMMA TermsNat ==
    ASSUME Inv, RowsInv, NEW c, NEW i
    PROVE  /\ \A s \in Sessions : ReceivableOf(c)[s] \in Nat /\ PutOf(c, i)[s] \in Nat
           /\ SumFunctionOnSet(ReceivableOf(c), Sessions) \in Int /\ Put(c, i) \in Int
  <1>1. ASSUME NEW s \in Sessions PROVE ReceivableOf(c)[s] \in Nat /\ PutOf(c, i)[s] \in Nat
    <2>1. entries[s]["receivable"] \in Int /\ entries[s]["receivable"] >= 0
      BY DEF Inv, Rows, Accounts, RowsInv, RowInv, OriginOf
    <2>2. QED
      BY <2>1 DEF ReceivableOf, ReceivableAt, PutOf, PutAt
  <1>2. \A s \in Sessions : ReceivableOf(c)[s] \in Int
    BY <1>1
  <1>3. \A s \in Sessions : PutOf(c, i)[s] \in Int
    BY <1>1
  <1>4. SumFunctionOnSet(ReceivableOf(c), Sessions) \in Int
    BY <1>2, SumInt, SessionsAssumption
  <1>5. Put(c, i) \in Int
    BY <1>3, SumInt, SessionsAssumption DEF Put
  <1>6. QED
    BY <1>1, <1>4, <1>5

LEMMA TermsNatNext ==
    ASSUME Inv', RowsInv', NEW c, NEW i
    PROVE  \A s \in Sessions : ReceivableOf(c)'[s] \in Int /\ PutOf(c, i)'[s] \in Int
  BY DEF Inv, Rows, Accounts, ReceivableOf, ReceivableAt, PutOf, PutAt

(* A customer whose invoices and payments keep what is settled.            *)
LEMMA CustomerKept ==
    ASSUME NEW c \in Customers, SettledFor(c),
           invoices'[c] = invoices[c], moved'[c] = moved[c], Simple(c)' => Simple(c),
           \A s \in Sessions : /\ ReceivableAt(c, s)' = ReceivableAt(c, s)
                               /\ \A i \in DOMAIN invoices[c] : PutAt(c, i, s)' = PutAt(c, i, s)
    PROVE  SettledFor(c)'
  <1>1. Posted(c)' = Posted(c)
    BY DEF Posted, ReceivableOf
  <1>2. ASSUME NEW i \in DOMAIN invoices[c] PROVE Put(c, i)' = Put(c, i)
    <2>1. PutOf(c, i)' = PutOf(c, i)
      BY DEF PutOf
    <2>2. QED
      BY <2>1 DEF Put
  <1>3. QED
    BY <1>1, <1>2 DEF SettledFor

(* ... and one whose invoices are poured over.                             *)
LEMMA CustomerPoured ==
    ASSUME Inv, Inv', RowsInv, RowsInv', NEW c \in Customers,
           SettledFor(c), Simple(c)' => Simple(c),
           NEW amount \in Nat, NEW rem \in Runs(amount, invoices[c]),
           invoices'[c] = Poured(rem, invoices[c]),
           Posted(c)' = Posted(c) + (amount - rem[Len(invoices[c])]),
           \A i \in DOMAIN invoices[c] : Put(c, i)' <= Put(c, i) + (rem[i - 1] - rem[i])
    PROVE  SettledFor(c)'
  <1> SUFFICES ASSUME Simple(c)'
               PROVE  /\ SettledIn(invoices'[c]) = Posted(c)'
                      /\ \A i \in DOMAIN invoices'[c] : Put(c, i)' <= invoices'[c][i].settled
    BY DEF SettledFor
  <1>1. /\ invoices[c] \in Seq(Invoice)
        /\ \A i \in DOMAIN invoices[c] : Consistent(invoices[c][i])
    BY DEF Inv, InvoicesInv
  <1>2. /\ SettledIn(invoices[c]) = Posted(c)
        /\ \A i \in DOMAIN invoices[c] : Put(c, i) <= invoices[c][i].settled
    BY DEF SettledFor
  <1>3. SettledIn(invoices'[c]) = SettledIn(invoices[c]) + (amount - rem[Len(invoices[c])])
    BY <1>1, PouredSettles
  <1>4. ASSUME NEW i \in DOMAIN invoices'[c] PROVE Put(c, i)' <= invoices'[c][i].settled
    <2>1. /\ DOMAIN invoices'[c] = DOMAIN invoices[c]
          /\ \A j \in DOMAIN invoices[c] :
                /\ rem[j - 1] - rem[j] \in Nat /\ invoices[c][j].settled \in Nat
                /\ invoices'[c][j].settled = invoices[c][j].settled + (rem[j - 1] - rem[j])
      BY <1>1, RunSteps
    <2>2. /\ Put(c, i) <= invoices[c][i].settled
          /\ Put(c, i)' <= Put(c, i) + (rem[i - 1] - rem[i])
      BY <1>2, <2>1
    <2> DEFINE x == rem[i - 1] - rem[i]
    <2>3. x \in Nat /\ invoices[c][i].settled \in Nat /\ invoices'[c][i].settled = invoices[c][i].settled + x
      BY <2>1
    <2>4. Put(c, i) \in Int
      BY TermsNat
    <2>5. Put(c, i)' \in Int
      <3>1. \A s \in Sessions : PutOf(c, i)'[s] \in Int
        BY TermsNatNext
      <3>2. QED
        BY <3>1, SumInt, SessionsAssumption DEF Put
    <2> HIDE DEF x
    <2>6. QED
      BY <2>2, <2>3, <2>4, <2>5 DEF x
  <1>5. QED
    BY <1>2, <1>3, <1>4

LEMMA MatchedKept ==
    ASSUME Inv, NEW s \in Sessions, MatchedOf(s), payment'[s] = payment[s], entries'[s] = entries[s],
           \A c \in Customers : Len(invoices[c]) <= Len(invoices'[c]) /\ Len(invoices'[c]) \in Nat
    PROVE  MatchedOf(s)'
  <1>1. \A c \in Customers : Len(invoices[c]) \in Nat
    BY LenProperties DEF Inv, InvoicesInv
  <1>2. QED
    BY <1>1 DEF MatchedOf

(* A transaction that touches no invoice and no receivable.                *)
LEMMA NoReceivable ==
    ASSUME Inv, Inv', RowsInv, SettledInv, NEW s \in Sessions, Others(s),
           invoices' = invoices, moved' = moved, MatchedOf(s)',
           \A c \in Customers :
               /\ Simple(c)' => Simple(c)
               /\ ReceivableAt(c, s)' = ReceivableAt(c, s)
               /\ \A i \in Nat \ {0} : PutAt(c, i, s)' = PutAt(c, i, s)
    PROVE  SettledInv'
  <1>1. ASSUME NEW c \in Customers PROVE SettledFor(c)'
    <2>1. ASSUME NEW t \in Sessions
          PROVE  /\ ReceivableAt(c, t)' = ReceivableAt(c, t)
                 /\ \A i \in Nat \ {0} : PutAt(c, i, t)' = PutAt(c, i, t)
      BY DEF Others, ReceivableAt, PutAt
    <2>2. DOMAIN invoices[c] \subseteq Nat \ {0}
      BY SettledTerms DEF Inv, InvoicesInv
    <2>3. SettledFor(c)
      BY DEF SettledInv
    <2>4. \A t \in Sessions : /\ ReceivableAt(c, t)' = ReceivableAt(c, t)
                              /\ \A i \in DOMAIN invoices[c] : PutAt(c, i, t)' = PutAt(c, i, t)
      BY <2>1, <2>2
    <2>5. QED
      BY <2>3, <2>4, CustomerKept
  <1>2. ASSUME NEW t \in Sessions PROVE MatchedOf(t)'
    <2>1. CASE t = s
      BY <2>1
    <2>2. CASE t # s
      BY <2>2 DEF SettledInv, MatchedOf, Others
    <2>3. QED
      BY <2>1, <2>2
  <1>3. QED
    BY <1>1, <1>2 DEF SettledInv

LEMMA SettledCreateInvoice ==
    ASSUME Inv, Inv', RowsInv, SettledInv, NEW c \in Customers, NEW amount \in InvoiceAmounts,
           CreateInvoice(c, amount)
    PROVE  SettledInv'
  <1> DEFINE new == [expected |-> amount, settled |-> 0, status |-> "open"]
             invs == invoices[c]
             n == Len(invoices[c])
  <1>1. /\ invoices \in [Customers -> Seq(Invoice)] /\ invs \in Seq(Invoice)
        /\ n \in Nat /\ DOMAIN invs = 1..n
    BY SettledTerms DEF Inv, InvoicesInv
  <1>2. new \in Invoice /\ new.settled = 0
    BY InvoiceAssumption DEF Invoice, InvoiceStatus
  <1>3. /\ invoices' = [invoices EXCEPT ![c] = Append(invs, new)]
        /\ UNCHANGED <<payment, entries, moved>>
    BY <1>1 DEF CreateInvoice
  <1> HIDE DEF new
  <1>4. /\ SettledIn(Append(invs, new)) = SettledIn(invs)
        /\ DOMAIN Append(invs, new) = DOMAIN invs \cup {n + 1}
        /\ \A i \in DOMAIN invs : Append(invs, new)[i] = invs[i]
        /\ Append(invs, new)[n + 1] = new
        /\ Len(Append(invs, new)) = n + 1
    BY <1>1, <1>2, AppendSettles, AppendProperties
  <1>5. invoices'[c] = Append(invs, new) /\ \A d \in Customers \ {c} : invoices'[d] = invoices[d]
    BY <1>1, <1>3
  <1>6. \A d : /\ Simple(d)' <=> Simple(d)
              /\ Posted(d)' = Posted(d)
              /\ \A i : Put(d, i)' = Put(d, i)
    BY <1>3 DEF Simple, Posted, ReceivableOf, ReceivableAt, Put, PutOf, PutAt
  <1>7. ASSUME NEW d \in Customers, d # c PROVE SettledFor(d)'
    BY <1>5, <1>6, <1>7 DEF SettledInv, SettledFor
  <1>8. ASSUME Simple(c)'
        PROVE  /\ SettledIn(invoices'[c]) = Posted(c)'
               /\ \A i \in DOMAIN invoices'[c] : Put(c, i)' <= invoices'[c][i].settled
    <2>1. /\ SettledIn(invs) = Posted(c)
          /\ \A i \in DOMAIN invs : Put(c, i) <= invs[i].settled
      BY <1>6, <1>8 DEF SettledInv, SettledFor
    <2>2. Put(c, n + 1) = 0
      <3>1. ASSUME NEW s \in Sessions PROVE PutOf(c, n + 1)[s] = 0
        <4>1. payment[s].customer = c => payment[s].matched \in 0..n
          BY DEF SettledInv, MatchedOf
        <4>2. n + 1 \notin 0..n
          BY <1>1
        <4>3. QED
          BY <4>1, <4>2 DEF PutOf, PutAt
      <3>2. QED
        BY <3>1, SumZero, SessionsAssumption DEF Put
    <2>3. \A i \in DOMAIN invs \cup {n + 1} : Put(c, i) <= invoices'[c][i].settled
      BY <1>2, <1>4, <1>5, <2>1, <2>2
    <2>4. QED
      BY <1>4, <1>5, <1>6, <2>1, <2>3
  <1>9. SettledFor(c)'
    BY <1>8 DEF SettledFor
  <1>10. ASSUME NEW s \in Sessions PROVE MatchedOf(s)'
    <2>1. \A d \in Customers : Len(invoices[d]) <= Len(invoices'[d]) /\ Len(invoices'[d]) \in Nat
      <3>1. \A d \in Customers : Len(invoices[d]) \in Nat
        BY <1>1, LenProperties
      <3>2. QED
        BY <1>1, <1>4, <1>5, <3>1
    <2>2. QED
      BY <1>3, <2>1, MatchedKept DEF SettledInv
  <1>11. QED
    BY <1>7, <1>9, <1>10 DEF SettledInv

LEMMA SameEnd ==
    ASSUME NEW m \in Nat, NEW n \in Nat, 1..m = 1..n
    PROVE  m = n
  <1>1. m \in 1..m \/ m = 0
    OBVIOUS
  <1>2. n \in 1..n \/ n = 0
    OBVIOUS
  <1>3. QED
    BY <1>1, <1>2

(* The payment's receivable is what its run takes from the amount.         *)
LEMMA SettledReconcile ==
    ASSUME Inv, Inv', RowsInv, RowsInv', SettledInv, NEW s \in Sessions, NEW c \in Customers,
           NEW gross \in Grosses, NEW fee \in Fees, ReconcileCustomer(s, c, gross, fee)
    PROVE  SettledInv'
  <1>1. PICK rem \in Runs(gross, invoices[c]) : Credited(s, c, gross, fee, rem)
    BY ReconcileCustomerRows
  <1>2. /\ payment[s].status = "none" /\ gross \in Nat /\ Others(s) /\ moved' = moved
    BY ReconcileCustomerRows
  <1>3. payment[s].customer = NoCustomer /\ NoCustomer \notin Customers
    BY <1>2, NoCustomerAssumption DEF RowsInv, RowInv, OriginOf
  <1> DEFINE n == Len(invoices[c])
             taken == gross - rem[n]
  <1>4. /\ invoices \in [Customers -> Seq(Invoice)] /\ invoices[c] \in Seq(Invoice)
        /\ \A i \in DOMAIN invoices[c] : Consistent(invoices[c][i])
        /\ n \in Nat /\ DOMAIN invoices[c] = 1..n
    BY SettledTerms DEF Inv, InvoicesInv
  <1>5. /\ rem[n] \in Nat /\ rem[n] <= gross /\ taken \in Nat
        /\ payment'[s].status = "reconciled" /\ payment'[s].customer = c
        /\ payment'[s].matched = FirstTouched(rem, invoices[c])
        /\ payment'[s].touched = Cardinality(Touched(rem, invoices[c]))
        /\ entries'[s]["receivable"] = taken
        /\ invoices' = [invoices EXCEPT ![c] = Poured(rem, invoices[c])]
    BY <1>1, <1>2 DEF Credited, SurplusPostings, Nothing, Accounts
  <1>6. invoices'[c] = Poured(rem, invoices[c]) /\ \A d \in Customers \ {c} : invoices'[d] = invoices[d]
    BY <1>4, <1>5
  <1>7. /\ FirstTouched(rem, invoices[c]) \in 0..n
        /\ FirstTouched(rem, invoices[c]) = 0 => taken = 0
        /\ FirstTouched(rem, invoices[c]) # 0 /\ Cardinality(Touched(rem, invoices[c])) <= 1 =>
              LET i == FirstTouched(rem, invoices[c]) IN rem[i - 1] - rem[i] = taken
    <2>1. /\ FirstTouched(rem, invoices[c]) \in 0..Len(invoices[c])
          /\ FirstTouched(rem, invoices[c]) = 0 => rem[Len(invoices[c])] = gross
          /\ FirstTouched(rem, invoices[c]) # 0 /\ Cardinality(Touched(rem, invoices[c])) <= 1 =>
                LET i == FirstTouched(rem, invoices[c])
                IN  rem[i - 1] - rem[i] = gross - rem[Len(invoices[c])]
      <3>1. /\ gross \in Nat /\ invoices[c] \in Seq(Invoice) /\ rem \in Runs(gross, invoices[c])
            /\ \A i \in DOMAIN invoices[c] : Consistent(invoices[c][i])
        BY <1>1, <1>2, <1>4
      <3>2. QED
        BY ONLY <3>1, TouchesOne
    <2>2. QED
      BY <1>2, <2>1
  <1>8. DOMAIN Poured(rem, invoices[c]) = 1..n /\ Len(invoices'[c]) = n
    <2>1. invoices'[c] \in Seq(Invoice)
      BY DEF Inv, InvoicesInv
    <2>2. DOMAIN invoices'[c] = 1..Len(invoices'[c]) /\ Len(invoices'[c]) \in Nat
      BY <2>1, SettledTerms
    <2>3. DOMAIN Poured(rem, invoices[c]) = 1..n
      BY <1>4 DEF Poured
    <2>4. 1..Len(invoices'[c]) = 1..n
      BY <1>6, <2>2, <2>3
    <2>5. Len(invoices'[c]) = n
      BY ONLY <2>2, <2>4, <1>4, SameEnd
    <2>6. QED
      BY <2>3, <2>5
  <1> HIDE DEF taken, n
  <1>9. ASSUME NEW d \in Customers PROVE Simple(d)' => Simple(d)
    BY <1>2, <1>3, <1>5 DEF Simple, Others
  <1>10. ASSUME NEW d \in Customers, d # c PROVE SettledFor(d)'
    <2>1. \A t \in Sessions : /\ ReceivableAt(d, t)' = ReceivableAt(d, t)
                              /\ \A i \in DOMAIN invoices[d] : PutAt(d, i, t)' = PutAt(d, i, t)
      BY <1>2, <1>3, <1>5, <1>10 DEF ReceivableAt, PutAt, Others
    <2>2. QED
      BY <1>2, <1>6, <1>9, <1>10, <2>1, CustomerKept DEF SettledInv
  <1>11. Posted(c)' = Posted(c) + taken
    <2> DEFINE f == ReceivableOf(c)
               g == ReceivableOf(c)'
    <2>1. \A t \in Sessions : f[t] \in Int /\ g[t] \in Int
      <3>1. \A t \in Sessions : f[t] \in Int
        BY TermsNat
      <3>2. \A t \in Sessions : g[t] \in Int
        BY TermsNatNext
      <3>3. QED
        BY ONLY <3>1, <3>2
    <2>2. \A t \in Sessions \ {s} : g[t] = f[t]
      BY <1>2 DEF ReceivableOf, ReceivableAt, Others
    <2>3. f[s] = 0 /\ g[s] = taken
      BY <1>3, <1>5 DEF ReceivableOf, ReceivableAt
    <2>4. SumFunctionOnSet(f, Sessions) \in Int /\ moved[c] \in Int
      BY TermsNat DEF RowsInv, Tables
    <2>5. Posted(c) = SumFunctionOnSet(f, Sessions) + moved[c]
          /\ Posted(c)' = SumFunctionOnSet(g, Sessions) + moved[c]
      BY <1>2 DEF Posted
    <2> HIDE DEF f, g
    <2>6. SumFunctionOnSet(g, Sessions) = SumFunctionOnSet(f, Sessions) + (g[s] - f[s])
      BY ONLY <2>1, <2>2, s \in Sessions, SumChange, SessionsAssumption
    <2>7. QED
      BY <1>5, <2>3, <2>4, <2>5, <2>6
  <1>12. ASSUME NEW i \in DOMAIN invoices[c]
         PROVE  Put(c, i)' <= Put(c, i) + (rem[i - 1] - rem[i])
    <2> DEFINE f == PutOf(c, i)
               g == PutOf(c, i)'
               x == rem[i - 1] - rem[i]
    <2>1. \A t \in Sessions : f[t] \in Int /\ g[t] \in Int
      BY TermsNat, TermsNatNext
    <2>2. \A t \in Sessions \ {s} : g[t] = f[t]
      BY <1>2 DEF PutOf, PutAt, Others
    <2>3. f[s] = 0
      BY <1>3 DEF PutOf, PutAt
    <2>4. x \in Nat /\ i # 0
      <3>1. i # 0
        BY <1>4
      <3>2. /\ gross \in Nat /\ invoices[c] \in Seq(Invoice) /\ rem \in Runs(gross, invoices[c])
            /\ \A j \in DOMAIN invoices[c] : Consistent(invoices[c][j])
        BY <1>1, <1>2, <1>4
      <3>3. \A j \in DOMAIN invoices[c] : rem[j - 1] - rem[j] \in Nat
        BY ONLY <3>2, RunSteps
      <3>4. QED
        BY <3>1, <3>3
    <2>5. g[s] <= x
      BY <1>5, <1>7, <2>4 DEF PutOf, PutAt
    <2>6. SumFunctionOnSet(f, Sessions) = Put(c, i) /\ SumFunctionOnSet(g, Sessions) = Put(c, i)'
      BY DEF Put
    <2>7. Put(c, i) \in Int /\ g[s] \in Int
      BY <2>1, TermsNat
    <2> HIDE DEF f, g, x
    <2>8. SumFunctionOnSet(g, Sessions) = SumFunctionOnSet(f, Sessions) + (g[s] - f[s])
      BY ONLY <2>1, <2>2, s \in Sessions, SumChange, SessionsAssumption
    <2>9. Put(c, i)' <= Put(c, i) + x
      BY <2>3, <2>4, <2>5, <2>6, <2>7, <2>8
    <2>10. QED
      BY <2>9 DEF x
  <1>13. SettledFor(c)'
    <2>1. SettledFor(c)
      BY DEF SettledInv
    <2>2. Posted(c)' = Posted(c) + (gross - rem[Len(invoices[c])])
      BY <1>11 DEF taken, n
    <2>3. QED
      BY <1>1, <1>2, <1>6, <1>9, <1>12, <2>1, <2>2, CustomerPoured
  <1>14. ASSUME NEW t \in Sessions PROVE MatchedOf(t)'
    <2>1. \A d \in Customers : Len(invoices[d]) <= Len(invoices'[d]) /\ Len(invoices'[d]) \in Nat
      <3>1. \A d \in Customers : Len(invoices[d]) \in Nat
        BY <1>4, LenProperties
      <3>2. QED
        BY <1>4, <1>6, <1>8, <3>1 DEF n
    <2>2. CASE t = s
      BY <1>5, <1>7, <1>8, <2>2 DEF MatchedOf
    <2>3. CASE t # s
      BY <1>2, <2>1, <2>3, MatchedKept DEF SettledInv, Others
    <2>4. QED
      BY <2>2, <2>3
  <1>15. QED
    BY <1>10, <1>13, <1>14 DEF SettledInv

(* The matched invoice gives back the payment's receivable, all of it if   *)
(* the payment touched no other.                                           *)
LEMMA SettledReverse ==
    ASSUME Inv, Inv', RowsInv, RowsInv', SettledInv, NEW s \in Sessions, ReverseCredit(s)
    PROVE  SettledInv'
  <1>1. /\ payment[s].status # "refunded" /\ Others(s) /\ moved' = moved /\ RollBackInvoice(s)
        /\ payment'[s] = [payment[s] EXCEPT !.status = "refunded"]
        /\ entries'[s]["receivable"] = 0
    BY ReverseCreditRows DEF Accounts
  <1>2. /\ payment[s] \in PaymentRow /\ entries[s]["receivable"] \in Nat
        /\ invoices \in [Customers -> Seq(Invoice)]
    <2>1. entries[s]["receivable"] \in Int /\ entries[s]["receivable"] >= 0
      BY DEF Inv, Rows, Accounts, RowsInv, RowInv, OriginOf
    <2>2. QED
      BY <2>1 DEF Inv, Rows, InvoicesInv
  <1>3. /\ payment'[s].status = "refunded" /\ payment'[s].customer = payment[s].customer
        /\ payment'[s].matched = payment[s].matched /\ payment'[s].touched = payment[s].touched
    BY <1>1, <1>2 DEF PaymentRow
  <1>4. ASSUME NEW d \in Customers PROVE Simple(d)' => Simple(d)
    BY <1>1, <1>3 DEF Simple, Others
  <1>5. CASE payment[s].matched = 0 \/ ~(entries[s]["receivable"] > 0)
    <2>1. entries[s]["receivable"] = 0
      BY <1>2, <1>5 DEF SettledInv, MatchedOf
    <2>2. invoices' = invoices
      BY <1>1, <1>5 DEF RollBackInvoice
    <2>3. MatchedOf(s)'
      BY <1>1, <1>3, <2>2 DEF SettledInv, MatchedOf
    <2>4. \A d \in Customers :
              /\ ReceivableAt(d, s)' = ReceivableAt(d, s)
              /\ \A i \in Nat \ {0} : PutAt(d, i, s)' = PutAt(d, i, s)
      BY <1>1, <2>1 DEF ReceivableAt, PutAt
    <2>5. QED
      BY <1>1, <1>4, <2>2, <2>3, <2>4, NoReceivable
  <1>6. CASE payment[s].matched # 0 /\ entries[s]["receivable"] > 0
    <2>1. payment[s].customer \in Customers
      BY <1>2, <1>6 DEF PaymentRow, RowsInv, RowInv, OriginOf
    <2>2. PICK c \in Customers : payment[s].customer = c
      BY <2>1
    <2>3. PICK i \in Nat : payment[s].matched = i
      BY <1>2 DEF PaymentRow
    <2>4. PICK x \in Nat : entries[s]["receivable"] = x
      BY <1>2
    <2>5. i # 0 /\ x > 0 /\ i \in DOMAIN invoices[c]
      <3>1. i \in 0..Len(invoices[c])
        BY <2>2, <2>3 DEF SettledInv, MatchedOf
      <3>2. DOMAIN invoices[c] = 1..Len(invoices[c]) /\ Len(invoices[c]) \in Nat
        BY <1>2, SettledTerms
      <3>3. QED
        BY <1>6, <2>3, <2>4, <3>1, <3>2
    <2>6. invoices' = [invoices EXCEPT ![c] = [invoices[c] EXCEPT ![i] = RolledBack(invoices[c][i], x)]]
      BY <1>1, <1>2, <2>2, <2>3, <2>4, <2>5 DEF RollBackInvoice
    <2>7. /\ invoices'[c] = [invoices[c] EXCEPT ![i] = RolledBack(invoices[c][i], x)]
          /\ \A d \in Customers \ {c} : invoices'[d] = invoices[d]
      BY <1>2, <2>6
    <2>8. ASSUME NEW d \in Customers PROVE SettledFor(d)'
      <3>1. CASE d # c
        <4>1. \A t \in Sessions : /\ ReceivableAt(d, t)' = ReceivableAt(d, t)
                                  /\ \A j \in DOMAIN invoices[d] : PutAt(d, j, t)' = PutAt(d, j, t)
          BY <1>1, <1>3, <2>2, <3>1 DEF ReceivableAt, PutAt, Others
        <4>2. QED
          BY <1>1, <1>4, <2>7, <3>1, <4>1, CustomerKept DEF SettledInv
      <3>2. CASE d = c
        <4>1. SUFFICES ASSUME Simple(c)'
                       PROVE  /\ SettledIn(invoices'[c]) = Posted(c)'
                              /\ \A j \in DOMAIN invoices'[c] : Put(c, j)' <= invoices'[c][j].settled
          BY <3>2 DEF SettledFor
        <4>2. /\ SettledIn(invoices[c]) = Posted(c)
              /\ \A j \in DOMAIN invoices[c] : Put(c, j) <= invoices[c][j].settled
          BY <1>4, <4>1 DEF SettledInv, SettledFor
        <4>3. payment[s].touched <= 1
          BY <1>3, <2>2, <4>1 DEF Simple
        <4>4. PutOf(c, i)[s] = x /\ PutOf(c, i)'[s] = 0
          BY <1>1, <1>3, <2>2, <2>3, <2>4, <4>3 DEF PutOf, PutAt
        <4>5. \A j : \A t \in Sessions :
                  /\ ReceivableOf(c)[t] \in Nat /\ PutOf(c, j)[t] \in Nat
                  /\ ReceivableOf(c)'[t] \in Int /\ PutOf(c, j)'[t] \in Int
          BY TermsNat, TermsNatNext
        <4>6. \A t \in Sessions \ {s} : /\ ReceivableOf(c)'[t] = ReceivableOf(c)[t]
                                        /\ \A j : PutOf(c, j)'[t] = PutOf(c, j)[t]
          BY <1>1 DEF ReceivableOf, ReceivableAt, PutOf, PutAt, Others
        <4>7. x <= Put(c, i) /\ Put(c, i)' = Put(c, i) - x
          <5> DEFINE f == PutOf(c, i)
                     g == PutOf(c, i)'
          <5>1. \A t \in Sessions : f[t] \in Nat
            BY <4>5
          <5>2. \A t \in Sessions : f[t] \in Int /\ g[t] \in Int
            BY <4>5
          <5>3. \A t \in Sessions \ {s} : g[t] = f[t]
            BY <4>6
          <5>4. f[s] = x /\ g[s] = 0
            BY <4>4
          <5>5. Put(c, i) = SumFunctionOnSet(f, Sessions) /\ Put(c, i)' = SumFunctionOnSet(g, Sessions)
            BY DEF Put
          <5>6. Put(c, i) \in Int
            BY TermsNat
          <5> HIDE DEF f, g
          <5>7. f[s] <= SumFunctionOnSet(f, Sessions)
            BY ONLY <5>1, s \in Sessions, SumAtLeast, SessionsAssumption
          <5>8. SumFunctionOnSet(g, Sessions) = SumFunctionOnSet(f, Sessions) + (g[s] - f[s])
            BY ONLY <5>2, <5>3, s \in Sessions, SumChange, SessionsAssumption
          <5>9. QED
            BY <5>4, <5>5, <5>6, <5>7, <5>8
        <4>8. ASSUME NEW j, j # i PROVE Put(c, j)' = Put(c, j)
          <5>1. \A t \in Sessions : PutAt(c, j, t)' = PutAt(c, j, t)
            BY <1>1, <1>3, <2>3, <4>8 DEF PutAt, Others
          <5>2. QED
            BY <5>1 DEF Put, PutOf
        <4>9. Posted(c)' = Posted(c) - x
          <5> DEFINE f == ReceivableOf(c)
                     g == ReceivableOf(c)'
          <5>1. \A t \in Sessions : f[t] \in Int /\ g[t] \in Int
            BY <4>5
          <5>2. \A t \in Sessions \ {s} : g[t] = f[t]
            BY <4>6
          <5>3. f[s] = x /\ g[s] = 0
            BY <1>1, <1>3, <2>2, <2>4 DEF ReceivableOf, ReceivableAt
          <5>4. SumFunctionOnSet(f, Sessions) \in Int /\ moved[c] \in Int
            BY TermsNat DEF RowsInv, Tables
          <5>5. /\ Posted(c) = SumFunctionOnSet(f, Sessions) + moved[c]
                /\ Posted(c)' = SumFunctionOnSet(g, Sessions) + moved[c]
            BY <1>1 DEF Posted
          <5> HIDE DEF f, g
          <5>6. SumFunctionOnSet(g, Sessions) = SumFunctionOnSet(f, Sessions) + (g[s] - f[s])
            BY ONLY <5>1, <5>2, s \in Sessions, SumChange, SessionsAssumption
          <5>7. QED
            BY <5>3, <5>4, <5>5, <5>6
        <4>10. Put(c, i) \in Int /\ invoices[c][i].settled \in Nat /\ x <= invoices[c][i].settled
          <5>1. Put(c, i) \in Int
            BY TermsNat
          <5>2. invoices[c][i].settled \in Nat
            BY <1>2, <2>5, SettledTerms
          <5>3. QED
            BY <2>5, <4>2, <4>7, <5>1, <5>2
        <4>11. /\ SettledIn(invoices'[c]) = SettledIn(invoices[c]) - x
               /\ DOMAIN invoices'[c] = DOMAIN invoices[c]
               /\ invoices'[c][i].settled = invoices[c][i].settled - x
               /\ \A j \in DOMAIN invoices[c] \ {i} : invoices'[c][j] = invoices[c][j]
          <5>1. invoices[c] \in Seq(Invoice)
            BY <1>2
          <5>2. QED
            BY <2>5, <2>7, <4>10, <5>1, RolledBackSettles
        <4>12. ASSUME NEW j \in DOMAIN invoices'[c] PROVE Put(c, j)' <= invoices'[c][j].settled
          <5>1. CASE j = i
            BY <4>2, <4>7, <4>10, <4>11, <5>1
          <5>2. CASE j # i
            BY <4>2, <4>8, <4>11, <5>2
          <5>3. QED
            BY <5>1, <5>2
        <4>13. QED
          BY <4>2, <4>9, <4>11, <4>12
      <3>3. QED
        BY <3>1, <3>2
    <2>9. \A d \in Customers : Len(invoices[d]) <= Len(invoices'[d]) /\ Len(invoices'[d]) \in Nat
      <3>1. \A d \in Customers : Len(invoices[d]) \in Nat
        BY <1>2, LenProperties
      <3>2. invoices[c] \in Seq(Invoice) /\ invoices'[c] \in Seq(Invoice)
        BY DEF Inv, InvoicesInv
      <3>3. /\ DOMAIN invoices[c] = 1..Len(invoices[c]) /\ Len(invoices[c]) \in Nat
            /\ DOMAIN invoices'[c] = 1..Len(invoices'[c]) /\ Len(invoices'[c]) \in Nat
        BY <3>2, SettledTerms
      <3>4. DOMAIN invoices'[c] = DOMAIN invoices[c]
        BY <2>7
      <3>5. Len(invoices'[c]) = Len(invoices[c])
        BY ONLY <3>3, <3>4, SameEnd
      <3>6. QED
        BY <2>7, <3>1, <3>5
    <2>10. ASSUME NEW t \in Sessions PROVE MatchedOf(t)'
      <3>1. CASE t = s
        <4>1. payment'[s].matched \in 0..Len(invoices'[c]) /\ payment'[s].customer = c
          <5>1. payment[s].matched \in 0..Len(invoices[c])
            BY <2>2 DEF SettledInv, MatchedOf
          <5>2. Len(invoices[c]) \in Nat
            BY <1>2, LenProperties
          <5>3. QED
            BY <1>3, <2>2, <2>9, <5>1, <5>2
        <4>2. QED
          BY <1>1, <3>1, <4>1 DEF MatchedOf
      <3>2. CASE t # s
        BY <1>1, <2>9, <3>2, MatchedKept DEF SettledInv, Others
      <3>3. QED
        BY <3>1, <3>2
    <2>11. QED
      BY <2>8, <2>10 DEF SettledInv
  <1>7. QED
    BY <1>2, <1>5, <1>6

(* Re-attribution, decisions, payouts: the invoices stay as they are.      *)
LEMMA SettledOrphan ==
    ASSUME Inv, Inv', RowsInv, SettledInv, NEW s \in Sessions,
           NEW gross \in Grosses, NEW fee \in Fees, ReconcileOrphan(s, gross, fee)
    PROVE  SettledInv'
  <1>1. /\ payment[s].status = "none" /\ Others(s) /\ invoices' = invoices /\ moved' = moved
        /\ payment'[s].status = "in_exception" /\ payment'[s].customer = NoCustomer
        /\ payment'[s].matched = 0 /\ entries'[s] = OrphanPostings(gross, fee)
    BY ReconcileOrphanRows
  <1>2. entries'[s]["receivable"] = 0
    BY <1>1 DEF OrphanPostings, Nothing, Accounts
  <1>3. payment[s].customer = NoCustomer /\ NoCustomer \notin Customers
    BY <1>1, NoCustomerAssumption DEF RowsInv, RowInv, OriginOf
  <1>4. MatchedOf(s)'
    BY <1>1, <1>2, <1>3 DEF MatchedOf
  <1>5. \A d \in Customers :
            /\ Simple(d)' => Simple(d)
            /\ ReceivableAt(d, s)' = ReceivableAt(d, s)
            /\ \A i \in Nat \ {0} : PutAt(d, i, s)' = PutAt(d, i, s)
    BY <1>1, <1>3 DEF Simple, ReceivableAt, PutAt, Others
  <1>6. QED
    BY <1>1, <1>4, <1>5, NoReceivable

LEMMA SettledReattribute ==
    ASSUME Inv, Inv', RowsInv, SettledInv, NEW s \in Sessions, NEW c \in Customers,
           Reattribute(s, c)
    PROVE  SettledInv'
  <1>1. /\ exception[s] = "open" /\ Others(s) /\ invoices' = invoices /\ moved' = moved
        /\ payment'[s] = [payment[s] EXCEPT !.customer = c, !.status = "reconciled"]
        /\ entries'[s]["receivable"] = entries[s]["receivable"]
    BY ReattributeRows
  <1>2. /\ payment[s].customer = NoCustomer /\ entries[s]["receivable"] = 0
        /\ payment[s].matched = 0 /\ payment[s] \in PaymentRow /\ NoCustomer \notin Customers
    BY <1>1, NoCustomerAssumption DEF RowsInv, RowInv, OriginOf, Inv, Rows
  <1>3. /\ payment'[s].status = "reconciled" /\ payment'[s].customer = c
        /\ payment'[s].matched = 0
    BY <1>1, <1>2 DEF PaymentRow
  <1>4. MatchedOf(s)'
    <2>1. Len(invoices[c]) \in Nat
      BY LenProperties DEF Inv, InvoicesInv
    <2>2. 0 \in 0..Len(invoices[c])
      BY <2>1
    <2>3. QED
      BY <1>1, <1>2, <1>3, <2>2 DEF MatchedOf
  <1>5. \A d \in Customers :
            /\ Simple(d)' => Simple(d)
            /\ ReceivableAt(d, s)' = ReceivableAt(d, s)
            /\ \A i \in Nat \ {0} : PutAt(d, i, s)' = PutAt(d, i, s)
    BY <1>1, <1>2, <1>3 DEF Simple, ReceivableAt, PutAt, Others
  <1>6. QED
    BY <1>1, <1>4, <1>5, NoReceivable

LEMMA SettledSame ==
    ASSUME Inv, Inv', RowsInv, SettledInv, UNCHANGED <<invoices, payment, moved>>,
           \A s \in Sessions : entries'[s]["receivable"] = entries[s]["receivable"]
    PROVE  SettledInv'
  <1>1. \A s \in Sessions : MatchedOf(s)'
    BY DEF SettledInv, MatchedOf
  <1>2. ASSUME NEW c \in Customers PROVE SettledFor(c)'
    <2>1. Simple(c)' => Simple(c)
      BY DEF Simple
    <2>2. \A s \in Sessions : /\ ReceivableAt(c, s)' = ReceivableAt(c, s)
                              /\ \A i \in DOMAIN invoices[c] : PutAt(c, i, s)' = PutAt(c, i, s)
      BY DEF ReceivableAt, PutAt
    <2>3. QED
      BY <2>1, <2>2, CustomerKept DEF SettledInv
  <1>3. QED
    BY <1>1, <1>2 DEF SettledInv

(* Credit poured over invoices is receivable on the ledger's other account *)
LEMMA SettledApply ==
    ASSUME Inv, Inv', RowsInv, RowsInv', SettledInv, NEW a \in Appliers, LockAndApply(a)
    PROVE  SettledInv'
  <1>1. PICK c \in Customers, available \in Nat :
            /\ \E rem \in Runs(available, invoices[c]) :
                     /\ rem[Len(invoices[c])] \in Nat /\ rem[Len(invoices[c])] <= available
                     /\ invoices' = [invoices EXCEPT ![c] = Poured(rem, invoices[c])]
                     /\ moved' = [moved EXCEPT ![c] =
                                      moved[c] + (available - rem[Len(invoices[c])])]
            /\ UNCHANGED <<payment, entries>>
    BY LockAndApplyRows
  <1>2. PICK rem \in Runs(available, invoices[c]) :
            /\ rem[Len(invoices[c])] \in Nat /\ rem[Len(invoices[c])] <= available
            /\ invoices' = [invoices EXCEPT ![c] = Poured(rem, invoices[c])]
            /\ moved' = [moved EXCEPT ![c] = moved[c] + (available - rem[Len(invoices[c])])]
    BY <1>1
  <1>3. /\ invoices \in [Customers -> Seq(Invoice)] /\ moved \in [Customers -> Int]
        /\ invoices[c] \in Seq(Invoice) /\ invoices'[c] \in Seq(Invoice)
        /\ \A i \in DOMAIN invoices[c] : Consistent(invoices[c][i])
    BY DEF Inv, InvoicesInv, RowsInv, Tables
  <1>4. /\ invoices'[c] = Poured(rem, invoices[c])
        /\ moved'[c] = moved[c] + (available - rem[Len(invoices[c])])
        /\ \A d \in Customers \ {c} : invoices'[d] = invoices[d] /\ moved'[d] = moved[d]
    BY <1>2, <1>3
  <1>5. \A d : /\ Simple(d)' => Simple(d)
               /\ ReceivableOf(d)' = ReceivableOf(d)
               /\ \A i : Put(d, i)' = Put(d, i)
               /\ \A s : /\ ReceivableAt(d, s)' = ReceivableAt(d, s)
                         /\ \A i : PutAt(d, i, s)' = PutAt(d, i, s)
    BY <1>1 DEF Simple, ReceivableOf, ReceivableAt, Put, PutOf, PutAt
  <1>6. ASSUME NEW d \in Customers, d # c PROVE SettledFor(d)'
    BY <1>4, <1>5, <1>6, CustomerKept DEF SettledInv
  <1>7. SettledFor(c)'
    <2>1. Posted(c)' = Posted(c) + (available - rem[Len(invoices[c])])
      <3>1. SumFunctionOnSet(ReceivableOf(c), Sessions) \in Int /\ moved[c] \in Int
        BY <1>3, TermsNat
      <3>2. /\ Posted(c) = SumFunctionOnSet(ReceivableOf(c), Sessions) + moved[c]
            /\ Posted(c)' = SumFunctionOnSet(ReceivableOf(c), Sessions) + moved'[c]
        BY <1>5 DEF Posted
      <3>3. QED
        BY <1>2, <1>4, <3>1, <3>2
    <2>2. ASSUME NEW i \in DOMAIN invoices[c]
          PROVE  Put(c, i)' <= Put(c, i) + (rem[i - 1] - rem[i])
      <3>1. \A j \in DOMAIN invoices[c] : rem[j - 1] - rem[j] \in Nat
        BY ONLY <1>3, available \in Nat, rem \in Runs(available, invoices[c]), RunSteps
      <3>2. Put(c, i)' = Put(c, i) /\ Put(c, i) \in Int
        BY <1>5, TermsNat
      <3> DEFINE x == rem[i - 1] - rem[i]
      <3>3. x \in Nat
        BY <3>1
      <3> HIDE DEF x
      <3>4. Put(c, i)' <= Put(c, i) + x
        BY <3>2, <3>3
      <3>5. QED
        BY <3>4 DEF x
    <2>3. SettledFor(c) /\ (Simple(c)' => Simple(c))
      BY <1>5 DEF SettledInv
    <2>4. QED
      BY <1>4, <2>1, <2>2, <2>3, CustomerPoured
  <1>8. ASSUME NEW s \in Sessions PROVE MatchedOf(s)'
    <2>1. \A d \in Customers : Len(invoices[d]) \in Nat
      BY <1>3, LenProperties
    <2>2. /\ DOMAIN invoices[c] = 1..Len(invoices[c]) /\ Len(invoices[c]) \in Nat
          /\ DOMAIN invoices'[c] = 1..Len(invoices'[c]) /\ Len(invoices'[c]) \in Nat
      BY <1>3, SettledTerms
    <2>3. DOMAIN invoices'[c] = DOMAIN invoices[c]
      BY <1>4 DEF Poured
    <2>4. Len(invoices'[c]) = Len(invoices[c])
      BY ONLY <2>2, <2>3, SameEnd
    <2>5. \A d \in Customers : Len(invoices[d]) <= Len(invoices'[d]) /\ Len(invoices'[d]) \in Nat
      BY <1>4, <2>1, <2>4
    <2>6. QED
      BY <1>1, <2>5, MatchedKept DEF SettledInv
  <1>9. QED
    BY <1>6, <1>7, <1>8 DEF SettledInv

LEMMA SettledPaymentStep ==
    ASSUME Inv, Inv', RowsInv, RowsInv', SettledInv, NEW s \in Sessions, PaymentStep(s)
    PROVE  SettledInv'
  <1>1. ASSUME NEW c \in Customers, NEW gross \in Grosses, NEW fee \in Fees,
               ReconcileCustomer(s, c, gross, fee)
        PROVE  SettledInv'
    BY <1>1, SettledReconcile
  <1>2. ASSUME NEW gross \in Grosses, NEW fee \in Fees, ReconcileOrphan(s, gross, fee)
        PROVE  SettledInv'
    BY <1>2, SettledOrphan
  <1>3. ASSUME ReverseCredit(s) PROVE SettledInv'
    BY <1>3, SettledReverse
  <1>4. ASSUME ResolveException(s) PROVE SettledInv'
    BY <1>4, SettledSame DEF ResolveException
  <1>5. ASSUME NEW c \in Customers, Reattribute(s, c) PROVE SettledInv'
    BY <1>5, SettledReattribute
  <1>6. ASSUME ApproveRefund(s) \/ FailRefund(s) \/ ReturnPayout(s) PROVE SettledInv'
    BY <1>6, SettledSame, DecisionRows
  <1>7. ASSUME PayOutRefund(s) PROVE SettledInv'
    BY <1>7, SettledSame, PayOutRefundRows DEF Others
  <1>8. QED
    BY <1>1, <1>2, <1>3, <1>4, <1>5, <1>6, <1>7 DEF PaymentStep

LEMMA SettledStep ==
    Inv /\ Inv' /\ RowsInv /\ RowsInv' /\ SettledInv /\ [Next]_vars => SettledInv'
  <1> SUFFICES ASSUME Inv, Inv', RowsInv, RowsInv', SettledInv, [Next]_vars PROVE SettledInv'
    OBVIOUS
  <1>1. ASSUME UNCHANGED <<invoices, payment, entries, moved>> PROVE SettledInv'
    BY <1>1, SettledSame
  <1>2. ASSUME NEW c \in Customers, NEW amount \in InvoiceAmounts, CreateInvoice(c, amount)
        PROVE  SettledInv'
    BY <1>2, SettledCreateInvoice
  <1>3. ASSUME NEW s \in Sessions, PaymentStep(s) PROVE SettledInv'
    BY <1>3, SettledPaymentStep
  <1>4. ASSUME NEW a \in Appliers, NEW c \in Customers, ReadBalance(a, c) PROVE SettledInv'
    BY <1>1, <1>4 DEF ReadBalance
  <1>5. ASSUME NEW a \in Appliers, ReadReserved(a) PROVE SettledInv'
    BY <1>1, <1>5 DEF ReadReserved
  <1>6. ASSUME NEW a \in Appliers, LockAndApply(a) PROVE SettledInv'
    BY <1>6, SettledApply
  <1>7. CASE UNCHANGED vars
    BY <1>1, <1>7 DEF vars
  <1>8. QED
    BY <1>2, <1>3, <1>4, <1>5, <1>6, <1>7 DEF Next

LEMMA SettledInit == Init => SettledInv
  <1> SUFFICES ASSUME Init PROVE SettledInv
    OBVIOUS
  <1>1. ASSUME NEW s \in Sessions
        PROVE  /\ payment[s].customer = NoCustomer /\ payment[s].matched = 0
               /\ entries[s]["receivable"] = 0
    BY DEF Init, NoPayment, Nothing, Accounts
  <1>2. ASSUME NEW s \in Sessions PROVE MatchedOf(s)
    BY <1>1, NoCustomerAssumption DEF MatchedOf
  <1>3. ASSUME NEW c \in Customers PROVE SettledFor(c)
    <2>1. invoices[c] = <<>> /\ moved[c] = 0
      BY DEF Init
    <2>2. DOMAIN invoices[c] = {}
      BY <2>1
    <2>3. SettledIn(invoices[c]) = 0
      BY <2>2, SumEmpty DEF SettledIn
    <2>4. \A s \in Sessions : ReceivableOf(c)[s] = 0
      BY <1>1 DEF ReceivableOf, ReceivableAt
    <2>5. SumFunctionOnSet(ReceivableOf(c), Sessions) = 0
      BY <2>4, SumZero, SessionsAssumption
    <2>6. Posted(c) = 0
      BY <2>1, <2>5 DEF Posted
    <2>7. QED
      BY <2>2, <2>3, <2>6 DEF SettledFor
  <1>4. QED
    BY <1>2, <1>3 DEF SettledInv

(* The definitions the property is stated with.                            *)
LEMMA SettledIs ==
    ASSUME Inv, RowsInv, NEW c \in Customers
    PROVE  Settled(c) = SettledIn(invoices[c]) /\ ReceivableApplied(c) = Posted(c)
  <1>1. Settled(c) = SettledIn(invoices[c])
    BY DEF Settled, SettledIn, SumFunction
  <1>2. ReceivableApplied(c) = Posted(c)
    <2> DEFINE T == PaymentsOf(c)
               f == [s \in T |-> entries[s]["receivable"]]
               g == ReceivableOf(c)
    <2>1. T \in SUBSET Sessions /\ DOMAIN f = T
      BY DEF PaymentsOf
    <2>2. \A s \in T : f[s] \in Int
      BY DEF PaymentsOf, Inv, Rows, Accounts
    <2>3. \A s \in Sessions : g[s] = IF s \in T THEN f[s] ELSE 0
      BY DEF PaymentsOf, ReceivableOf, ReceivableAt
    <2>4. /\ ReceivableApplied(c) = SumFunction(f) + moved[c]
          /\ Posted(c) = SumFunctionOnSet(g, Sessions) + moved[c]
      BY DEF ReceivableApplied, Posted
    <2> HIDE DEF T, f, g
    <2>5. SumFunction(f) = SumFunctionOnSet(g, Sessions)
      BY ONLY <2>1, <2>2, <2>3, SumOver, SessionsAssumption
    <2>6. QED
      BY <2>4, <2>5
  <1>3. QED
    BY <1>1, <1>2

(* What a session's receivable posting says, and what its invoices got,    *)
(* stay the same kobo through every transaction.                           *)
THEOREM SettledAlways == Spec => []SettledInv
  <1>1. Inv /\ Inv' /\ RowsInv /\ RowsInv' /\ SettledInv /\ [Next]_vars => SettledInv'
    BY SettledStep
  <1>2. QED
    BY <1>1, SettledInit, Invariance, RowsAlways, PTL DEF Spec

(* In any order of payments, credit applications and reversals, what a     *)
(* customer's invoices say is settled is what the ledger posted to the     *)
(* receivable account, unless a reversed payment had reached a second      *)
(* invoice: the roll-back gives back only the first.                       *)
THEOREM SettledIsReceivableAlways == Spec => []SettledIsReceivable
  <1>1. Inv /\ RowsInv /\ SettledInv => SettledIsReceivable
    <2> SUFFICES ASSUME Inv, RowsInv, SettledInv, NEW c \in Customers,
                        \A s \in PaymentsOf(c) :
                            payment[s].status = "refunded" => payment[s].touched <= 1
                 PROVE  Settled(c) = ReceivableApplied(c)
      BY DEF SettledIsReceivable
    <2>1. Simple(c)
      BY DEF Simple, PaymentsOf
    <2>2. QED
      BY <2>1, SettledIs DEF SettledInv, SettledFor
  <1>2. QED
    BY <1>1, Invariance, RowsAlways, SettledAlways, PTL

-----------------------------------------------------------------------------
(* The statement explains every kobo.  Term by term first: what a payment  *)
(* brought, and where it is.                                               *)
GrossOf(c) == [s \in Sessions |-> IF payment[s].customer = c THEN payment[s].gross ELSE 0]

NetOf(c) ==
    [s \in Sessions |-> IF payment[s].customer = c THEN payment[s].gross - payment[s].fee ELSE 0]

CashOf(c) == [s \in Sessions |-> IF payment[s].customer = c THEN entries[s]["cash"] ELSE 0]

CreditOf(c) == [s \in Sessions |-> IF payment[s].customer = c THEN entries[s]["credit"] ELSE 0]

PaidOf(c) == [s \in Sessions |-> IF payment[s].customer = c THEN PaidOutOf(s) ELSE 0]

Explained(c) == c \notin excused /\ PaymentsOf(c) \cap ReversedOrphans = {}

LEMMA PaymentExplained ==
    ASSUME Inv, RowsInv, NEW c \in Customers, Explained(c), NEW s \in Sessions,
           payment[s].customer = c
    PROVE  /\ payment[s].status # "refunded"
           /\ payment[s].gross = entries[s]["receivable"] + entries[s]["credit"] + PaidOutOf(s)
           /\ payment[s].gross - payment[s].fee = entries[s]["cash"] + PaidOutOf(s)
  <1>1. OriginOf(s) /\ SuspenseOf(s) /\ ExplainedOf(s) /\ Balanced(entries[s]) /\ c # NoCustomer
    BY NoCustomerAssumption DEF RowsInv, RowInv, Inv, PaymentsBalanced
  <1>2. payment[s].status \notin {"none", "in_exception", "refunded"} /\ ~refund[s].returned
    BY <1>1 DEF OriginOf, ExplainedOf, Explained
  <1>3. /\ payment[s] \in PaymentRow /\ entries[s] \in [Accounts -> Int] /\ refund[s] \in RefundRow
    BY DEF Inv, Rows
  <1>4. s \in Recorded /\ s \in PaymentsOf(c)
    BY <1>2 DEF Recorded, PaymentsOf
  <1>5. entries[s]["suspense"] = 0
    <2>1. entries[s]["suspense"] \in Int /\ entries[s]["suspense"] <= 0
      BY <1>1, <1>2, <1>3 DEF SuspenseOf, Accounts
    <2>2. ~(entries[s]["suspense"] < 0)
      BY <1>1, <1>2, <1>4 DEF SuspenseOf, ReversedOrphans, Explained
    <2>3. QED
      BY <2>1, <2>2
  <1>6. /\ entries[s]["fees"] = payment[s].fee
        /\ entries[s]["receivable"] + entries[s]["credit"] + PaidOutOf(s) = payment[s].gross
    BY <1>1, <1>2, <1>5 DEF ExplainedOf
  <1>7. /\ payment[s].gross \in Nat /\ payment[s].fee \in Nat /\ PaidOutOf(s) \in Nat
        /\ \A a \in Accounts : entries[s][a] \in Int
    BY <1>3 DEF PaymentRow, RefundRow, PaidOutOf
  <1>8. /\ entries[s]["cash"] \in Int /\ entries[s]["receivable"] \in Int
        /\ entries[s]["credit"] \in Int
    BY <1>7 DEF Accounts
  <1>9. entries[s]["cash"] + payment[s].fee = entries[s]["receivable"] + entries[s]["credit"]
    BY <1>1, <1>5, <1>6, <1>8 DEF Balanced
  <1> HIDE DEF PaidOutOf
  <1>10. QED
    BY <1>2, <1>6, <1>7, <1>8, <1>9

LEMMA TermsInt ==
    ASSUME Inv, NEW c
    PROVE  \A s \in Sessions :
               /\ GrossOf(c)[s] \in Int /\ NetOf(c)[s] \in Int /\ CashOf(c)[s] \in Int
               /\ CreditOf(c)[s] \in Int /\ PaidOf(c)[s] \in Int /\ ReceivableOf(c)[s] \in Int
  <1>1. ASSUME NEW s \in Sessions
        PROVE  /\ payment[s].gross \in Nat /\ payment[s].fee \in Nat /\ PaidOutOf(s) \in Nat
               /\ entries[s]["cash"] \in Int /\ entries[s]["receivable"] \in Int
               /\ entries[s]["credit"] \in Int
    BY DEF Inv, Rows, PaymentRow, RefundRow, PaidOutOf, Accounts
  <1>2. \A s \in Sessions : GrossOf(c)[s] \in Int
    BY <1>1 DEF GrossOf
  <1>3. \A s \in Sessions : NetOf(c)[s] \in Int
    BY <1>1 DEF NetOf
  <1>4. \A s \in Sessions : CashOf(c)[s] \in Int
    BY <1>1 DEF CashOf
  <1>5. \A s \in Sessions : CreditOf(c)[s] \in Int
    BY <1>1 DEF CreditOf
  <1>6. \A s \in Sessions : PaidOf(c)[s] \in Int
    BY <1>1 DEF PaidOf
  <1>7. \A s \in Sessions : ReceivableOf(c)[s] \in Int
    BY <1>1 DEF ReceivableOf, ReceivableAt
  <1>8. QED
    BY <1>2, <1>3, <1>4, <1>5, <1>6, <1>7

(* The sums of the statement as sums over all sessions.                    *)
LEMMA StatementSums ==
    ASSUME Inv, NEW c
    PROVE  /\ SumFunction([s \in PaymentsOf(c) |-> payment[s].gross])
                = SumFunctionOnSet(GrossOf(c), Sessions)
           /\ SumFunction([s \in PaymentsOf(c) |-> payment[s].gross - payment[s].fee])
                = SumFunctionOnSet(NetOf(c), Sessions)
           /\ SumFunction([s \in PaymentsOf(c) |-> entries[s]["cash"]])
                = SumFunctionOnSet(CashOf(c), Sessions)
           /\ SumFunction([s \in PaymentsOf(c) |-> entries[s]["credit"]])
                = SumFunctionOnSet(CreditOf(c), Sessions)
           /\ PaidOut(c) = SumFunctionOnSet(PaidOf(c), Sessions)
  <1> DEFINE T == PaymentsOf(c)
             U == Refunds("sent") \cap PaymentsOf(c)
             f1 == [s \in T |-> payment[s].gross]
             f2 == [s \in T |-> payment[s].gross - payment[s].fee]
             f3 == [s \in T |-> entries[s]["cash"]]
             f4 == [s \in T |-> entries[s]["credit"]]
             f5 == [s \in U |-> refund[s].amount]
             g1 == GrossOf(c)
             g2 == NetOf(c)
             g3 == CashOf(c)
             g4 == CreditOf(c)
             g5 == PaidOf(c)
  <1>1. T \in SUBSET Sessions /\ U \in SUBSET Sessions
    BY DEF PaymentsOf
  <1>2. /\ \A s \in Sessions : g1[s] \in Int /\ g2[s] \in Int /\ g3[s] \in Int
        /\ \A s \in Sessions : g4[s] \in Int /\ g5[s] \in Int
    BY TermsInt
  <1>3. DOMAIN f1 = T /\ \A s \in Sessions : g1[s] = IF s \in T THEN f1[s] ELSE 0
    BY DEF GrossOf, PaymentsOf
  <1>4. DOMAIN f2 = T /\ \A s \in Sessions : g2[s] = IF s \in T THEN f2[s] ELSE 0
    BY DEF NetOf, PaymentsOf
  <1>5. DOMAIN f3 = T /\ \A s \in Sessions : g3[s] = IF s \in T THEN f3[s] ELSE 0
    BY DEF CashOf, PaymentsOf
  <1>6. DOMAIN f4 = T /\ \A s \in Sessions : g4[s] = IF s \in T THEN f4[s] ELSE 0
    BY DEF CreditOf, PaymentsOf
  <1>7. DOMAIN f5 = U /\ \A s \in Sessions : g5[s] = IF s \in U THEN f5[s] ELSE 0
    BY DEF PaidOf, PaidOutOf, PaymentsOf, Refunds
  <1>8. PaidOut(c) = SumFunction(f5)
    BY DEF PaidOut
  <1> HIDE DEF f1, f2, f3, f4, f5, g1, g2, g3, g4, g5, T, U
  <1>9. /\ \A s \in T : f1[s] \in Int /\ f2[s] \in Int /\ f3[s] \in Int /\ f4[s] \in Int
        /\ \A s \in U : f5[s] \in Int
    BY <1>1, <1>2, <1>3, <1>4, <1>5, <1>6, <1>7
  <1>10. SumFunction(f1) = SumFunctionOnSet(g1, Sessions)
    BY ONLY <1>1, <1>3, <1>9, SumOver, SessionsAssumption
  <1>11. SumFunction(f2) = SumFunctionOnSet(g2, Sessions)
    BY ONLY <1>1, <1>4, <1>9, SumOver, SessionsAssumption
  <1>12. SumFunction(f3) = SumFunctionOnSet(g3, Sessions)
    BY ONLY <1>1, <1>5, <1>9, SumOver, SessionsAssumption
  <1>13. SumFunction(f4) = SumFunctionOnSet(g4, Sessions)
    BY ONLY <1>1, <1>6, <1>9, SumOver, SessionsAssumption
  <1>14. SumFunction(f5) = SumFunctionOnSet(g5, Sessions)
    BY ONLY <1>1, <1>7, <1>9, SumOver, SessionsAssumption
  <1>15. QED
    BY <1>8, <1>10, <1>11, <1>12, <1>13, <1>14 DEF f1, f2, f3, f4, f5, g1, g2, g3, g4, g5, T, U

LEMMA GrossExplained ==
    ASSUME Inv, RowsInv, SettledInv, NEW c \in Customers, Explained(c)
    PROVE  /\ SumFunction([s \in PaymentsOf(c) |-> payment[s].gross])
                = Settled(c) + CreditBalance(c) + PaidOut(c)
           /\ SumFunction([s \in PaymentsOf(c) |-> payment[s].gross - payment[s].fee])
                = SumFunction([s \in PaymentsOf(c) |-> entries[s]["cash"]]) + PaidOut(c)
  <1> DEFINE g == GrossOf(c)
             r == ReceivableOf(c)
             k == CreditOf(c)
             p == PaidOf(c)
             n == NetOf(c)
             cash == CashOf(c)
             rk == [s \in Sessions |-> r[s] + k[s]]
  <1>1. /\ \A s \in Sessions : g[s] \in Int /\ r[s] \in Int /\ k[s] \in Int
        /\ \A s \in Sessions : p[s] \in Int /\ n[s] \in Int /\ cash[s] \in Int
    BY TermsInt
  <1>2. ASSUME NEW s \in Sessions PROVE g[s] = r[s] + k[s] + p[s] /\ n[s] = cash[s] + p[s]
    <2>1. CASE payment[s].customer = c
      <3>1. /\ payment[s].gross = entries[s]["receivable"] + entries[s]["credit"] + PaidOutOf(s)
            /\ payment[s].gross - payment[s].fee = entries[s]["cash"] + PaidOutOf(s)
        BY <2>1, PaymentExplained
      <3>2. QED
        BY <2>1, <3>1 DEF GrossOf, ReceivableOf, ReceivableAt, CreditOf, PaidOf, NetOf, CashOf
    <2>2. CASE payment[s].customer # c
      BY <2>2 DEF GrossOf, ReceivableOf, ReceivableAt, CreditOf, PaidOf, NetOf, CashOf
    <2>3. QED
      BY <2>1, <2>2
  <1>3. \A s \in Sessions : rk[s] = r[s] + k[s]
    OBVIOUS
  <1>4. Simple(c)
    BY PaymentExplained DEF Simple
  <1>5. Settled(c) = SumFunctionOnSet(r, Sessions) + moved[c] /\ moved[c] \in Int
    <2>1. Settled(c) = Posted(c)
      BY <1>4, SettledIs DEF SettledInv, SettledFor
    <2>2. QED
      BY <2>1 DEF Posted, RowsInv, Tables
  <1>6. CreditBalance(c) = SumFunctionOnSet(k, Sessions) - moved[c]
    BY StatementSums DEF CreditBalance
  <1>7. /\ SumFunction([s \in PaymentsOf(c) |-> payment[s].gross]) = SumFunctionOnSet(g, Sessions)
        /\ SumFunction([s \in PaymentsOf(c) |-> payment[s].gross - payment[s].fee])
              = SumFunctionOnSet(n, Sessions)
        /\ SumFunction([s \in PaymentsOf(c) |-> entries[s]["cash"]])
              = SumFunctionOnSet(cash, Sessions)
        /\ PaidOut(c) = SumFunctionOnSet(p, Sessions)
    BY StatementSums
  <1> HIDE DEF g, r, k, p, n, cash, rk
  <1>8. \A s \in Sessions : rk[s] \in Int /\ g[s] = rk[s] + p[s]
    BY <1>1, <1>2, <1>3
  <1>9. SumFunctionOnSet(rk, Sessions) = SumFunctionOnSet(r, Sessions) + SumFunctionOnSet(k, Sessions)
    BY ONLY <1>1, <1>3, SumPlus, SessionsAssumption
  <1>10. SumFunctionOnSet(g, Sessions) = SumFunctionOnSet(rk, Sessions) + SumFunctionOnSet(p, Sessions)
    BY ONLY <1>1, <1>8, SumPlus, SessionsAssumption
  <1>11. SumFunctionOnSet(n, Sessions) = SumFunctionOnSet(cash, Sessions) + SumFunctionOnSet(p, Sessions)
    BY ONLY <1>1, <1>2, SumPlus, SessionsAssumption
  <1>12. SumFunctionOnSet(r, Sessions) \in Int
    BY ONLY <1>1, SumInt, SessionsAssumption
  <1>13. SumFunctionOnSet(k, Sessions) \in Int
    BY ONLY <1>1, SumInt, SessionsAssumption
  <1>14. SumFunctionOnSet(p, Sessions) \in Int
    BY ONLY <1>1, SumInt, SessionsAssumption
  <1>15. Settled(c) + CreditBalance(c) + PaidOut(c)
            = SumFunctionOnSet(r, Sessions) + SumFunctionOnSet(k, Sessions)
                + SumFunctionOnSet(p, Sessions)
    BY ONLY <1>5, <1>6, <1>7, <1>12, <1>13, <1>14
  <1>16. QED
    BY <1>7, <1>9, <1>10, <1>11, <1>15

LEMMA NothingOpen ==
    ASSUME NEW c \in Customers, \A i \in DOMAIN invoices[c] : invoices[c][i].status = "settled"
    PROVE  Receivable(c) = 0
  <1> DEFINE f == [i \in OpenInvoices(c) |-> Outstanding(invoices[c][i])]
  <1>1. OpenInvoices(c) = {}
    BY DEF OpenInvoices, IsOpen
  <1>2. DOMAIN f = {} /\ Receivable(c) = SumFunction(f)
    BY <1>1 DEF Receivable
  <1> HIDE DEF f
  <1>3. SumFunction(f) = SumFunctionOnSet(f, {})
    BY <1>2 DEF SumFunction
  <1>4. QED
    BY <1>2, <1>3, SumEmpty

(* Whatever happens to the payments of a customer, short of a reversal, a  *)
(* returned payout or an application of stale figures, the statement shows *)
(* where every kobo went, its timeline ends at the cash that came in, and  *)
(* a receivable has an unsettled invoice to show for it.                   *)
THEOREM StatementExplainsAlways == Spec => []StatementExplains
  <1>1. Inv /\ RowsInv /\ SettledInv => StatementExplains
    <2> SUFFICES ASSUME Inv, RowsInv, SettledInv,
                        NEW c \in {d \in Customers \ excused :
                                      PaymentsOf(d) \cap ReversedOrphans = {}}
                 PROVE  LET statement == Statement(c)
                            gross == SumFunction([s \in statement.payments |-> payment[s].gross])
                            cash == SumFunction([s \in statement.payments |-> entries[s]["cash"]])
                        IN /\ gross = Settled(c) + statement.credit + PaidOut(c)
                           /\ Timeline(statement) = cash + PaidOut(c)
                           /\ statement.receivable > 0 =>
                                 \E i \in DOMAIN statement.invoices :
                                     statement.invoices[i].status # "settled"
      BY DEF StatementExplains
    <2>1. c \in Customers /\ Explained(c)
      BY DEF Explained
    <2> DEFINE statement == Statement(c)
    <2>2. /\ statement.payments = PaymentsOf(c) /\ statement.credit = CreditBalance(c)
          /\ statement.invoices = invoices[c] /\ statement.receivable = Receivable(c)
      BY DEF Statement
    <2> HIDE DEF statement
    <2>3. SumFunction([s \in statement.payments |-> payment[s].gross])
             = Settled(c) + statement.credit + PaidOut(c)
      BY <2>1, <2>2, GrossExplained
    <2>4. Timeline(statement)
             = SumFunction([s \in statement.payments |-> entries[s]["cash"]]) + PaidOut(c)
      BY <2>1, <2>2, GrossExplained DEF Timeline
    <2>5. statement.receivable > 0 =>
             \E i \in DOMAIN statement.invoices : statement.invoices[i].status # "settled"
      <3>1. SUFFICES ASSUME \A i \in DOMAIN invoices[c] : invoices[c][i].status = "settled"
                     PROVE  ~(Receivable(c) > 0)
        BY <2>2
      <3>2. Receivable(c) = 0
        BY <2>1, <3>1, NothingOpen
      <3>3. QED
        BY <3>2
    <2>6. QED
      BY <2>3, <2>4, <2>5 DEF statement
  <1>2. QED
    BY <1>1, Invariance, RowsAlways, SettledAlways, PTL

-----------------------------------------------------------------------------
(* The pages agree.  What is billed is settled or receivable, invoice by   *)
(* invoice, although one side goes by amounts and the other by status.     *)
BilledTerm(c) == [i \in DOMAIN invoices[c] |-> invoices[c][i].expected]

SettledTerm(c) == [i \in DOMAIN invoices[c] |-> invoices[c][i].settled]

OpenTerm(c) ==
    [i \in DOMAIN invoices[c] |->
        IF i \in OpenInvoices(c) THEN Outstanding(invoices[c][i]) ELSE 0]

LEMMA InvoiceTerms ==
    ASSUME Inv, NEW c \in Customers
    PROVE  /\ IsFiniteSet(DOMAIN invoices[c])
           /\ \A i \in DOMAIN invoices[c] :
                 /\ BilledTerm(c)[i] \in Nat /\ SettledTerm(c)[i] \in Nat /\ OpenTerm(c)[i] \in Nat
                 /\ BilledTerm(c)[i] = SettledTerm(c)[i] + OpenTerm(c)[i]
  <1>1. invoices[c] \in Seq(Invoice) /\ \A i \in DOMAIN invoices[c] : Consistent(invoices[c][i])
    BY DEF Inv, InvoicesInv
  <1>2. IsFiniteSet(DOMAIN invoices[c]) /\ \A i \in DOMAIN invoices[c] : invoices[c][i] \in Invoice
    BY <1>1, SettledTerms
  <1>3. ASSUME NEW i \in DOMAIN invoices[c]
        PROVE  /\ BilledTerm(c)[i] \in Nat /\ SettledTerm(c)[i] \in Nat /\ OpenTerm(c)[i] \in Nat
               /\ BilledTerm(c)[i] = SettledTerm(c)[i] + OpenTerm(c)[i]
    <2> DEFINE inv == invoices[c][i]
    <2>1. inv \in Invoice /\ Consistent(inv)
      BY <1>1, <1>2
    <2>2. i \in OpenInvoices(c) <=> IsOpen(inv)
      BY DEF OpenInvoices
    <2>3. /\ BilledTerm(c)[i] = inv.expected /\ SettledTerm(c)[i] = inv.settled
          /\ OpenTerm(c)[i] = IF IsOpen(inv) THEN Outstanding(inv) ELSE 0
      BY <2>2 DEF BilledTerm, SettledTerm, OpenTerm
    <2> HIDE DEF inv
    <2>4. inv.expected \in Nat /\ inv.settled \in Nat /\ inv.settled <= inv.expected
      BY <2>1 DEF Invoice, Consistent
    <2>5. ~IsOpen(inv) => inv.settled = inv.expected
      BY <2>1 DEF Invoice, InvoiceStatus, Consistent, IsOpen
    <2>6. QED
      BY <2>3, <2>4, <2>5 DEF Outstanding
  <1>4. QED
    BY <1>2, <1>3

LEMMA BilledIs ==
    ASSUME Inv, NEW c \in Customers
    PROVE  /\ Settled(c) \in Nat /\ Receivable(c) \in Nat
           /\ Billed(c) = Settled(c) + Receivable(c)
  <1> DEFINE D == DOMAIN invoices[c]
             b == BilledTerm(c)
             t == SettledTerm(c)
             o == OpenTerm(c)
             O == OpenInvoices(c)
             f == [i \in O |-> Outstanding(invoices[c][i])]
  <1>1. IsFiniteSet(D) /\ O \in SUBSET D
    BY InvoiceTerms DEF OpenInvoices
  <1>2. \A i \in D : b[i] \in Nat /\ t[i] \in Nat /\ o[i] \in Nat /\ b[i] = t[i] + o[i]
    BY InvoiceTerms
  <1>3. /\ Billed(c) = SumFunctionOnSet(b, D) /\ Settled(c) = SumFunctionOnSet(t, D)
        /\ Receivable(c) = SumFunction(f)
    BY DEF Billed, Settled, Receivable, SumFunction, BilledTerm, SettledTerm
  <1>4. DOMAIN f = O /\ \A i \in D : o[i] = IF i \in O THEN f[i] ELSE 0
    BY DEF OpenTerm
  <1> HIDE DEF D, b, t, o, O, f
  <1>5. /\ \A i \in D : t[i] \in Int /\ o[i] \in Int /\ b[i] = t[i] + o[i]
        /\ \A i \in O : f[i] \in Int
    BY <1>1, <1>2, <1>4
  <1>6. SumFunction(f) = SumFunctionOnSet(o, D)
    BY ONLY <1>1, <1>4, <1>5, SumOver
  <1>7. SumFunctionOnSet(b, D) = SumFunctionOnSet(t, D) + SumFunctionOnSet(o, D)
    BY ONLY <1>1, <1>5, SumPlus
  <1>8. SumFunctionOnSet(t, D) \in Nat
    BY ONLY <1>1, <1>2, SumNat
  <1>9. SumFunctionOnSet(o, D) \in Nat
    BY ONLY <1>1, <1>2, SumNat
  <1>10. QED
    BY <1>3, <1>6, <1>7, <1>8, <1>9

(* The cards of the pages.                                                 *)
LEMMA CardsAgree ==
    ASSUME Inv
    PROVE  /\ TotalSettled \in Nat /\ TotalReceivable \in Nat
           /\ TotalBilled = TotalSettled + TotalReceivable
           /\ SumFunction([c \in Defaulters |-> Receivable(c)]) = TotalReceivable
           /\ TotalReceivable = 0 => Defaulters = {}
  <1> DEFINE b == [c \in Customers |-> Billed(c)]
             t == [c \in Customers |-> Settled(c)]
             r == [c \in Customers |-> Receivable(c)]
             f == [c \in Defaulters |-> Receivable(c)]
  <1>1. \A c \in Customers : t[c] \in Nat /\ r[c] \in Nat /\ b[c] = t[c] + r[c]
    BY BilledIs
  <1>2. /\ TotalBilled = SumFunctionOnSet(b, Customers)
        /\ TotalSettled = SumFunctionOnSet(t, Customers)
        /\ TotalReceivable = SumFunctionOnSet(r, Customers)
    BY DEF TotalBilled, TotalSettled, TotalReceivable, SumFunction
  <1>3. /\ Defaulters \in SUBSET Customers /\ DOMAIN f = Defaulters
        /\ \A c \in Customers : c \in Defaulters <=> r[c] > 0
        /\ \A c \in Defaulters : f[c] = r[c]
    BY DEF Defaulters
  <1> HIDE DEF b, t, r, f
  <1>4. /\ \A c \in Customers : t[c] \in Int /\ r[c] \in Int /\ b[c] = t[c] + r[c]
        /\ \A c \in Customers : r[c] = IF c \in Defaulters THEN f[c] ELSE 0
        /\ \A c \in Defaulters : f[c] \in Int
    BY <1>1, <1>3
  <1>5. SumFunctionOnSet(b, Customers)
           = SumFunctionOnSet(t, Customers) + SumFunctionOnSet(r, Customers)
    BY ONLY <1>4, SumPlus, CustomersAssumption
  <1>6. SumFunctionOnSet(t, Customers) \in Nat
    BY ONLY <1>1, SumNat, CustomersAssumption
  <1>7. SumFunctionOnSet(r, Customers) \in Nat
    BY ONLY <1>1, SumNat, CustomersAssumption
  <1>8. SumFunction(f) = SumFunctionOnSet(r, Customers)
    BY ONLY <1>3, <1>4, SumOver, CustomersAssumption
  <1>9. ASSUME SumFunctionOnSet(r, Customers) = 0, NEW c \in Defaulters PROVE FALSE
    <2>1. c \in Customers /\ r[c] > 0 /\ r[c] \in Nat
      BY <1>1, <1>3
    <2>2. \A d \in Customers : r[d] \in Nat
      BY ONLY <1>1
    <2>t. c \in Customers
      BY ONLY <2>1
    <2>3. r[c] <= SumFunctionOnSet(r, Customers)
      BY ONLY <2>t, <2>2, SumAtLeast, CustomersAssumption
    <2>4. QED
      BY <1>9, <2>1, <2>3
  <1>10. QED
    BY <1>2, <1>5, <1>6, <1>7, <1>8, <1>9 DEF f

LEMMA RateOf ==
    ASSUME NEW full \in Nat, NEW settled \in Nat, NEW billed \in Nat,
           full # 0, settled <= billed, billed # 0,
           NEW rate, rate = (settled * full) \div billed
    PROVE  rate \in 0..full /\ (rate = full => settled = billed)
  <1>1. billed > 0 /\ settled * full \in Nat
    OBVIOUS
  <1>2. rate \in Int /\ billed * rate <= settled * full /\ settled * full < billed * rate + billed
    BY <1>1
  <1>3. rate >= 0
    <2>1. CASE rate < 0
      <3>1. rate <= -1
        BY <1>2, <2>1
      <3>2. billed * rate <= billed * (-1)
        BY ONLY <1>1, <1>2, <3>1, billed \in Nat
      <3>3. QED
        BY <1>1, <1>2, <3>2
    <2>2. QED
      BY <1>2, <2>1
  <1>4. settled * full <= billed * full
    OBVIOUS
  <1>5. rate <= full
    <2>1. CASE rate > full
      <3>1. billed * rate >= billed * (full + 1)
        BY <1>1, <1>2, <2>1
      <3>2. billed * (full + 1) = billed * full + billed
        OBVIOUS
      <3>3. QED
        BY <1>1, <1>2, <1>4, <3>1, <3>2
    <2>2. QED
      BY <1>2, <2>1
  <1>6. rate = full => settled = billed
    <2>1. CASE settled + 1 <= billed
      <3>1. (settled + 1) * full <= billed * full
        BY <2>1
      <3>2. (settled + 1) * full = settled * full + full
        OBVIOUS
      <3>3. QED
        BY <1>2, <3>1, <3>2
    <2>2. QED
      BY <2>1
  <1>7. QED
    BY <1>2, <1>3, <1>5, <1>6

(* The payments, split by label, by status and by what is unattributed.    *)
LEMMA Halves ==
    ASSUME NEW A, NEW B, IsFiniteSet(A \cup B), A \cap B = {}
    PROVE  /\ IsFiniteSet(A) /\ IsFiniteSet(B) /\ Cardinality(A) \in Nat /\ Cardinality(B) \in Nat
           /\ Cardinality(A \cup B) = Cardinality(A) + Cardinality(B)
  <1>1. IsFiniteSet(A) /\ IsFiniteSet(B)
    <2>1. A \in SUBSET (A \cup B) /\ B \in SUBSET (A \cup B)
      OBVIOUS
    <2>2. QED
      BY <2>1, FS_Subset
  <1>2. Cardinality(A \cup B) = Cardinality(A) + Cardinality(B) - Cardinality(A \cap B)
    BY <1>1, FS_Union
  <1>3. Cardinality(A \cap B) = 0
    BY FS_EmptySet
  <1>4. Cardinality(A) \in Nat /\ Cardinality(B) \in Nat
    BY <1>1, FS_CardinalityType
  <1>5. QED
    BY <1>1, <1>2, <1>3, <1>4

LEMMA SplitByLabel ==
    ASSUME Inv, RowsInv
    PROVE  Cardinality(Recorded) = Slice("exact") + Slice("underpayment") + Slice("overpayment")
                                     + Slice("orphan")
  <1> DEFINE Of(label) == {s \in Recorded : payment[s].label = label}
             A == Of("exact")
             B == Of("underpayment")
             C == Of("overpayment")
             D == Of("orphan")
  <1>1. IsFiniteSet(Recorded)
    <2>1. Recorded \in SUBSET Sessions
      BY DEF Recorded
    <2>2. QED
      BY <2>1, SessionsAssumption, FS_Subset
  <1>2. ASSUME NEW s \in Recorded
        PROVE  payment[s].label \in {"exact", "underpayment", "overpayment", "orphan"}
    <2>1. s \in Sessions /\ payment[s].status # "none"
      BY DEF Recorded
    <2>2. payment[s] \in PaymentRow /\ payment[s].label # "none"
      BY <2>1 DEF Inv, Rows, RowsInv, RowInv, OriginOf
    <2>3. QED
      BY <2>2 DEF PaymentRow
  <1>3. Recorded = A \cup (B \cup (C \cup D))
    BY <1>2
  <1>4. /\ A \cap (B \cup (C \cup D)) = {} /\ B \cap (C \cup D) = {} /\ C \cap D = {}
    OBVIOUS
  <1>5. /\ Slice("exact") = Cardinality(A) /\ Slice("underpayment") = Cardinality(B)
        /\ Slice("overpayment") = Cardinality(C) /\ Slice("orphan") = Cardinality(D)
    BY DEF Slice
  <1> HIDE DEF A, B, C, D
  <1>6. /\ IsFiniteSet(B \cup (C \cup D)) /\ Cardinality(A) \in Nat
        /\ Cardinality(Recorded) = Cardinality(A) + Cardinality(B \cup (C \cup D))
    BY ONLY <1>1, <1>3, <1>4, Halves
  <1>7. /\ IsFiniteSet(C \cup D) /\ Cardinality(B) \in Nat
        /\ Cardinality(B \cup (C \cup D)) = Cardinality(B) + Cardinality(C \cup D)
    BY ONLY <1>4, <1>6, Halves
  <1>8. /\ Cardinality(C) \in Nat /\ Cardinality(D) \in Nat
        /\ Cardinality(C \cup D) = Cardinality(C) + Cardinality(D)
    BY ONLY <1>4, <1>7, Halves
  <1>9. QED
    <2>1. PICK a \in Nat : a = Cardinality(A)
      BY <1>6
    <2>2. PICK b \in Nat : b = Cardinality(B)
      BY <1>7
    <2>3. PICK c \in Nat : c = Cardinality(C)
      BY <1>8
    <2>4. PICK d \in Nat : d = Cardinality(D)
      BY <1>8
    <2>5. Cardinality(Recorded) = a + (b + (c + d))
      BY ONLY <1>6, <1>7, <1>8, <2>1, <2>2, <2>3, <2>4
    <2>6. a + (b + (c + d)) = a + b + c + d
      BY ONLY a \in Nat, b \in Nat, c \in Nat, d \in Nat
    <2>7. QED
      BY ONLY <1>5, <2>1, <2>2, <2>3, <2>4, <2>5, <2>6

LEMMA SplitByStatus ==
    ASSUME Inv
    PROVE  Cardinality(Recorded) = Volume("reconciled") + Volume("in_exception")
                                     + Volume("refunded")
  <1> DEFINE Of(status) == {s \in Recorded : payment[s].status = status}
             A == Of("reconciled")
             B == Of("in_exception")
             C == Of("refunded")
  <1>1. IsFiniteSet(Recorded)
    <2>1. Recorded \in SUBSET Sessions
      BY DEF Recorded
    <2>2. QED
      BY <2>1, SessionsAssumption, FS_Subset
  <1>2. ASSUME NEW s \in Recorded
        PROVE  payment[s].status \in {"reconciled", "in_exception", "refunded"}
    <2>1. s \in Sessions /\ payment[s].status # "none" /\ payment[s] \in PaymentRow
      BY DEF Recorded, Inv, Rows
    <2>2. QED
      BY <2>1 DEF PaymentRow
  <1>3. Recorded = A \cup (B \cup C)
    BY <1>2
  <1>4. A \cap (B \cup C) = {} /\ B \cap C = {}
    OBVIOUS
  <1>5. /\ Volume("reconciled") = Cardinality(A) /\ Volume("in_exception") = Cardinality(B)
        /\ Volume("refunded") = Cardinality(C)
    BY DEF Volume
  <1> HIDE DEF A, B, C
  <1>6. /\ IsFiniteSet(B \cup C) /\ Cardinality(A) \in Nat
        /\ Cardinality(Recorded) = Cardinality(A) + Cardinality(B \cup C)
    BY ONLY <1>1, <1>3, <1>4, Halves
  <1>7. /\ Cardinality(B) \in Nat /\ Cardinality(C) \in Nat
        /\ Cardinality(B \cup C) = Cardinality(B) + Cardinality(C)
    BY ONLY <1>4, <1>6, Halves
  <1>8. QED
    BY ONLY <1>5, <1>6, <1>7

(* Suspense is what is in exception, if no orphan was reversed.            *)
Unattributed == {s \in Recorded : payment[s].status = "in_exception"}

LEMMA SuspenseShown ==
    ASSUME Inv, RowsInv, ReversedOrphans = {},
           NEW R, R = {s \in Unattributed : exception[s] = "resolved"}
    PROVE  /\ SumFunction([s \in Sessions |-> entries[s]["suspense"]])
                = SumFunction([s \in OpenExceptions |-> payment[s].gross])
                    + SumFunction([s \in R |-> payment[s].gross])
           /\ Cardinality(OpenExceptions) + Cardinality(R) = Cardinality(Unattributed)
  <1> DEFINE O == OpenExceptions
             h == [s \in Sessions |-> entries[s]["suspense"]]
             fo == [s \in O |-> payment[s].gross]
             fr == [s \in R |-> payment[s].gross]
             go == [s \in Sessions |-> IF s \in O THEN fo[s] ELSE 0]
             gr == [s \in Sessions |-> IF s \in R THEN fr[s] ELSE 0]
  <1>1. ASSUME NEW s \in Sessions
        PROVE  /\ OriginOf(s) /\ SuspenseOf(s) /\ payment[s] \in PaymentRow
               /\ payment[s].gross \in Nat /\ entries[s]["suspense"] \in Int
               /\ payment[s].status = "in_exception" => entries[s]["suspense"] = payment[s].gross
    BY DEF RowsInv, RowInv, Inv, Rows, PaymentRow, PaymentsBalanced, Accounts
  <1>2. ASSUME NEW s \in Sessions
        PROVE  s \in O <=> s \in Unattributed /\ exception[s] = "open"
    <2>1. CASE exception[s] = "open"
      <3>1. payment[s].label = "orphan" /\ payment[s].status \in {"in_exception", "refunded"}
        BY <1>1, <2>1 DEF OriginOf
      <3>2. s \in Recorded
        BY <3>1 DEF Recorded
      <3>3. payment[s].status # "refunded"
        BY <3>1, <3>2 DEF ReversedOrphans
      <3>4. QED
        BY <2>1, <3>1, <3>2, <3>3 DEF Unattributed, OpenExceptions
    <2>2. CASE exception[s] # "open"
      BY <2>2 DEF OpenExceptions
    <2>3. QED
      BY <2>1, <2>2
  <1>3. Unattributed \in SUBSET Sessions /\ O \in SUBSET Sessions /\ R \in SUBSET Sessions
    BY DEF Unattributed, Recorded, OpenExceptions
  <1>4. ASSUME NEW s \in Unattributed PROVE exception[s] \in {"open", "resolved"}
    BY <1>1, <1>3 DEF Unattributed, OriginOf
  <1>5. O \cup R = Unattributed /\ O \cap R = {}
    BY <1>2, <1>3, <1>4
  <1>6. ASSUME NEW s \in Sessions, s \notin Unattributed PROVE entries[s]["suspense"] = 0
    <2>1. CASE payment[s].status = "none"
      BY <1>1, <2>1 DEF OriginOf
    <2>2. CASE payment[s].status # "none"
      <3>1. s \in Recorded /\ payment[s].status # "in_exception"
        BY <1>6, <2>2 DEF Recorded, Unattributed
      <3>2. /\ entries[s]["suspense"] <= 0
            /\ entries[s]["suspense"] < 0 => payment[s].label = "orphan"
        BY <1>1, <3>1 DEF SuspenseOf
      <3>3. ~(entries[s]["suspense"] < 0)
        BY <3>1, <3>2 DEF ReversedOrphans
      <3>4. QED
        BY <1>1, <3>2, <3>3
    <2>3. QED
      BY <2>1, <2>2
  <1>7. ASSUME NEW s \in Unattributed PROVE entries[s]["suspense"] = payment[s].gross
    BY <1>1, <1>3 DEF Unattributed
  <1>8. ASSUME NEW s \in Sessions
        PROVE  go[s] \in Int /\ gr[s] \in Int /\ h[s] = go[s] + gr[s]
    <2>1. payment[s].gross \in Nat /\ h[s] = entries[s]["suspense"]
      BY <1>1
    <2>2. /\ go[s] = IF s \in O THEN payment[s].gross ELSE 0
          /\ gr[s] = IF s \in R THEN payment[s].gross ELSE 0
      OBVIOUS
    <2>3. CASE s \in Unattributed
      <3>1. h[s] = payment[s].gross
        BY <1>7, <2>1, <2>3
      <3>2. (s \in O /\ s \notin R) \/ (s \notin O /\ s \in R)
        BY <1>5, <2>3
      <3> HIDE DEF go, gr, h, O
      <3>3. QED
        BY <2>1, <2>2, <3>1, <3>2
    <2>4. CASE s \notin Unattributed
      <3>1. h[s] = 0 /\ s \notin O /\ s \notin R
        BY <1>5, <1>6, <2>1, <2>4
      <3> HIDE DEF go, gr, h, O
      <3>2. QED
        BY <2>2, <3>1
    <2>5. QED
      BY <2>3, <2>4
  <1>9. /\ DOMAIN fo = O /\ DOMAIN fr = R
        /\ \A s \in O : fo[s] \in Int
        /\ \A s \in R : fr[s] \in Int
        /\ \A s \in Sessions : go[s] = IF s \in O THEN fo[s] ELSE 0
        /\ \A s \in Sessions : gr[s] = IF s \in R THEN fr[s] ELSE 0
    BY <1>1, <1>3
  <1>10. SumFunction(h) = SumFunctionOnSet(h, Sessions)
    BY DEF SumFunction
  <1>11. IsFiniteSet(Unattributed)
    BY <1>3, SessionsAssumption, FS_Subset
  <1> HIDE DEF O, h, fo, fr, go, gr
  <1>12. SumFunction(fo) = SumFunctionOnSet(go, Sessions)
    BY ONLY <1>3, <1>9, SumOver, SessionsAssumption
  <1>13. SumFunction(fr) = SumFunctionOnSet(gr, Sessions)
    BY ONLY <1>3, <1>9, SumOver, SessionsAssumption
  <1>14. SumFunctionOnSet(h, Sessions) = SumFunctionOnSet(go, Sessions) + SumFunctionOnSet(gr, Sessions)
    BY ONLY <1>8, SumPlus, SessionsAssumption
  <1>15. Cardinality(Unattributed) = Cardinality(O) + Cardinality(R)
    BY ONLY <1>5, <1>11, Halves
  <1>16. QED
    BY <1>10, <1>12, <1>13, <1>14, <1>15 DEF O, h, fo, fr

(* Whatever order payments, credit, decisions and reversals come in, the   *)
(* pages agree with one another and with the ledger: two queries that go   *)
(* by an invoice's status and one that goes by its amounts show the same   *)
(* outstanding sum, the payments split by label and by status without      *)
(* loss, and suspense is what the breaks show, unless an orphan was        *)
(* reversed.                                                               *)
THEOREM ReportsAgreeAlways == Spec => []ReportsAgree
  <1>1. Inv /\ RowsInv => ReportsAgree
    <2> SUFFICES ASSUME Inv, RowsInv PROVE ReportsAgree
      OBVIOUS
    <2> DEFINE unattributed == {s \in Recorded : payment[s].status = "in_exception"}
               resolved == {s \in unattributed : exception[s] = "resolved"}
               suspense == SumFunction([s \in Sessions |-> entries[s]["suspense"]])
    <2>1. /\ TotalSettled \in Nat /\ TotalReceivable \in Nat
          /\ TotalBilled = TotalSettled + TotalReceivable
          /\ SumFunction([c \in Defaulters |-> Receivable(c)]) = TotalReceivable
          /\ TotalReceivable = 0 => Defaulters = {}
      BY CardsAgree
    <2>2. OutstandingCard = TotalReceivable
      BY <2>1 DEF OutstandingCard
    <2>3. CollectionRate \in 0..FullRate /\ (CollectionRate = FullRate => Defaulters = {})
      <3>0. FullRate \in Nat /\ FullRate # 0
        BY DEF FullRate
      <3>1. CASE TotalBilled = 0
        <4>1. CollectionRate = 0
          BY <3>1 DEF CollectionRate
        <4>2. QED
          BY ONLY <3>0, <4>1
      <3>2. CASE TotalBilled # 0
        <4>1. /\ CollectionRate \in 0..FullRate
              /\ CollectionRate = FullRate => TotalSettled = TotalBilled
          <5>1. TotalBilled \in Nat /\ TotalSettled \in Nat /\ TotalSettled <= TotalBilled
            BY ONLY <2>1
          <5>2. CollectionRate = (TotalSettled * FullRate) \div TotalBilled
            BY <3>2 DEF CollectionRate
          <5>3. PICK full \in Nat : FullRate = full
            BY <3>0
          <5>4. PICK b \in Nat : TotalBilled = b
            BY <5>1
          <5>5. PICK t \in Nat : TotalSettled = t
            BY <5>1
          <5>6. PICK r : CollectionRate = r
            OBVIOUS
          <5>7. full # 0 /\ b # 0 /\ t <= b /\ r = (t * full) \div b
            BY ONLY <3>0, <3>2, <5>1, <5>2, <5>3, <5>4, <5>5, <5>6
          <5>8. r \in 0..full /\ (r = full => t = b)
            BY ONLY full \in Nat, b \in Nat, t \in Nat, <5>7, RateOf
          <5>9. QED
            BY ONLY <5>3, <5>4, <5>5, <5>6, <5>8
        <4>2. TotalSettled = TotalBilled => TotalReceivable = 0
          BY ONLY <2>1
        <4>3. QED
          BY ONLY <2>1, <4>1, <4>2
      <3>3. QED
        BY ONLY <3>1, <3>2
    <2>4. Kpis.total = Slice("exact") + Slice("underpayment") + Slice("overpayment")
                         + Slice("orphan")
      BY SplitByLabel DEF Kpis
    <2>5. Kpis.total = Kpis.reconciled + Volume("in_exception") + Volume("refunded")
      BY SplitByStatus DEF Kpis, Volume
    <2>6. ASSUME ReversedOrphans = {}
          PROVE  /\ suspense = Kpis.exposure + SumFunction([s \in resolved |-> payment[s].gross])
                 /\ Kpis.openBreaks + Cardinality(resolved) = Volume("in_exception")
      <3>1. resolved = {s \in Unattributed : exception[s] = "resolved"}
        BY DEF Unattributed
      <3>2. /\ Kpis.exposure = SumFunction([s \in OpenExceptions |-> payment[s].gross])
            /\ Kpis.openBreaks = Cardinality(OpenExceptions)
            /\ Volume("in_exception") = Cardinality(Unattributed)
        BY DEF Kpis, Volume, Unattributed
      <3> HIDE DEF resolved
      <3>3. QED
        BY <2>6, <3>1, <3>2, SuspenseShown
    <2>7. /\ OutstandingCard = SumFunction([c \in Defaulters |-> Receivable(c)])
          /\ TotalReceivable = OutstandingCard
      BY ONLY <2>1, <2>2
    <2>8. QED
      BY ONLY <2>3, <2>4, <2>5, <2>6, <2>7, Zenon DEF ReportsAgree
  <1>2. QED
    BY <1>1, Invariance, RowsAlways, PTL

=============================================================================
