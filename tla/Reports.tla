------------------------------- MODULE Reports -------------------------------
(***************************************************************************)
(* The figures of the console over the tables of Ledger: the queries of    *)
(* apps/api and what the pages compute from their answers.  A query reads  *)
(* one snapshot.                                                           *)
(***************************************************************************)
EXTENDS Ledger

ASSUME CustomersAssumption == IsFiniteSet(Customers)

Recorded == {s \in Sessions : payment[s].status # "none"}

-----------------------------------------------------------------------------
(* listCustomers; getStatement takes the same sum for one customer.        *)
OpenInvoices(c) == {i \in DOMAIN invoices[c] : IsOpen(invoices[c][i])}

Receivable(c) == SumFunction([i \in OpenInvoices(c) |-> Outstanding(invoices[c][i])])

(* The card of the customers page, over the rows of its page.              *)
TotalReceivable == SumFunction([c \in Customers |-> Receivable(c)])

(* getStatement: the balances, and what the page lists beside them.        *)
Statement(c) ==
    [invoices |-> invoices[c], payments |-> PaymentsOf(c),
     receivable |-> Receivable(c), credit |-> CreditBalance(c)]

(* Mutant: the timeline adds up gross amounts.                             *)
TimelineOfGross(statement) ==
    SumFunction([s \in statement.payments |-> payment[s].gross])

(* The last point of the settlement timeline, "net settled to date".       *)
Timeline(statement) ==
    SumFunction([s \in statement.payments |-> payment[s].gross - payment[s].fee])

-----------------------------------------------------------------------------
OpenExceptions == {s \in Sessions : exception[s] = "open"}

(* Mutant: counts every break that was ever opened.                        *)
KpisOfAllBreaks ==
    [total |-> Cardinality(Recorded),
     reconciled |-> Cardinality({s \in Recorded : payment[s].status = "reconciled"}),
     openBreaks |-> Cardinality({s \in Sessions : exception[s] # "none"}),
     exposure |-> SumFunction([s \in OpenExceptions |-> payment[s].gross]),
     feeLeakage |-> SumFunction([s \in Recorded |-> payment[s].fee])]

(* getKpis.  An orphan's materiality is its gross amount.                  *)
Kpis ==
    [total |-> Cardinality(Recorded),
     reconciled |-> Cardinality({s \in Recorded : payment[s].status = "reconciled"}),
     openBreaks |-> Cardinality(OpenExceptions),
     exposure |-> SumFunction([s \in OpenExceptions |-> payment[s].gross]),
     feeLeakage |-> SumFunction([s \in Recorded |-> payment[s].fee])]

(* getTimeseries and getBreakdown: counts by status and by label.          *)
Volume(status) == Cardinality({s \in Recorded : payment[s].status = status})

Slice(label) == Cardinality({s \in Recorded : payment[s].label = label})

(* listRefunds.                                                            *)
Refunds(status) == {s \in Sessions : refund[s].status = status}

-----------------------------------------------------------------------------
(* GET /school/defaulters: HAVING a positive sum; totals over all invoices *)
Defaulters == {c \in Customers : Receivable(c) > 0}

Billed(c) == SumFunction([i \in DOMAIN invoices[c] |-> invoices[c][i].expected])

(* The cards of the collections page.                                      *)
TotalBilled == SumFunction([c \in Customers |-> Billed(c)])

TotalSettled == SumFunction([c \in Customers |-> Settled(c)])

OutstandingCard == TotalBilled - TotalSettled

(* 100 percent, with two decimals.                                         *)
FullRate == 10000

CollectionRate ==
    IF TotalBilled = 0 THEN 0 ELSE (TotalSettled * FullRate) \div TotalBilled

-----------------------------------------------------------------------------
(* The sum of what the ledger paid out of a payment.                       *)
PaidOut(c) ==
    SumFunction([s \in Refunds("sent") \cap PaymentsOf(c) |-> refund[s].amount])

(* Reversed orphans, re-attributed or not: their money is gone.            *)
ReversedOrphans ==
    {s \in Recorded : /\ payment[s].label = "orphan"
                      /\ payment[s].status = "refunded" \/ entries[s]["suspense"] < 0}

(* "Every kobo explained" (the statement page): what the listed payments   *)
(* brought went to invoices, is held as credit, or was paid back; and the  *)
(* timeline ends at the money that came in, net of fees.  Customers whose  *)
(* payments were reversed or whose payouts came back are left out: the     *)
(* timeline goes on showing a reversed payment.                            *)
StatementExplains ==
    \A c \in {c \in Customers \ excused : PaymentsOf(c) \cap ReversedOrphans = {}} :
        LET statement == Statement(c)
            gross == SumFunction([s \in statement.payments |-> payment[s].gross])
            cash == SumFunction([s \in statement.payments |-> entries[s]["cash"]])
        IN /\ gross = Settled(c) + statement.credit + PaidOut(c)
           /\ Timeline(statement) = cash + PaidOut(c)
           /\ statement.receivable > 0 => \E i \in DOMAIN statement.invoices :
                                              statement.invoices[i].status # "settled"

(* The pages agree with one another and with the ledger, whatever order    *)
(* payments, credit, decisions and reversals come in.                      *)
(* What is "still to be collected" is what the listed defaulters owe       *)
(* together and what the customers page shows as receivable, although two  *)
(* queries go by the status of an invoice and one by its amounts; at 100%  *)
(* nobody is listed.  The payments are split by label and by status        *)
(* without loss.  The suspense account holds the shown exposure and what   *)
(* operators have resolved without attributing it, and the number of       *)
(* breaks is the number of such payments, unless an orphan was reversed,   *)
(* which leaves its exception open.                                        *)
ReportsAgree ==
    LET unattributed == {s \in Recorded : payment[s].status = "in_exception"}
        resolved == {s \in unattributed : exception[s] = "resolved"}
        suspense == SumFunction([s \in Sessions |-> entries[s]["suspense"]])
    IN /\ OutstandingCard = SumFunction([c \in Defaulters |-> Receivable(c)])
       /\ TotalReceivable = OutstandingCard
       /\ CollectionRate \in 0..FullRate
       /\ (CollectionRate = FullRate) => Defaulters = {}
       /\ Kpis.total = Slice("exact") + Slice("underpayment") + Slice("overpayment")
                         + Slice("orphan")
       /\ Kpis.total = Kpis.reconciled + Volume("in_exception") + Volume("refunded")
       /\ ReversedOrphans = {} =>
            /\ suspense = Kpis.exposure
                            + SumFunction([s \in resolved |-> payment[s].gross])
            /\ Kpis.openBreaks + Cardinality(resolved) = Volume("in_exception")

=============================================================================
