------------------------------ MODULE Waterfall ------------------------------
(***************************************************************************)
(* The pure engine of packages/core: reconcile() and applyCredit() pour an *)
(* amount over a customer's invoices, oldest first.                        *)
(*                                                                         *)
(* An invoice is a record of its amounts and status.  The loops are        *)
(* described by a run: rem[i] is what the loop variable `remaining` holds  *)
(* after the i-th invoice.  Amounts are kobo (bigint), so they do not      *)
(* overflow.                                                               *)
(***************************************************************************)
EXTENDS Integers, Sequences, FiniteSetsExt

InvoiceStatus == {"open", "partially_paid", "settled"}

Outstanding(inv) == inv.expected - inv.settled

(* The rows the callers select: WHERE status IN (open, partially_paid).    *)
IsOpen(inv) == inv.status \in {"open", "partially_paid"}

(* Mutant: what is settled already is not taken into account.              *)
AppliedToExpected(remaining, inv) ==
    IF ~IsOpen(inv) \/ Outstanding(inv) <= 0 \/ remaining <= 0 THEN 0
    ELSE IF remaining < inv.expected THEN remaining ELSE inv.expected

(* What one iteration takes from `remaining`; filtered rows and rows the   *)
(* loop skips take nothing.                                                *)
Applied(remaining, inv) ==
    IF ~IsOpen(inv) \/ Outstanding(inv) <= 0 \/ remaining <= 0 THEN 0
    ELSE IF remaining < Outstanding(inv) THEN remaining ELSE Outstanding(inv)

(* There is exactly one run for an amount and a list of invoices.          *)
Runs(amount, invs) ==
    {rem \in [0..Len(invs) -> 0..amount] :
        /\ rem[0] = amount
        /\ \A i \in 1..Len(invs) : rem[i] = rem[i - 1] - Applied(rem[i - 1], invs[i])}

(* Mutant: an invoice counts as settled with its first instalment.         *)
PayInvoiceEagerly(inv, apply) ==
    IF apply = 0 THEN inv
    ELSE [inv EXCEPT !.settled = @ + apply, !.status = "settled"]

PayInvoice(inv, apply) ==
    IF apply = 0 THEN inv
    ELSE [inv EXCEPT
            !.settled = @ + apply,
            !.status = IF inv.settled + apply >= inv.expected THEN "settled"
                       ELSE "partially_paid"]

(* invoiceUpdates, applied to the invoices.                                *)
Poured(rem, invs) ==
    [i \in DOMAIN invs |-> PayInvoice(invs[i], rem[i - 1] - rem[i])]

Touched(rem, invs) == {i \in DOMAIN invs : rem[i] # rem[i - 1]}

(* invoiceUpdates[0]?.invoiceId, 0 for null.                               *)
FirstTouched(rem, invs) ==
    IF Touched(rem, invs) = {} THEN 0
    ELSE CHOOSE i \in Touched(rem, invs) : \A j \in Touched(rem, invs) : i <= j

(* The outstanding amounts of the rows the query returned.                 *)
Payable(inv) == IF IsOpen(inv) /\ Outstanding(inv) > 0 THEN Outstanding(inv) ELSE 0

TotalOutstanding(invs) == SumFunction([i \in DOMAIN invs |-> Payable(invs[i])])

Classification(gross, invs, rem) ==
    IF Touched(rem, invs) = {} \/ gross > TotalOutstanding(invs) THEN "overpayment"
    ELSE IF gross < TotalOutstanding(invs) THEN "underpayment"
    ELSE "exact"

(* reconcile() throws for these, and the job with it.                      *)
Accepts(gross, fee) == gross > 0 /\ fee <= gross

(* The postings of one payment: its net effect on each kind of account, in *)
(* the account's normal direction (debit for cash and fees).               *)
Accounts == {"cash", "fees", "suspense", "receivable", "credit"}

Nothing == [a \in Accounts |-> 0]

Balanced(e) == e["cash"] + e["fees"] = e["suspense"] + e["receivable"] + e["credit"]

OrphanPostings(gross, fee) ==
    [Nothing EXCEPT !["cash"] = gross - fee, !["fees"] = fee, !["suspense"] = gross]

(* Mutant: an invoice that the money reaches is posted with all it asks.   *)
AskedTotal(rem, invs) ==
    SumFunction([i \in DOMAIN invs |-> IF rem[i] # rem[i - 1] THEN Outstanding(invs[i]) ELSE 0])

(* receivableApplied, which the loop adds up beside `remaining`.           *)
AppliedTotal(rem, invs) ==
    SumFunction([i \in DOMAIN invs |-> Applied(rem[i - 1], invs[i])])

CustomerPostings(gross, fee, rem, invs) ==
    [Nothing EXCEPT !["cash"] = gross - fee, !["fees"] = fee,
                    !["receivable"] = AppliedTotal(rem, invs), !["credit"] = rem[Len(invs)]]

(* Mutant: every surplus becomes a refund, a prepayment's included.        *)
RefundAmountAlways(invs, rem) == rem[Len(invs)]

(* A surplus over real invoices is refund-eligible, a prepayment is not.   *)
RefundAmount(invs, rem) == IF Touched(rem, invs) = {} THEN 0 ELSE rem[Len(invs)]

=============================================================================
