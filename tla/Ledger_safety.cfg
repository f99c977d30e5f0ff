SPECIFICATION Spec
CONSTANTS
    Customers = {c1}
    NoCustomer = NoCustomer
    Sessions = {s1, s2}
    Appliers = {a1, a2}
    Grosses = {1, 3}
    Fees = {1}
    InvoiceAmounts = {0, 2}
    MaxInvoices = 2
    LateEvents = {"payment_reversal", "payout_refund"}
SYMMETRY Symmetry
CHECK_DEADLOCK FALSE
INVARIANTS
    InvoicesConsistent
    PaymentsBalanced
    SettledIsReceivable
    CreditCoversRefunds
    StatementExplains
    ReportsAgree
