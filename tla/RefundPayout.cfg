SPECIFICATION FairSpec
CONSTANTS
    Refunds = {r1}
    Handlers = {h1, h2}
    Slots = {j1, j2}
    NoRefund = NoRefund
    MaxAttempts = 2
    Webhooks = {"payout_success", "payout_refund"}
    MaxStalledCount = 1
    MaxFaults = 2
CHECK_DEADLOCK FALSE
INVARIANTS
    TypeOK
PROPERTIES
    KeepsPromise
    NotStranded
