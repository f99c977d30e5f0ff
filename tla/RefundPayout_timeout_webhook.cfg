SPECIFICATION Spec
CONSTANTS
    Refunds = {r1}
    Handlers = {h1}
    Slots = {j1}
    NoRefund = NoRefund
    MaxAttempts = 2
    Webhooks = {"payout_success"}
    MaxStalledCount = 1
    MaxFaults = 1
CHECK_DEADLOCK FALSE
INVARIANTS
    DrawnDownExactly
