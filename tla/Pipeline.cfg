SPECIFICATION Spec
CONSTANTS
    Noise <- MCNoise
    MaxAmount = 5
    MaxInvoice = 2
    MaxInvoices = 3
CHECK_DEADLOCK FALSE
INVARIANTS
    GenuineIsAccepted
    PathsConverge
    Fifo
    StatusFits
    PostingsBalance
    DecisionFits
