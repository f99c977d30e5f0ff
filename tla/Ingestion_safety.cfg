SPECIFICATION Spec
CONSTANTS
    Sessions = {s1, s2}
    Workers = {w1, w2}
    NoSession = NoSession
    NoWorker = NoWorker
    MaxStalledCount = 1
    SweepLimit = 1
    MaxFaults = 1
    MaxThrows = 1
SYMMETRY Symmetry
INVARIANTS
    TypeOK
    CreditedOnce
    ProcessedIsPosted
    CompletedIsProcessed
PROPERTIES
    ExactlyOnce
