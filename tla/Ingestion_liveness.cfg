SPECIFICATION FairSpec
CONSTANTS
    Sessions = {s1}
    Workers = {w1, w2}
    NoSession = NoSession
    NoWorker = NoWorker
    MaxStalledCount = 1
    SweepLimit = 2
    MaxFaults = 1
    MaxThrows = 0
PROPERTIES
    PaidIsCredited
    EventsDrain
