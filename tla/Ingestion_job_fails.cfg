SPECIFICATION FairSpec
CONSTANTS
    Sessions = {s1}
    Workers = {w1}
    NoSession = NoSession
    NoWorker = NoWorker
    MaxStalledCount = 1
    SweepLimit = 1
    MaxFaults = 0
    MaxThrows = 1
PROPERTY
    EventsDrain
