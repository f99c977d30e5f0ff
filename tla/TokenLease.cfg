SPECIFICATION FairSpec
CONSTANTS
    p1 = p1
    p2 = p2
    c3 = c3
    Processes = {p1, p2}
    Callers = {c1, c2, c3}
    Home <- TwoAndOne
    Nobody = Nobody
    MaxAges = 1
    MaxErrors = 1
    MaxLapses = 1
CHECK_DEADLOCK FALSE
INVARIANTS
    TypeOK
    SoleRefresher
PROPERTIES
    CacheAdvances
    CallsReturn
    LeaseRecovers
