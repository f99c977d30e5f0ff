SPECIFICATION Spec
CONSTANTS
    Instances = {i1, i2}
    Dedicated = i2
    LastMigration = 2
    LastRow = 2
    MaxStops = 1
    Requests = {q1}
    Given = Given
    Roster <- Class
    Retries = 1
    MaxErrors = 1
CHECK_DEADLOCK FALSE
INVARIANTS
    MigratedInOrder
    ServesReady
    ReportTruthful
    TagReaches
PROPERTIES
    ComesUp
    MoneyArrives
