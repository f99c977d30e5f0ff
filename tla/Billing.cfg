SPECIFICATION Spec
CONSTANTS
    s1 = s1
    s2 = s2
    A = A
    B = B
    Students = {s1, s2}
    NoStudent = NoStudent
    Tags <- Metadata
    Cohorts = {A, B}
    AnyCohort = AnyCohort
    NoRule = NoRule
    Catalogue <- School
    Periods = {p1}
    Frequencies = {"termly"}
    Runs = {b1, b2}
SYMMETRY Symmetry
CHECK_DEADLOCK FALSE
INVARIANTS
    EveryStudentBilled
    HighestWins
    OneTimeOnce
    ConsumedIffApplied
