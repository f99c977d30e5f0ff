SPECIFICATION ConsoleSpec
CONSTANTS
    MaxWrites = 1
    MaxDisturbances = 2
INVARIANTS
    ReadYourWrites
PROPERTIES
    CatchesUp
    SignedOutEverywhere
