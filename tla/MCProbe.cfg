SPECIFICATION FairSpec
CONSTANTS
    N = 3
    MaxPushes <- FewPushes
INVARIANTS
    TypeOK
    OutOfStepOnlyAfterSilence
    HearsEverything
PROPERTIES
    Ends
CHECK_DEADLOCK FALSE
