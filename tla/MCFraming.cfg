SPECIFICATION FairSpec
CONSTANTS
    Frames <- TwoFrames
    NoiseBytes = {0, 60, 61, 62}
    MaxSent = 3
INVARIANTS
    TypeOK
    IntactComesOut
    DamageStaysLocal
PROPERTY
    ReadsOn
CHECK_DEADLOCK FALSE
