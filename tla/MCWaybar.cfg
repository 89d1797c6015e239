SPECIFICATION Spec
CONSTANTS
    i1 = i1
    i2 = i2
    Instances = {i1, i2}
    Jobs <- SomeJobs
    AtFirst <- Held
    Parts = {"battery"}
    Throttle = 1
    MaxTime = 1
    MaxLate = 1
SYMMETRY Symmetry
INVARIANTS
    TypeOK
    OneNoticePerDischarge
PROPERTIES
    AloneClickTakesEffect
    ThrottledAndSerialized
