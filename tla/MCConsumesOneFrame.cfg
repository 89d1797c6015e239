SPECIFICATION Spec
CONSTANTS
    Frames <- ReservedChecksum
    NoiseBytes = {0}
    MaxSent = 2
INVARIANT
    ConsumesOneFrame
CHECK_DEADLOCK FALSE
