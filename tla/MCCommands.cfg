SPECIFICATION Spec
CONSTANTS
    RawBytes = {0, 1, 10, 20, 21, 137, 138, 255}
    Written <- EdgeValues
INVARIANTS
    TypeOK
    OwnAnswersOnly
    ReadsBack
    NoPartialReading
