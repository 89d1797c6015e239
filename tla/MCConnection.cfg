SPECIFICATION FairSpec
CONSTANTS
    noise = noise
    voice = voice
    v0 = v0
    v1 = v1
    Features <- MCFeatures
    SecondTable <- MCSecondTable
    Values <- MCValues
    Damage = {"bad", "stuck"}
    MaxInFlight = 2
INVARIANTS
    TypeOK
    IInv
    InSync
    AckedMeansTaken
    EveryFrameAcked
    SeqAlternates
    CommandsRideTheirTable
PROPERTIES
    FreshReading
    KeepsPromise
    SendEnds
    ExchangeEnds
