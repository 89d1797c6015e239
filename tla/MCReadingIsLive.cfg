SPECIFICATION Spec
CONSTANTS
    noise = noise
    voice = voice
    v0 = v0
    v1 = v1
    Features <- MCFeatures
    SecondTable <- MCSecondTable
    Values <- MCValues
    Damage = {}
    MaxInFlight = 3
PROPERTY ReadingIsLive
