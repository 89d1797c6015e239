SPECIFICATION Spec
CONSTANTS
    c1 = c1
    c2 = c2
    Clients = {c1}
    Requests <- EveryRequest
    Presses = {}
    Start <- AtFirst
    Presets = {"off", "user1"}
    Customizable = {"user1"}
    User1 = "user1"
    MaxLevel = 2
    MaxVolume = 1
    MaxBand = 1
    MaxAgenda = 2
    MaxPresses = 0
PROPERTY
    SilenceMeansApplied
CHECK_DEADLOCK FALSE
