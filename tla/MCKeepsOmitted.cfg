SPECIFICATION Spec
CONSTANTS
    c1 = c1
    c2 = c2
    Clients = {c1, c2}
    Requests <- NoisePatches
    Presses <- NoisePresses
    Start <- AtFirst
    Presets = {"off", "user1"}
    Customizable = {"user1"}
    User1 = "user1"
    MaxLevel = 2
    MaxVolume = 1
    MaxBand = 1
    MaxAgenda = 2
    MaxPresses = 2
PROPERTY
    KeepsOmitted
CHECK_DEADLOCK FALSE
