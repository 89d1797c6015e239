SPECIFICATION FairSpec
CONSTANTS
    c1 = c1
    c2 = c2
    d1 = d1
    d2 = d2
    Clients = {c1, c2}
    Devices = {d1, d2}
    Requests <- EveryRequest
    StatusReadings = 2
INVARIANTS
    TypeOK
    OneLink
    DeadSessionIsNeverFound
    LockIsGivenBack
PROPERTIES
    ExchangeKeepsItsSession
    NoSilentSwitch
    TakesTurns
    RequestsEnd
