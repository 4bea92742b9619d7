CONSTANTS
    NoPort = "no port"
    Relays = {"good", "half"}
    Carries <- HalfDead
    Ports = {"p1", "p2"}
    LateResults = FALSE
    MaxFails = 2
    MaxMeddling = 2
SPECIFICATION FairSpec
PROPERTIES
    WaitingEnds
    SettlesOnGoodFront
CHECK_DEADLOCK FALSE
