CONSTANTS
    NoPort = "no port"
    Relays = {"good", "half"}
    Carries <- HalfDead
    Ports = {"p1", "p2"}
    LateResults = TRUE
    MaxFails = 2
    MaxMeddling = 2
SPECIFICATION Spec
INVARIANTS
    NeverDirectWhenOn
    PortFollowsRoute
    ChannelsFollowPort
    NoOrphanProxy
    ProbingHasStart
    OffLeavesVeil
CHECK_DEADLOCK FALSE
