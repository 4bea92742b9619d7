CONSTANTS
    d1 = d1
    d2 = d2
    d3 = d3
    NoBoundary = NoBoundary
    Devices = {d1, d2}
    Partners = {p1}
    Messages <- Tied
    Lossy = TRUE
    MaxForged = 1
SPECIFICATION Spec
INVARIANTS
    TypeOK
    BoundaryWasRead
    NothingForgotten
PROPERTIES
    ReadStaysRead
    ReadsLikeOneDevice
SYMMETRY Symmetry
CHECK_DEADLOCK FALSE
