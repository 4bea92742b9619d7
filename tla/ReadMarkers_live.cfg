CONSTANTS
    d1 = d1
    d2 = d2
    d3 = d3
    NoBoundary = NoBoundary
    Devices = {d1, d2, d3}
    Partners = {p1}
    Messages <- Tied
    Lossy = FALSE
    MaxForged = 0
SPECIFICATION FairSpec
PROPERTIES ReadReachesAll
CHECK_DEADLOCK FALSE
