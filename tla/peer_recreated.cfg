SPECIFICATION FairSpec
CONSTANTS
    Paths = {p1, p2}
    MaxDelete = 0
    MaxVersion = 2
    MaxFails = 0
    Modes <- AllModes
    Policies <- Propagated
    Profiles <- Established
    Faults <- NoFaults
PROPERTIES PeerCreationsKept
