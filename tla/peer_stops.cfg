SPECIFICATION FairSpec
CONSTANTS
    Paths = {p1, p2}
    MaxDelete = 0
    MaxVersion = 3
    MaxFails = 1
    Modes <- TwoWay
    Policies <- Propagated
    Profiles <- Established
    Faults <- NoFaults
PROPERTY Converges
