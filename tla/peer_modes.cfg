SPECIFICATION Spec
CONSTANTS
    Paths = {p1, p2}
    MaxDelete = 0
    MaxVersion = 3
    MaxFails = 1
    Modes <- AllModes
    Policies <- Either
    Profiles <- Established
    Faults <- NoFaults
SYMMETRY PathSymmetry
INVARIANT NoEditLost
PROPERTIES DeletionSticks DeletionsAreUsers
