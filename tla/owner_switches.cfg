SPECIFICATION Spec
CONSTANTS
    a = a
    b = b
    Macs = {a, b}
    Nobody = Nobody
    MaxEpoch = 2
    MaxExchange = 2
    SamePath = TRUE
    Faults = {}
SYMMETRY Symmetry
INVARIANTS OneWriter SomeCoordinator BaselineCurrent
PROPERTY EpochNeverBack
