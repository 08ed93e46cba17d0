SPECIFICATION Spec
CONSTANTS
    a = a
    o = o
    Paths = {a, o}
    Odd = {o}
    MaxDelete = 1
    MaxEdits = 2
    Modes = {"clean", "force"}
    Policies <- FullOnly
    Commands = {"push", "pull", "intake", "fetch"}
    Faults = {}
INVARIANTS NoContentLost BaselineProven NoSelfConflict IntakeNotOwn
PROPERTIES CleanPushProven StampHonest
