SPECIFICATION Spec
CONSTANTS
    p1 = p1
    p2 = p2
    Procs = {p1, p2}
    MaxSampleGap = 1
    DeferSustain = 2
    RecoverSustain = 3
    StaleAfter = 1
    Kinds = {"good", "over", "hard"}
    MaxClock = 3
    Faults = {}
SYMMETRY Sym
INVARIANTS OneEvaluation WholeAlertIsLast
PROPERTIES RecoveryEarned ExcursionSustained
