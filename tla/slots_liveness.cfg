SPECIFICATION FairSpec
CONSTANTS
    Procs = {p1, p2, p3}
    MaxBeats = 0
    Faults = {"reclaimCrash", "orphan"}
    Absent = Absent
    Empty = Empty
    Nobody = Nobody
PROPERTY AbandonedFreed
CHECK_DEADLOCK FALSE
