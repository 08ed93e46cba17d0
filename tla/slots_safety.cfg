SPECIFICATION Spec
CONSTANTS
    Procs = {p1, p2, p3}
    MaxBeats = 1
    Faults = {"emptyDir", "readError"}
    Absent = Absent
    Empty = Empty
    Nobody = Nobody
INVARIANTS SlotExclusive WorkloadLeased WorkExclusive
PROPERTIES LeaseKept RefinesLock
CHECK_DEADLOCK FALSE
