SPECIFICATION LockedSpec
CONSTANTS
    Pids = {p1, p2, p3}
    NoPid = NoPid
    Blank = Blank
    Nobody = Nobody
    MaxKills = 2
    Scheduled = {p3}
    Faults = {}
    Writers = {w1, w2}
    Others = {e1}
    NoWriter = NoWriter
    Windows = {}
    Targets = {t1, t2}
    Contents = {c1, c2}
    Foreign = Foreign
    Absent = Absent
    None = None
    NoEntry = NoEntry
    Procs = {r1, r2}
    NoRun = NoRun
    Allowed = {}
SYMMETRY LockedSymmetry
INVARIANTS Exclusive NoEditLost NoFalseConflict AppliedWhole
PROPERTIES RefinesLock AbandonedReclaimed ForeignKept
