SPECIFICATION Spec
CONSTANTS
    b = b
    s = s
    s2 = s2
    u = u
    u2 = u2
    m = m
    m2 = m2
    n = n
    w = w
    x = x
    r1 = r1
    Runs = {r1}
    Pushes = {TRUE, FALSE}
    Commits = {b, s, s2, u, u2, m, m2, n, w, x}
    NoCommit = NoCommit
    Parent <- History
    Tree <- Contents
    Absent = Absent
    Twin <- Rewrites
    Mine = {w, x}
    Theirs = {u, m, n}
    Worktrees <- Delivered
    Starts <- Clones
    NoLock = NoLock
    Stale = Stale
    MaxRescues = 2
    MaxStops = 1
    Faults = {}
INVARIANTS CommitsKept NoRepublish
PROPERTIES MovesWhole
