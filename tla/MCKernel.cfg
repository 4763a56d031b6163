SPECIFICATION MCSpec
CONSTANTS
    NTasks = 3
    MaxPriority = 3
    Increments <- MCIncrements
    MaxId = 3
    SetUids = {3}
    SetGids = {2}
    r = r
    a = a
    b = b
    c = c
    t1 = t1
    t2 = t2
    Callers = {t1, t2}
    Dirs = {r, a, b, c}
    up <- Up
    root <- Root
    NR_OPEN = 2
    MaxCalls = 3
INVARIANTS
    GetcwdConsistent
PROPERTIES
    NobodyStarves
    PicksRight
    IdsKept
    GetcwdReturns
