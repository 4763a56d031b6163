SPECIFICATION GetcwdSpec
CONSTANTS
    r = r
    a = a
    b = b
    c = c
    t1 = t1
    t2 = t2
    Callers = {t1}
    Dirs = {r, a}
    up <- UpTwo
    root <- RootOne
    NR_OPEN = 1
    MaxCalls = 300
INVARIANTS
    NoFreeOfFree
CHECK_DEADLOCK FALSE
