SPECIFICATION MCSpec
CONSTANTS
    Tasks = {t1, t2}
    NrInodes = 3
    NrEntries <- Entries
    Paths <- PathsSmall
    Free = Free
    Files = {f1, f2}
    NrBlocks = 4
    Direct = 1
    PerBlock = 2
    Offsets = {0, 2, 3}
    NR_OPEN = 3
    NR_FILE = 2
    Callers = {c1, c2, c3}
    NR_INODE = 4
INVARIANTS
    TreeConsistent
    BlocksConsistent
    FilesConsistent
    InodesConsistent
CHECK_DEADLOCK FALSE
SYMMETRY Symmetry
