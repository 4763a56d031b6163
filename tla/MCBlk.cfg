SPECIFICATION Spec
CONSTANTS
    Tasks = {t1, t2}
    Blocks = {0, 1, 2, 3}
    Written = {0}
    NrSects = 6
    NR_REQUEST = 3
    MAX_ERRORS = 3
INVARIANTS
    ListConsistent
    NoLostSlotWaiter
PROPERTIES
    FailsOnlyAfterRetries
    EveryWriteEnds
CHECK_DEADLOCK FALSE
