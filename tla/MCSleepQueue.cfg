SPECIFICATION FairSpec
CONSTANTS
    Tasks = {t1, t2, t3}
    NoTask = NoTask
    MaxChars = 1
INVARIANTS
    NoStrandedSleeper
    TtyHeadInside
PROPERTIES
    LockNeverStolen
    EverySleeperWakes
