SPECIFICATION Spec
CONSTANTS
    Tasks = {t1, t2}
    NoTask = NoTask
    Blocks = {k1, k2, k3}
    NoBlock = NoBlock
    NBuffers = 2
INVARIANTS
    BuffersConsistent
    NothingLost
    NoLostSleeper
PROPERTIES
    HeldKeepsBlock
SYMMETRY Symmetry
CHECK_DEADLOCK FALSE
