SPECIFICATION MCSpec
CONSTANTS
    NrSlots = 3
    MaxPid = 4
    Maskers = {1, 2, 3}
    InitStays = TRUE
    MaxFrames = 2
    MaxPosts = 5
    MaxNest = 3
    Readers = {r1, r2}
    Writers = {w1, w2}
    PAGE_SIZE = 3
    MaxCount = 3
INVARIANTS
    TasksConsistent
    HandlersConsistent
    MessagesConsistent
    PipeConsistent
PROPERTIES
    WaitsEnd
    ImplementsMailbox
CHECK_DEADLOCK FALSE
