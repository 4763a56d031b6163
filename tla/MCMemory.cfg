SPECIFICATION Spec
CONSTANTS
    NTasks = 2
    Addrs = {1, 2}
    Image = {1}
    NPages = 6
    MaxHeap = 1
INVARIANTS
    PagesConsistent
    WritableIsPrivate
CHECK_DEADLOCK FALSE
