SPECIFICATION MCSpec
CONSTANTS
    Periods = {0, 1, 2}
    MaxTimers = 3
    MaxNest = 2
    MaxCount = 3
    Sizes = {1, 2}
    PerPage <- MCPerPage
    DescsPerPage = 2
    NPages = 3
    MaxDescs = 4
INVARIANTS
    CountdownsRight
    MallocConsistent
PROPERTIES
    FirstGoesOnExpiring
