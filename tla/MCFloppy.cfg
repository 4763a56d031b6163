SPECIFICATION FdSpec
CONSTANTS
    Tracks = {1}
    MaxRequests = 2
    MAX_ERRORS = 2
    SpinTicks = 3
    OffTicks = 6
    CommandTicks = 1
INVARIANTS
    DriverConsistent
PROPERTIES
    RequestsEnd
CHECK_DEADLOCK FALSE
