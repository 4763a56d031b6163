SPECIFICATION TtySpec
CONSTANTS
    TTY_BUF_SIZE = 4
    startup = 1
    Room = 2
    Margin = 1
    MaxTyped = 3
    MaxNr = 2
INVARIANTS
    DataIsLines
PROPERTIES
    CallsEnd
CHECK_DEADLOCK FALSE
