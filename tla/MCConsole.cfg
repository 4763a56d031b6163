SPECIFICATION MCSpec
CONSTANTS
    Bytes <- MCBytes
    Keys = {"lshift", "rctrl", "altgr", "caps", "del", "pause"}
    MaxWire = 0
    size = 5
    video_num_columns = 2
    video_num_lines = 3
    MemLines = 4
    TabStop = 2
    Word = 5
INVARIANTS
    PacketsUnderstood
    KeyboardConsistent
    ScreenConsistent
PROPERTIES
    ImplementsScreen
