SPECIFICATION Spec
CONSTANTS
    Size = 4
    Folders <- Two
    MaxSongs = 2
    MaxPauses = 0
INVARIANTS
    InOrder
CHECK_DEADLOCK FALSE
