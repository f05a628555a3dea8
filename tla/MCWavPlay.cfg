SPECIFICATION Spec
CONSTANTS
    Size = 4
    Folders <- Lengths
    MaxSongs = 1
    MaxPauses = 3
INVARIANTS
    TypeOK
    NoSkip
    LateAfterPause
    FullBuffersHeard
PROPERTIES
    SongEnds
CHECK_DEADLOCK FALSE
