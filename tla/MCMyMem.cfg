SPECIFICATION Spec
CONSTANTS
    BlkSize = 2
    TblSize = 4
    Slots = {s1, s2, s3}
    Sizes = {0, 1, 3}
    Data = {0, 1}
    Garbage = {1}
    NULL = NULL
INVARIANTS
    TypeOK
    NoOverlap
    MapExact
PROPERTY
    ImplementsHeap
