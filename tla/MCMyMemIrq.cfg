SPECIFICATION Spec
CONSTANTS
    BlkSize = 2
    TblSize = 5
    MainSlots = {m1, m2}
    IsrSlots = {u1}
    Sizes = {1, 3, 5}
    Garbage = {0, 1}
    NULL = NULL
INVARIANTS
    NoOverlap
PROPERTIES
    ImplementsMyMem
    CallReturns
