SPECIFICATION Spec
CONSTANTS
    BlockTotal = 4
    PageNum = 2
    SecPerPage = 2
    Data = {a, b}
    FF = FF
    Junk = Junk
    None = None
    Percent = 50
    MinBlocks = 1
    Chips <- Correcting
    Firsts = {0, 1, 2, 3, 7}
    MaxCount = 3
INVARIANTS
    TypeOK
    NoLeakedBlock
    ReadBack
PROPERTIES
    ImplementsSectors
SYMMETRY DataSymmetry
