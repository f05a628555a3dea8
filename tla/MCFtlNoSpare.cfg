SPECIFICATION Spec
CONSTANTS
    BlockTotal = 3
    PageNum = 2
    SecPerPage = 1
    Data = {a}
    FF = FF
    Junk = Junk
    None = None
    Percent = 67
    MinBlocks = 1
    Chips <- Correcting
    Firsts = {0, 1, 2, 3, 4}
    MaxCount = 1
INVARIANTS
    ReadBack
