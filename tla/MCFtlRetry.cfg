SPECIFICATION Spec
CONSTANTS
    BlockTotal = 6
    PageNum = 2
    SecPerPage = 1
    Data = {a,b}
    FF = FF
    Junk = Junk
    None = None
    Percent = 34
    MinBlocks = 1
    Chips <- OneWeak
    Firsts = {0, 1, 2, 3, 4}
    MaxCount = 2
INVARIANTS
    ReadBack
