SPECIFICATION Spec
CONSTANTS
    BlockTotal = 5
    PageNum = 3
    SecPerPage = 1
    Data = {a}
    FF = FF
    Junk = Junk
    None = None
    Percent = 50
    MinBlocks = 2
    Chips <- Faulty
    Firsts = {0, 2}
    MaxCount = 2
INVARIANTS
    LutMatchesTags
    CapacityKept
    MediumKeepsData
    UnusedIsErased
PROPERTIES
    RequestEnds
