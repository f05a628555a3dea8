\* Every write to a chip with one programmed stretch, with power failures.
SPECIFICATION FairSpec
CONSTANTS
    PageSize = 2
    PagesPerSector = 2
    Sectors = 3
    Bits = {b}
    Contents <- AnyStretch
    Requests <- Calls
    MaxCalls = 1
INVARIANTS TypeOK ProgramsErasedPage WornByNeed
PROPERTIES ImplementsStore CallReturns
\* The last call of the bound leaves the driver idle.
CHECK_DEADLOCK FALSE
