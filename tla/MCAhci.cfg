SPECIFICATION Spec
CONSTANTS
    SlotCount = 2
    PrdDataMax = 2
    PrdtlMax = 2
    CountRange = 4
    CdSectorSize = 2
    Counts = {0, 1, 3, 4}
    MaxCalls = 3
CHECK_DEADLOCK FALSE
INVARIANTS
    ResultIsTrue
    CommandsAreOwned
PROPERTIES
    TablesAreStable
    SetUpWhileStopped
    CallsReturn
