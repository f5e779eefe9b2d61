SPECIFICATION ScanSpec
CONSTANTS
    PAGE_SIZE = 4
    Base = 3
    NumPages = 6
    BmBits = 7
    FreeMemory <- MCFreeMemory
    Nums = {0, 1, 2, 3}
    Aligns = {0, 2, 3, 4, 8}
INVARIANTS
    ReturnsFirstFit
    NullOnlyIfNoFit
PROPERTY
    Terminates
CHECK_DEADLOCK FALSE
