SPECIFICATION Spec
CONSTANTS
    PAGE_SIZE = 4
    Base = 3
    NumPages = 6
    BmBits = 8
    FreeMemory <- MCFreeMemory
    Holders = {h1, h2}
    NoHolder = none
    Nums = {0, 1, 2, 3}
    Aligns = {0, 2, 3, 4, 8}
INVARIANTS
    Exclusive
    NoLostPages
PROPERTY
    LendsPages
