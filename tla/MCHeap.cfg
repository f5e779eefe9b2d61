SPECIFICATION Spec
CONSTANTS
    PerPage = 2
    NumPages = 3
    MaxSize = 4
    Growths = {1}
INVARIANTS
    BuffersAreDisjoint
    FreeListIsExact
