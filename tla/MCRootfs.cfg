SPECIFICATION Spec
CONSTANTS
    Disks <- MCDisks
    Media <- MCMedia
    SectorSize = 2
    DiskSectors = 100
    NameLen <- MCNameLen
    NameMax = 12
    FatEntries = 8
    BadSets <- MCBadSets
    Names = {"init", "INIT", "program", "library.dat", "LIBRAR~1", "BOOT", "none", "lib", "settings.txt", "settings.text"}
    Offsets = {0, 1, 2, 3, 4, 5, 7, 8, 9, 11, 12}
    Sizes = {1, 3, 4, 5, 8, 12}
CHECK_DEADLOCK FALSE
INVARIANTS
    WalkIsComplete
    TableIsLoaded
    RootIsFirst
    LookupIsExact
    ListingIsComplete
    ReadsAreExact
