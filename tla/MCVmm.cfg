CONSTANTS
    MaxTasks = 2
    UserPages = 5
    StackPages = 1
    Frames = 7
    SegPages = {1, 2}
    MaxSegs = 2
    Values = {0, 1}
    MaxLeaked = 0
    Probed = {3, 6}

SPECIFICATION Spec
INVARIANTS
    FramesAreOwned
    Isolation
    OthersAreSynced
    MemoryIsPrivate
PROPERTY SwitchMapsAll
