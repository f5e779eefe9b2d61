SPECIFICATION Spec
CONSTANTS
    Tasks = {t1, t2, t3}
    NoTask = none
    MaxSize = 2
    BadBuffers = TRUE
INVARIANTS
    OneWriter
    TransfersAreUnbroken
