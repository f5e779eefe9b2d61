SPECIFICATION Spec
CONSTANTS
    MaxTasks = 4
    FilesMax = 1
    Ticks = 2
    ExitCodes = {1}
    Faults = {5}
INVARIANTS
    QueueHoldsLiveTasks
    WaitersResumeInWait
    DeathIsReported
    InitWaitIsFed
    StatusIsTrue
