SPECIFICATION Spec
CONSTANTS
    MaxTasks = 3
    FilesMax = 1
    Ticks = 2
    ExitCodes = {1}
    Faults = {3, 5}
INVARIANT
    ExecKeepsImage
PROPERTIES
    EveryTaskRuns
    WaitWakes
