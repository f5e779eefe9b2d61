SPECIFICATION Spec
CONSTANTS
    Tasks = {t1, t2}
    Nodes = {file, dir}
    NoNode = none
    Directories = {dir}
    MAX = 2
    MaxRefs = 3
    MaxMiscounts = 2
    MaxOffset = 1
INVARIANTS
    OpenNodesAreReferenced
PROPERTIES
    FilesStay
    EmfileMeansTopInUse
