SPECIFICATION Spec
CONSTANTS
    RootFs = fat32
    DevFs = {dev1}
    NoFs = none
    RootFiles <- MCRootFiles
    RootDirs <- MCRootDirs
    Devices = {"c"}
    LongNames = {"long"}
    Paths <- MCPaths
    Targets <- MCTargets
    Exits = {TRUE, FALSE}
    MaxRefs = 2
    MaxFiles = 2
INVARIANTS
    OpenNodesExist
    TreeIsLinked
    FilesystemsExist
