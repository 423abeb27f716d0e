SPECIFICATION MCSpec
CONSTANTS
    NClusters = 4
    NEntries = 3
    Names = {"a", "b"}
    MaxErrors = 1
    MaxCrashes = 1
    MaxSaves = 3
    Machines <- MCMachines
    LowerOf <- MCLowerOf
    Standard = {"QFS_RAMDISK0", "QFS_SHARED", "QFS_MOD", "QFS_EXTRA"}
    SectorSize = 64
    Fat12Max = 2
    Fat16Max = 5
    Word = 32
    Ids = {1, 2, 3, 4}
    Paths <- MCPaths
    MaxFaults = 2
INVARIANTS Separate LastSaveReadsBack NothingLost MountsAgree
PROPERTY MountedInTheEnd
CHECK_DEADLOCK FALSE
