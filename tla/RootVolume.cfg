SPECIFICATION Spec
CONSTANTS
    NClusters = 10
    PerCluster = 6
    LongNames = {"owner.enrolled", "owner.info", "user.notes"}
    UserNames = {"sharedx", "user.notes"}
    HelloSizes = {1, 3, 4, 5, 6}
    Fills = {0, 5}
    MaxFaults = 2
    MaxSaves = 2
INVARIANTS VolumeSound ReadsBack SelfTestsTell
CHECK_DEADLOCK FALSE
