SPECIFICATION Spec
CONSTANTS
    Data = {z, p, q}
    Zero = z
    NoBlock = NoBlock
    LocalSize = 5
    BackupSizes = {1, 3, 5}
    MaxWrites = 3
    Users = {u1, u2}
    Align = 2
    RegionSize = 5
    ChunkSizes = {0, 1, 2}
    Configs <- MCConfigs
INVARIANTS BackupIsPrefix HoldersData NoSilentExhaustion
PROPERTIES CatchesUp
CHECK_DEADLOCK FALSE
