SPECIFICATION FileSystem_Spec
CONSTANTS
    Free = Free
    Deleted = Deleted
    NoName = NoName
    Garbled = Garbled
    SectorRows = 2
    RowBytes = 2
    RootSectors = 2
    TableSize = 8
    DiskSectors = 8
    MaxCalls = 5
    ShortExtension = {"a.c"}
    Procs = {p}
    Handles = {h}
    Paths <- MCPaths
    Texts = {"new"}
    Lengths = {3, 5}
    Image <- MCImage
INVARIANTS FsTypeOK ChainsEnd TableSaved OwnedOnce
PROPERTIES OthersKept ShortWritesStored
