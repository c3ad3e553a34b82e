SPECIFICATION CommandLine_Spec
CONSTANTS
    Space = 32
    MaxStep = 1
    Objects = {1, 2, 3, 4, 5, 6, 7, 8, 9}
    NoObject = 0
    Free = Free
    Deleted = Deleted
    SectorRows = 4
    RowBytes = 1
    RootSectors = 2
    TableSize = 19
    DiskSectors = 19
    NoName = NoName
    Garbled = Garbled
    ShortExtension = {"c"}
    Batch = 3
    LineSize = 4
    Order <- MCOrder
    Garbage = "?"
    Image <- MCImage
    Scripts <- MCScripts
    LineMax = 24
    TypeSize = 8
    MaxPrograms = 3
INVARIANTS CommandLineTypeOK HandlesNameObjects ConnectedAsTyped LineHandlesClosed OrderlyLinesHold ShownAsStored DirShows FindCounts RedirectStored
PROPERTIES LineEnds
CHECK_DEADLOCK FALSE
