SPECIFICATION Session_Spec
CONSTANTS
    PidCount = 4
    TidMin = 4
    TidCount = 4
    NoId = 20
    Unset = 19
    Boot = 0
    OsThreads <- MCOsThreads
    Programs = {"shell", "md", "rgen", "shutdown"}
    Flags = {"sig_shutdown", "sig_terminate"}
    None = None
    Given = {}
    Arrays = {}
    SpuriousWakeups = FALSE
    Commands = {"rgen", "md"}
    NestedCommands = {}
    MaxPipeline = 1
    ReuseStale = TRUE
INVARIANT ExitEnds
CHECK_DEADLOCK FALSE
