SPECIFICATION Session_Spec
CONSTANTS
    PidCount = 4
    TidMin = 4
    TidCount = 4
    NoId = 20
    Unset = 19
    Boot = 0
    OsThreads <- MCOsThreads
    Programs = {"shell", "md", "rgen", "shutdown"}
    Flags = {"sig_shutdown", "sig_terminate"}
    None = None
    Given = {}
    Arrays = {}
    SpuriousWakeups = FALSE
    Commands = {"shell"}
    NestedCommands = {"shutdown"}
    MaxPipeline = 1
    ReuseStale = FALSE
PROPERTY ShutdownEndsKernel
CHECK_DEADLOCK FALSE
