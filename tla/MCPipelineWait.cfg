SPECIFICATION Session_Spec
CONSTANTS
    PidCount = 5
    TidMin = 5
    TidCount = 5
    NoId = 20
    Unset = 19
    Boot = 0
    OsThreads <- MCManyOsThreads
    Programs = {"shell", "md", "rgen", "shutdown"}
    Flags = {"sig_shutdown", "sig_terminate"}
    None = None
    Given = {}
    Arrays = {}
    SpuriousWakeups = FALSE
    Commands = {"md"}
    NestedCommands = {}
    MaxPipeline = 3
    ReuseStale = FALSE
INVARIANT SignalEndsWait
CHECK_DEADLOCK FALSE
