SPECIFICATION Session_Spec
CONSTANTS
    PidCount = 5
    TidMin = 5
    TidCount = 5
    NoId = 20
    Unset = 19
    Boot = 0
    OsThreads <- MCPipelineOsThreads
    Programs = {"shell", "md", "rgen", "shutdown"}
    Flags = {"sig_shutdown", "sig_terminate"}
    None = None
    Given = {}
    Arrays = {}
    SpuriousWakeups = TRUE
    Commands = {"rgen", "shutdown"}
    NestedCommands = {}
    MaxPipeline = 2
    ReuseStale = FALSE
INVARIANTS SignalsDelivered HandlesOwned
CHECK_DEADLOCK FALSE
