SPECIFICATION Spec
CONSTANTS
    PidCount = 2
    TidMin = 2
    TidCount = 2
    NoId = 9
    Unset = 8
    Boot = o1
    OsThreads = {o1, o2}
    Programs = {"shell"}
    Flags = {}
    None = None
    Given = {2, 3}
    Arrays <- MCArrays
    SpuriousWakeups = TRUE
INVARIANTS TypeOK IdsReserved SearchAgrees TidsUnique MainThreadKept SleepersMarked
PROPERTY ExitedIsFinal
CHECK_DEADLOCK FALSE
