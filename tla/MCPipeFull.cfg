SPECIFICATION Pipe_Spec
CONSTANTS
    BufferSize = 2
    Writes <- MCWrites
    EndCodes = {}
    ReadSize = 2
    Readers = {"type"}
INVARIANT OutputNotBlocked
CHECK_DEADLOCK FALSE
