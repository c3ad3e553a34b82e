SPECIFICATION Pipe_Spec
CONSTANTS
    BufferSize = 2
    Writes <- MCWrites
    EndCodes = {}
    ReadSize = 2
    Readers = {"freq"}
PROPERTY FreqPrints
CHECK_DEADLOCK FALSE
