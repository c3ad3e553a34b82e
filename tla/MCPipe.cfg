SPECIFICATION Pipe_Spec
CONSTANTS
    BufferSize = 2
    Writes <- MCWrites
    EndCodes = {4}
    ReadSize = 2
    Readers = {"freq", "type", "echo"}
INVARIANTS PipeTypeOK TokensKept PopFindsByte FaultOnlyByQuitters
PROPERTIES ImplementsChannel BytesArrive
CHECK_DEADLOCK FALSE
