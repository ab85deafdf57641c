CONSTANTS
    BufSize = 5
    ChunkMax = 3
    Requests = 2
    MaxFds = 4
    NumCtx = 2
    NumBufs = 6
    RequestBufs = 2
    MaxLength = 0
    MaxChunk = 3
    MaxChunks = 2
    Pad = 1
    Chunking = {1}
    Segment = 11
    MaxFaults = 1
SPECIFICATION Spec
INVARIANTS
    ReadyExactly
    
    
    FramesWhole
PROPERTIES
    RequestsEnd
