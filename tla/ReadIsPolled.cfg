SPECIFICATION Spec
CONSTANTS
    Seqs = {s1, s2}
    MaxFds = 4
    MaxChunks = 1
    ChunkLen = 2
    MaxRead = 1
    MaxInbox = 1
INVARIANTS
    ReadIsPolled
